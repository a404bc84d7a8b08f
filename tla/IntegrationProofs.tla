------------------------- MODULE IntegrationProofs -------------------------
(***************************************************************************)
(* Invariants of Integration for every set of tasks, brokers and grants,    *)
(* and every value of the bounds. First the truth of the journals: their    *)
(* types, that what lands was approved and authorized, that what is         *)
(* recorded lies on the base it was prepared against, and that each phase   *)
(* of a transaction stands for an effect that happened. Then the safety of  *)
(* the feature branch: a reviewed head lands once and is named by a durable *)
(* record, what is superseded is reverted once, and, with one broker at a   *)
(* time, the tracker says terminal only for what the branch has.            *)
(***************************************************************************)
EXTENDS Integration, TLAPS

\* A script that is not idle works on a task, the broker when it has picked
\* one, and a preparation is filed under its own task.
TaskPCs == BrokerPCs \ {"idle", "authorize", "export", "sort", "finalize"}

IntegBound ==
    integ.pc # "idle" => /\ integ.task \in Tasks /\ integ.prep \in Preparations
                         /\ integ.prep.task = integ.task

FinBound == \A b \in Brokers : fin[b].pc \in TaskPCs => fin[b].task \in Tasks

PrepBound == \A t \in Tasks : prep[t] # None => prep[t].task = t

BudgetOK == budget \in [kill : Nat, brokerKill : Nat, edit : Nat, block : Nat, finding : Nat]

IntegOK == integ \in IntegratorStates /\ IntegBound

FinOK == fin \in [Brokers -> BrokerStates] /\ FinBound

TypeInv == /\ GitTypeOK /\ TrackerTypeOK /\ JournalTypeOK
           /\ PrepBound /\ IntegOK /\ FinOK /\ BudgetOK

LEMMA TypeInvOK == TypeInv => TypeOK
BY DEF TypeInv, TypeOK, ProcessTypeOK, IntegOK, FinOK, BudgetOK

USE DEF gitVars, trackerVars, journalVars

-----------------------------------------------------------------------------
(* A step that leaves a group of variables alone keeps its part of the type.*)
LEMMA Untouched ==
    /\ GitTypeOK /\ UNCHANGED gitVars => GitTypeOK'
    /\ TrackerTypeOK /\ UNCHANGED trackerVars => TrackerTypeOK'
    /\ JournalTypeOK /\ UNCHANGED <<attempt, held, journalVars>> => JournalTypeOK'
    /\ PrepBound /\ UNCHANGED prep => PrepBound'
    /\ IntegOK /\ UNCHANGED integ => IntegOK'
    /\ FinOK /\ UNCHANGED fin => FinOK'
    /\ BudgetOK /\ UNCHANGED budget => BudgetOK'
BY DEF GitTypeOK, TrackerTypeOK, JournalTypeOK, PrepBound, IntegOK, IntegBound,
       FinOK, FinBound, BudgetOK

LEMMA InitType == Init => TypeInv
<1> SUFFICES ASSUME Init PROVE TypeInv
    OBVIOUS
<1>1. GitTypeOK
    BY DEF Init, GitTypeOK, Clean, Checkouts, Worktrees
<1>2. TrackerTypeOK
    BY DEF Init, TrackerTypeOK, Statuses, Reviews, Verdicts, NoSight
<1>3. JournalTypeOK /\ PrepBound
    BY DEF Init, JournalTypeOK, PrepBound
<1>4. FinOK
    <2>1. NoSight \in Sights
        BY DEF NoSight, Sights, Statuses, Reviews, Verdicts
    <2>2. BrokerIdle \in BrokerStates
        BY <2>1 DEF BrokerIdle, BrokerPCs, BrokerStates
    <2> QED BY <2>2 DEF Init, FinOK, FinBound, BrokerIdle, TaskPCs
<1>5. IntegOK
    BY DEF Init, IntegOK, IntegBound, IntegratorIdle, IntegratorPCs, IntegratorStates
<1>6. BudgetOK
    BY BudgetAssumption DEF Init, BudgetOK
<1> QED BY <1>1, <1>2, <1>3, <1>4, <1>5, <1>6 DEF TypeInv

-----------------------------------------------------------------------------
(* The control steps of the two scripts.                                    *)
LEMMA GotoOK ==
    ASSUME IntegOK, integ.pc # "idle", NEW pc \in IntegratorPCs, Goto(pc)
    PROVE  IntegOK'
BY DEF IntegOK, IntegBound, Goto, IntegratorStates

LEMMA IntegratorDiesOK ==
    ASSUME IntegratorDies
    PROVE  IntegOK'
BY DEF IntegOK, IntegBound, IntegratorDies, IntegratorIdle, IntegratorPCs, IntegratorStates

LEMMA BrokerIdleOK == BrokerIdle \in BrokerStates
<1>1. NoSight \in Sights
    BY DEF NoSight, Sights, Statuses, Reviews, Verdicts
<1> QED BY <1>1 DEF BrokerIdle, BrokerPCs, BrokerStates

LEMMA BrokerGotoOK ==
    ASSUME FinOK, NEW b \in Brokers, NEW pc \in BrokerPCs, BrokerGoto(b, pc),
           pc \in TaskPCs => fin[b].task \in Tasks
    PROVE  FinOK'
BY ZenonT(40) DEF FinOK, FinBound, BrokerGoto, BrokerStates

LEMMA BrokerDiesOK ==
    ASSUME FinOK, NEW b \in Brokers, BrokerDies(b)
    PROVE  FinOK'
BY BrokerIdleOK DEF FinOK, FinBound, BrokerDies, BrokerIdle, TaskPCs

-----------------------------------------------------------------------------
(* The integrator.                                                          *)
LEMMA PrepareType ==
    ASSUME TypeInv, NEW t \in Tasks, Prepare(t)
    PROVE  TypeInv'
<1>1. prep' \in [Tasks -> Preparations \cup {None}] /\ PrepBound'
    BY DEF TypeInv, GitTypeOK, JournalTypeOK, PrepBound, Prepare, Preparations, Tip
<1>2. JournalTypeOK'
    BY <1>1 DEF TypeInv, JournalTypeOK, Prepare
<1> QED BY <1>1, <1>2, Untouched DEF TypeInv, Prepare

LEMMA ResumeRecordedType ==
    ASSUME TypeInv, NEW t \in Tasks, ResumeRecorded(t)
    PROVE  TypeInv'
<1>1. PICK g \in [Prepared -> Grants] :
          IF /\ ValidEntry(t) /\ t \in Prepared
             /\ \A q \in prepHistory : PrepId(q) # PrepId(prep[t])
          THEN /\ prepHistory' = prepHistory \cup {Regranted(g)[t]}
               /\ prep' = [Regranted(g) EXCEPT ![t] = None]
          ELSE prep' = Regranted(g) /\ UNCHANGED prepHistory
    BY DEF ResumeRecorded
<1>2. \A u \in Prepared : /\ Regranted(g)[u] \in Preparations
                           /\ Regranted(g)[u].task = u
    <2> TAKE u \in Prepared
    <2>1. prep[u] \in Preparations /\ prep[u].task = u /\ u \in Tasks
        BY DEF TypeInv, JournalTypeOK, PrepBound, Prepared
    <2>2. Regranted(g)[u] = [prep[u] EXCEPT !.grant = g[u]]
        BY <2>1 DEF Regranted
    <2>3. g[u] \in Grants
        OBVIOUS
    <2> QED BY <2>1, <2>2, <2>3 DEF Preparations
<1>3. Regranted(g) \in [Tasks -> Preparations \cup {None}]
    BY <1>2 DEF Regranted
<1>4. prep' \in [Tasks -> Preparations \cup {None}]
    BY <1>1, <1>3
<1>5. prepHistory' \subseteq Preparations
    BY <1>1, <1>2 DEF TypeInv, JournalTypeOK
<1>6. JournalTypeOK'
    BY <1>4, <1>5 DEF TypeInv, JournalTypeOK, ResumeRecorded
<1>7. PrepBound'
    BY ZenonT(40), <1>1, <1>2, <1>3 DEF PrepBound, Regranted
<1> QED BY <1>6, <1>7, Untouched DEF TypeInv, ResumeRecorded

LEMMA LoadType ==
    ASSUME TypeInv, NEW t \in Tasks, Load(t)
    PROVE  TypeInv'
<1>1. prep[t] \in Preparations /\ prep[t].task = t
    BY DEF TypeInv, JournalTypeOK, PrepBound, Load
<1>2. IntegOK'
    BY <1>1 DEF TypeInv, IntegOK, IntegBound, Load, IntegratorPCs, IntegratorStates
<1> QED BY <1>2, Untouched DEF TypeInv, Load

LEMMA LocateType ==
    ASSUME TypeInv, Locate
    PROVE  TypeInv'
<1>1. Tip \in Nat
    BY DEF TypeInv, GitTypeOK, Tip
<1>2. CASE integ' = [integ EXCEPT !.pc = "landed", !.commit = Tip]
    BY <1>1, <1>2, Untouched
       DEF TypeInv, IntegOK, IntegBound, Locate, IntegratorPCs, IntegratorStates
<1>3. CASE Goto("overlaid") \/ Goto("at-base")
    <2>1. "overlaid" \in IntegratorPCs /\ "at-base" \in IntegratorPCs
        BY DEF IntegratorPCs
    <2>2. IntegOK'
        BY <1>3, <2>1, GotoOK DEF TypeInv, Locate
    <2> QED BY <2>2, Untouched DEF TypeInv, Locate
<1>4. CASE IntegratorDies
    BY <1>4, IntegratorDiesOK, Untouched DEF TypeInv, Locate
<1> QED BY <1>2, <1>3, <1>4 DEF Locate

LEMMA EstablishMergeType ==
    ASSUME TypeInv, EstablishMerge
    PROVE  TypeInv'
<1>1. CASE Goto("merging") /\ checkout' = [op |-> "merge-head", task |-> integ.task,
                                           head |-> integ.prep.head]
    <2>1. IntegOK'
        BY <1>1, GotoOK DEF TypeInv, EstablishMerge, IntegratorPCs
    <2>2. integ.task \in Tasks /\ integ.prep.head \in Nat
        BY DEF TypeInv, IntegOK, IntegBound, EstablishMerge, Preparations
    <2>3. GitTypeOK'
        BY <1>1, <2>2 DEF TypeInv, GitTypeOK, EstablishMerge, Checkouts
    <2> QED BY <2>1, <2>3, Untouched DEF TypeInv, EstablishMerge
<1>2. CASE IntegratorDies /\ UNCHANGED checkout
    BY <1>2, IntegratorDiesOK, Untouched DEF TypeInv, EstablishMerge
<1> QED BY <1>1, <1>2 DEF EstablishMerge

LEMMA MaterializeOverlayType ==
    ASSUME TypeInv, MaterializeOverlay
    PROVE  TypeInv'
<1>1. IntegOK'
    BY GotoOK DEF TypeInv, MaterializeOverlay, IntegratorPCs
<1>2. GitTypeOK'
    BY DEF TypeInv, GitTypeOK, MaterializeOverlay, Checkouts
<1> QED BY <1>1, <1>2, Untouched DEF TypeInv, MaterializeOverlay

LEMMA ValidateMergeType ==
    ASSUME TypeInv, ValidateMerge
    PROVE  TypeInv'
<1>1. IntegOK'
    BY GotoOK DEF TypeInv, ValidateMerge, IntegratorPCs
<1> QED BY <1>1, Untouched DEF TypeInv, ValidateMerge

\* A clean checkout is a checkout.
LEMMA CleanOK ==
    ASSUME GitTypeOK, checkout' = Clean, UNCHANGED <<feature, branch, worktree>>
    PROVE  GitTypeOK'
BY DEF GitTypeOK, Clean, Checkouts

LEMMA FailValidationType ==
    ASSUME TypeInv, FailValidation
    PROVE  TypeInv'
BY IntegratorDiesOK, CleanOK, Untouched DEF TypeInv, FailValidation

LEMMA ExpireGrantType ==
    ASSUME TypeInv, ExpireGrant
    PROVE  TypeInv'
<1>1. GitTypeOK' /\ IntegOK'
    BY IntegratorDiesOK, CleanOK DEF TypeInv, ExpireGrant
<1>2. integ.task \in Tasks /\ prep[integ.task] \in Preparations
      /\ prep[integ.task].task = integ.task
    BY DEF TypeInv, IntegOK, IntegBound, JournalTypeOK, PrepBound, ExpireGrant
<1>3. [prep[integ.task] EXCEPT !.grant = None] \in Preparations
    BY <1>2 DEF Preparations
<1>4. prep' = [prep EXCEPT ![integ.task] = [prep[integ.task] EXCEPT !.grant = None]]
    BY <1>2 DEF ExpireGrant, TypeInv, JournalTypeOK
<1>5. JournalTypeOK'
    BY ZenonT(40), <1>3, <1>4 DEF TypeInv, JournalTypeOK, ExpireGrant
<1>6. PrepBound'
    BY <1>2, <1>4 DEF TypeInv, JournalTypeOK, PrepBound, Preparations
<1> QED BY <1>1, <1>5, <1>6, Untouched DEF TypeInv, ExpireGrant

LEMMA FenceCommitType ==
    ASSUME TypeInv, FenceCommit
    PROVE  TypeInv'
<1>1. CASE Goto("fenced") /\ UNCHANGED checkout
    <2>1. IntegOK'
        BY <1>1, GotoOK DEF TypeInv, FenceCommit, IntegratorPCs
    <2> QED BY <1>1, <2>1, Untouched DEF TypeInv, FenceCommit
<1>2. CASE checkout' = Clean /\ IntegratorDies
    BY <1>2, IntegratorDiesOK, CleanOK, Untouched DEF TypeInv, FenceCommit
<1>3. CASE IntegratorDies /\ UNCHANGED checkout
    BY <1>3, IntegratorDiesOK, Untouched DEF TypeInv, FenceCommit
<1> QED BY <1>1, <1>2, <1>3 DEF FenceCommit

LEMMA CommitMergeType ==
    ASSUME TypeInv, CommitMerge
    PROVE  TypeInv'
<1> DEFINE p == integ.prep
<1> DEFINE c == [op |-> "merge", task |-> p.task, attempt |-> p.attempt, head |-> p.head,
                base |-> p.base, grant |-> p.grant, of |-> 0]
<1>1. p \in Preparations /\ integ.task \in Tasks /\ p.task = integ.task
    BY DEF TypeInv, IntegOK, IntegBound, CommitMerge
<1>2. c \in Commits
    BY <1>1 DEF Preparations, Commits
<1>3. feature' = Append(feature, c) /\ checkout' = Clean
    BY DEF CommitMerge
<1>4. GitTypeOK'
    <2> HIDE DEF c
    <2> QED BY <1>2, <1>3 DEF TypeInv, GitTypeOK, Clean, Checkouts, CommitMerge
<1>5. Tip + 1 \in Nat
    BY DEF TypeInv, GitTypeOK, Tip
<1>6. IntegOK'
    BY <1>5 DEF TypeInv, IntegOK, IntegBound, CommitMerge, IntegratorStates, IntegratorPCs
<1> QED BY <1>4, <1>6, Untouched DEF TypeInv, CommitMerge

LEMMA VerifyLandedType ==
    ASSUME TypeInv, VerifyLanded
    PROVE  TypeInv'
<1>1. CASE Goto("verified")
    <2>1. IntegOK'
        BY <1>1, GotoOK DEF TypeInv, VerifyLanded, IntegratorPCs
    <2> QED BY <2>1, Untouched DEF TypeInv, VerifyLanded
<1>2. CASE IntegratorDies
    BY <1>2, IntegratorDiesOK, Untouched DEF TypeInv, VerifyLanded
<1> QED BY <1>1, <1>2 DEF VerifyLanded

LEMMA RecordTransactionType ==
    ASSUME TypeInv, RecordTransaction
    PROVE  TypeInv'
<1> DEFINE x == [commit |-> integ.commit, attempt |-> integ.prep.attempt,
                head |-> integ.prep.head, base |-> integ.prep.base,
                phase |-> "awaiting-tracker"]
<1>1. CASE tx' = [tx EXCEPT ![integ.task] = x] /\ Goto("recorded")
    <2>1. IntegOK'
        BY <1>1, GotoOK DEF TypeInv, RecordTransaction, IntegratorPCs
    <2>2. x \in Transactions
        BY DEF TypeInv, IntegOK, IntegBound, RecordTransaction, IntegratorStates,
               Preparations, Transactions, Phases
    <2>3. JournalTypeOK'
        <3> HIDE DEF x
        <3> QED BY <1>1, <2>2 DEF TypeInv, JournalTypeOK, RecordTransaction
    <2> QED BY <2>1, <2>3, Untouched DEF TypeInv, RecordTransaction
<1>2. CASE IntegratorDies /\ UNCHANGED tx
    BY <1>2, IntegratorDiesOK, Untouched DEF TypeInv, RecordTransaction
<1> QED BY <1>1, <1>2 DEF RecordTransaction

LEMMA ArchivePreparationType ==
    ASSUME TypeInv, ArchivePreparation
    PROVE  TypeInv'
<1>1. IntegOK'
    BY IntegratorDiesOK DEF ArchivePreparation
<1>2. CASE UNCHANGED <<prep, prepHistory>>
    BY <1>1, <1>2, Untouched DEF TypeInv, ArchivePreparation
<1>3. CASE /\ prep[integ.task] # None
           /\ prepHistory' = prepHistory \cup {prep[integ.task]}
           /\ prep' = [prep EXCEPT ![integ.task] = None]
    <2>1. integ.task \in Tasks
        BY DEF TypeInv, IntegOK, IntegBound, ArchivePreparation
    <2>2. JournalTypeOK'
        BY <1>3, <2>1 DEF TypeInv, JournalTypeOK, ArchivePreparation
    <2>3. PrepBound'
        BY <1>3 DEF TypeInv, JournalTypeOK, PrepBound
    <2> QED BY <1>1, <2>2, <2>3, Untouched DEF TypeInv, ArchivePreparation
<1> QED BY <1>2, <1>3 DEF ArchivePreparation

LEMMA IntegratorType ==
    ASSUME TypeInv, IntegratorNext
    PROVE  TypeInv'
<1>1. ASSUME NEW t \in Tasks, Prepare(t) \/ ResumeRecorded(t) \/ Load(t)
      PROVE  TypeInv'
    BY <1>1, PrepareType, ResumeRecordedType, LoadType
<1>2. CASE ValidateMerge \/ FailValidation \/ ExpireGrant
    BY <1>2, ValidateMergeType, FailValidationType, ExpireGrantType
<1>3. CASE IntegratorContinues
    BY <1>3, LocateType, EstablishMergeType, MaterializeOverlayType, FenceCommitType,
       CommitMergeType, VerifyLandedType, RecordTransactionType, ArchivePreparationType
       DEF IntegratorContinues
<1> QED BY <1>1, <1>2, <1>3 DEF IntegratorNext

-----------------------------------------------------------------------------
(* The broker.                                                              *)
LEMMA FinUpdateOK ==
    ASSUME FinOK, NEW b \in Brokers, NEW s \in BrokerStates,
           s.pc \in TaskPCs => s.task \in Tasks, fin' = [fin EXCEPT ![b] = s]
    PROVE  FinOK'
BY DEF FinOK, FinBound

LEMMA BeginPassType ==
    ASSUME TypeInv, NEW b \in Brokers, BeginPass(b)
    PROVE  TypeInv'
<1> DEFINE s == [fin[b] EXCEPT !.pc = "authorize", !.todo = {t \in Tasks : prep[t] # None}]
<1>1. FinOK'
    <2>1. {t \in Tasks : prep[t] # None} \in SUBSET Tasks
        OBVIOUS
    <2>2. s \in BrokerStates /\ s.pc \notin TaskPCs
        BY ZenonT(40), <2>1 DEF TypeInv, FinOK, BrokerStates, BrokerPCs, TaskPCs
    <2>3. fin' = [fin EXCEPT ![b] = s]
        BY DEF TypeInv, FinOK, BeginPass
    <2> QED BY <2>2, <2>3, FinUpdateOK DEF TypeInv
<1> QED BY <1>1, Untouched DEF TypeInv, BeginPass

LEMMA AuthorizePreparationType ==
    ASSUME TypeInv, NEW b \in Brokers, AuthorizePreparation(b)
    PROVE  TypeInv'
<1>1. PICK t \in fin[b].todo :
          IF Authorizable(t)
          THEN /\ \E g \in Grants : prep' = [prep EXCEPT ![t].grant = g]
               /\ fin' = [fin EXCEPT ![b].todo = @ \ {t}]
          ELSE BrokerDies(b) /\ UNCHANGED prep
    BY DEF AuthorizePreparation
<1>2. CASE ~Authorizable(t)
    BY <1>1, <1>2, BrokerDiesOK, Untouched DEF TypeInv, AuthorizePreparation
<1>3. CASE Authorizable(t)
    <2>1. PICK g \in Grants : prep' = [prep EXCEPT ![t].grant = g]
        BY <1>1, <1>3
    <2>2. t \in Tasks
        BY DEF TypeInv, FinOK, BrokerStates
    <2>3. prep[t] \in Preparations /\ prep[t].task = t
        BY <1>3, <2>2 DEF TypeInv, JournalTypeOK, PrepBound, Authorizable
    <2>4. [prep[t] EXCEPT !.grant = g] \in Preparations
        BY <2>3 DEF Preparations
    <2>5. prep' = [prep EXCEPT ![t] = [prep[t] EXCEPT !.grant = g]]
        BY <2>1, <2>2 DEF TypeInv, JournalTypeOK
    <2>6. JournalTypeOK'
        BY <2>4, <2>5 DEF TypeInv, JournalTypeOK, AuthorizePreparation
    <2>7. PrepBound'
        BY <2>3, <2>5 DEF TypeInv, JournalTypeOK, PrepBound, Preparations
    <2>8. FinOK'
        <3> DEFINE s == [fin[b] EXCEPT !.todo = @ \ {t}]
        <3>1. fin[b].todo \ {t} \in SUBSET Tasks
            BY DEF TypeInv, FinOK, BrokerStates
        <3>2. s \in BrokerStates /\ s.pc \notin TaskPCs
            BY <3>1 DEF TypeInv, FinOK, BrokerStates, TaskPCs, AuthorizePreparation, At
        <3>3. fin' = [fin EXCEPT ![b] = s]
            BY <1>1, <1>3 DEF TypeInv, FinOK
        <3> QED BY <3>2, <3>3, FinUpdateOK DEF TypeInv
    <2> QED BY <2>6, <2>7, <2>8, Untouched DEF TypeInv, AuthorizePreparation
<1> QED BY <1>2, <1>3

LEMMA ExportAndPrevalidateType ==
    ASSUME TypeInv, NEW b \in Brokers, ExportAndPrevalidate(b)
    PROVE  TypeInv'
<1> DEFINE snap == [t \in Tasks |->
                       IF t \in Entries
                       THEN [status |-> status[t], review |-> review[t],
                             noted |-> tx[t].commit \in noted]
                       ELSE NoSight]
<1>1. CASE fin' = [fin EXCEPT ![b].pc = "sort", ![b].todo = Entries, ![b].snap = snap]
    <2>1. snap \in [Tasks -> Sights]
        <3>1. NoSight \in Sights
            BY DEF NoSight, Sights, Statuses, Reviews, Verdicts
        <3>2. \A t \in Tasks : [status |-> status[t], review |-> review[t],
                                noted |-> tx[t].commit \in noted] \in Sights
            BY DEF TypeInv, TrackerTypeOK, Sights
        <3> QED BY <3>1, <3>2
    <2>2. Entries \in SUBSET Tasks
        BY DEF Entries
    <2> HIDE DEF snap
    <2> DEFINE s == [fin[b] EXCEPT !.pc = "sort", !.todo = Entries, !.snap = snap]
    <2>3. s \in BrokerStates /\ s.pc \notin TaskPCs
        BY ZenonT(40), <2>1, <2>2 DEF TypeInv, FinOK, BrokerStates, BrokerPCs, TaskPCs
    <2>4. fin' = [fin EXCEPT ![b] = s]
        BY <1>1 DEF TypeInv, FinOK
    <2>5. FinOK'
        BY <2>3, <2>4, FinUpdateOK DEF TypeInv
    <2> QED BY <2>5, Untouched DEF TypeInv, ExportAndPrevalidate
<1>2. CASE BrokerDies(b)
    BY <1>2, BrokerDiesOK, Untouched DEF TypeInv, ExportAndPrevalidate
<1> QED BY <1>1, <1>2 DEF ExportAndPrevalidate

LEMMA SortEntryType ==
    ASSUME TypeInv, NEW b \in Brokers, SortEntry(b)
    PROVE  TypeInv'
<1>1. PICK t \in fin[b].todo :
          \/ /\ tx[t] # None
             /\ fin' = [fin EXCEPT ![b].pc = "journal", ![b].task = t,
                                   ![b].phase = tx[t].phase, ![b].commit = tx[t].commit,
                                   ![b].todo = @ \ {t}]
          \/ fin' = [fin EXCEPT ![b].todo = @ \ {t}, ![b].ready = @ \cup {t}]
          \/ BrokerDies(b)
    BY DEF SortEntry
<1>2. t \in Tasks
    BY DEF TypeInv, FinOK, BrokerStates
<1>3. CASE BrokerDies(b)
    BY <1>3, BrokerDiesOK, Untouched DEF TypeInv, SortEntry
<1>4. CASE fin' = [fin EXCEPT ![b].todo = @ \ {t}, ![b].ready = @ \cup {t}]
    <2>1. FinOK'
        BY ZenonT(40), <1>2, <1>4 DEF TypeInv, FinOK, FinBound, BrokerStates
    <2> QED BY <2>1, Untouched DEF TypeInv, SortEntry
<1>5. CASE /\ tx[t] # None
           /\ fin' = [fin EXCEPT ![b].pc = "journal", ![b].task = t,
                                 ![b].phase = tx[t].phase, ![b].commit = tx[t].commit,
                                 ![b].todo = @ \ {t}]
    <2>1. tx[t].phase \in Phases /\ tx[t].commit \in Nat
        BY <1>2, <1>5 DEF TypeInv, JournalTypeOK, Transactions
    <2>2. FinOK'
        BY <1>2, <1>5, <2>1 DEF TypeInv, FinOK, FinBound, BrokerStates, BrokerPCs
    <2> QED BY <2>2, Untouched DEF TypeInv, SortEntry
<1> QED BY <1>1, <1>3, <1>4, <1>5

LEMMA SortDoneType ==
    ASSUME TypeInv, NEW b \in Brokers, SortDone(b)
    PROVE  TypeInv'
<1>1. FinOK'
    BY BrokerGotoOK DEF TypeInv, SortDone, BrokerPCs, TaskPCs
<1> QED BY <1>1, Untouched DEF TypeInv, SortDone

(* What every step of supersede_one and finalize_one starts from.           *)
LEMMA BrokerAt ==
    ASSUME FinOK, NEW b \in Brokers, NEW pc \in TaskPCs, At(b, pc)
    PROVE  fin[b].task \in Tasks /\ fin[b].commit \in Nat
BY DEF FinOK, FinBound, At, BrokerStates

(* A step of a located broker to another such place.                        *)
LEMMA BrokerStepOK ==
    ASSUME FinOK, NEW b \in Brokers, NEW from \in TaskPCs, At(b, from),
           NEW to \in BrokerPCs, BrokerGoto(b, to)
    PROVE  FinOK'
BY BrokerAt, BrokerGotoOK

LEMMA JournalRecoveryType ==
    ASSUME TypeInv, NEW b \in Brokers, JournalRecovery(b)
    PROVE  TypeInv'
<1> DEFINE t == fin[b].task
<1>1. t \in Tasks /\ fin[b].commit \in Nat /\ Tip \in Nat
    BY BrokerAt DEF TypeInv, GitTypeOK, Tip, JournalRecovery, BrokerPCs, TaskPCs
<1>2. CASE BrokerDies(b) /\ UNCHANGED recovery
    BY <1>2, BrokerDiesOK, Untouched DEF TypeInv, JournalRecovery
<1>3. CASE BrokerGoto(b, "revert")
    <2>1. FinOK'
        BY <1>3, BrokerStepOK DEF TypeInv, JournalRecovery, BrokerPCs, TaskPCs
    <2>2. CASE UNCHANGED recovery
        BY <2>1, <2>2, Untouched DEF TypeInv, JournalRecovery
    <2>3. CASE /\ tx[t] # None
               /\ recovery' = [recovery EXCEPT ![t] =
                      [commit |-> fin[b].commit, txPhase |-> tx[t].phase, preHead |-> Tip,
                       revert |-> 0, phase |-> "revert-prepared"]]
        <3>1. tx[t].phase \in Phases
            BY <1>1, <2>3 DEF TypeInv, JournalTypeOK, Transactions
        <3>2. [commit |-> fin[b].commit, txPhase |-> tx[t].phase, preHead |-> Tip,
               revert |-> 0, phase |-> "revert-prepared"] \in Recoveries
            BY <1>1, <3>1 DEF Recoveries
        <3>3. recovery' \in [Tasks -> Recoveries \cup {None}]
            BY <1>1, <2>3, <3>2 DEF TypeInv, JournalTypeOK
        <3>4. JournalTypeOK'
            BY <3>3 DEF TypeInv, JournalTypeOK, JournalRecovery
        <3> QED BY <2>1, <3>4, Untouched DEF TypeInv, JournalRecovery
    <2> QED BY <1>3, <2>2, <2>3 DEF JournalRecovery
<1> QED BY <1>2, <1>3 DEF JournalRecovery

LEMMA StageRevertType ==
    ASSUME TypeInv, NEW b \in Brokers, StageRevert(b)
    PROVE  TypeInv'
<1>1. CASE BrokerDies(b) /\ UNCHANGED checkout
    BY <1>1, BrokerDiesOK, Untouched DEF TypeInv, StageRevert
<1>2. CASE BrokerGoto(b, "mark") /\ UNCHANGED checkout
    <2>1. FinOK'
        BY <1>2, BrokerStepOK DEF TypeInv, StageRevert, BrokerPCs, TaskPCs
    <2> QED BY <1>2, <2>1, Untouched DEF TypeInv, StageRevert
<1>3. CASE /\ BrokerGoto(b, "staged")
           /\ checkout' = [op |-> "revert", task |-> fin[b].task, head |-> 0]
    <2>1. FinOK'
        BY <1>3, BrokerStepOK DEF TypeInv, StageRevert, BrokerPCs, TaskPCs
    <2>2. fin[b].task \in Tasks
        BY BrokerAt DEF TypeInv, StageRevert, BrokerPCs, TaskPCs
    <2>3. GitTypeOK'
        BY <1>3, <2>2 DEF TypeInv, GitTypeOK, Checkouts, StageRevert
    <2> QED BY <2>1, <2>3, Untouched DEF TypeInv, StageRevert
<1> QED BY <1>1, <1>2, <1>3 DEF StageRevert

LEMMA CommitRevertType ==
    ASSUME TypeInv, NEW b \in Brokers, CommitRevert(b)
    PROVE  TypeInv'
<1> DEFINE c == [op |-> "revert", task |-> fin[b].task, attempt |-> 0, head |-> 0,
                base |-> Tip, grant |-> None, of |-> fin[b].commit]
<1>1. CASE BrokerDies(b) /\ UNCHANGED <<feature, checkout>>
    BY <1>1, BrokerDiesOK, Untouched DEF TypeInv, CommitRevert
<1>2. CASE /\ feature' = Append(feature, c)
           /\ checkout' = Clean /\ BrokerGoto(b, "mark")
    <2>1. FinOK'
        BY <1>2, BrokerStepOK DEF TypeInv, CommitRevert, BrokerPCs, TaskPCs
    <2>2. fin[b].task \in Tasks /\ fin[b].commit \in Nat /\ Tip \in Nat
        BY BrokerAt DEF TypeInv, GitTypeOK, Tip, CommitRevert, BrokerPCs, TaskPCs
    <2>3. c \in Commits
        BY <2>2 DEF Commits
    <2>4. GitTypeOK'
        <3> HIDE DEF c
        <3> QED BY <1>2, <2>3 DEF TypeInv, GitTypeOK, Clean, Checkouts, CommitRevert
    <2> QED BY <2>1, <2>4, Untouched DEF TypeInv, CommitRevert
<1> QED BY <1>1, <1>2 DEF CommitRevert

LEMMA AbortRevertType ==
    ASSUME TypeInv, NEW b \in Brokers, AbortRevert(b)
    PROVE  TypeInv'
BY BrokerDiesOK, CleanOK, Untouched DEF TypeInv, AbortRevert

LEMMA MarkRevertedType ==
    ASSUME TypeInv, NEW b \in Brokers, MarkReverted(b)
    PROVE  TypeInv'
<1>1. CASE BrokerDies(b) /\ UNCHANGED recovery
    BY <1>1, BrokerDiesOK, Untouched DEF TypeInv, MarkReverted
<1>2. CASE JournalOpen(b) /\ BrokerGoto(b, "reopen")
           /\ \E i \in RevertsOf(fin[b].commit) :
                  recovery' = [recovery EXCEPT ![fin[b].task].phase = "reverted",
                                               ![fin[b].task].revert = i]
    <2>1. FinOK'
        BY <1>2, BrokerStepOK DEF TypeInv, MarkReverted, BrokerPCs, TaskPCs
    <2>2. fin[b].task \in Tasks
        BY BrokerAt DEF TypeInv, MarkReverted, BrokerPCs, TaskPCs
    <2>3. recovery[fin[b].task] \in Recoveries
        BY <1>2, <2>2 DEF TypeInv, JournalTypeOK, JournalOpen
    <2>4. PICK i \in RevertsOf(fin[b].commit) :
              recovery' = [recovery EXCEPT ![fin[b].task].phase = "reverted",
                                           ![fin[b].task].revert = i]
        BY <1>2
    <2>5. i \in Nat
        BY DEF RevertsOf
    <2>6. [recovery[fin[b].task] EXCEPT !.phase = "reverted", !.revert = i] \in Recoveries
        BY <2>3, <2>5 DEF Recoveries
    <2>7. recovery' = [recovery EXCEPT ![fin[b].task] =
                          [recovery[fin[b].task] EXCEPT !.phase = "reverted", !.revert = i]]
        BY <2>2, <2>4 DEF TypeInv, JournalTypeOK
    <2>8. recovery' \in [Tasks -> Recoveries \cup {None}]
        BY <2>2, <2>6, <2>7 DEF TypeInv, JournalTypeOK
    <2>9. JournalTypeOK'
        BY <2>8 DEF TypeInv, JournalTypeOK, MarkReverted
    <2> QED BY <2>1, <2>9, Untouched DEF TypeInv, MarkReverted
<1> QED BY <1>1, <1>2 DEF MarkReverted

LEMMA ReopenTaskType ==
    ASSUME TypeInv, NEW b \in Brokers, ReopenTask(b)
    PROVE  TypeInv'
<1>1. CASE BrokerDies(b) /\ UNCHANGED status
    BY <1>1, BrokerDiesOK, Untouched DEF TypeInv, ReopenTask
<1>2. CASE /\ status' = [status EXCEPT ![fin[b].task] = "queued"]
           /\ BrokerGoto(b, "announce")
    <2>1. FinOK'
        BY <1>2, BrokerStepOK DEF TypeInv, ReopenTask, BrokerPCs, TaskPCs
    <2>2. TrackerTypeOK'
        BY <1>2 DEF TypeInv, TrackerTypeOK, Statuses, ReopenTask
    <2> QED BY <2>1, <2>2, Untouched DEF TypeInv, ReopenTask
<1> QED BY <1>1, <1>2 DEF ReopenTask

LEMMA AnnounceSupersededType ==
    ASSUME TypeInv, NEW b \in Brokers, AnnounceSuperseded(b)
    PROVE  TypeInv'
<1>1. CASE BrokerDies(b) /\ UNCHANGED retracted
    BY <1>1, BrokerDiesOK, Untouched DEF TypeInv, AnnounceSuperseded
<1>2. CASE retracted' = retracted \cup {fin[b].commit} /\ BrokerGoto(b, "retire")
    <2>1. FinOK'
        BY <1>2, BrokerStepOK DEF TypeInv, AnnounceSuperseded, BrokerPCs, TaskPCs
    <2>2. TrackerTypeOK'
        BY <1>2, BrokerAt DEF TypeInv, TrackerTypeOK, AnnounceSuperseded, BrokerPCs, TaskPCs
    <2> QED BY <2>1, <2>2, Untouched DEF TypeInv, AnnounceSuperseded
<1> QED BY <1>1, <1>2 DEF AnnounceSuperseded

LEMMA RetireRecoveryType ==
    ASSUME TypeInv, NEW b \in Brokers, RetireRecovery(b)
    PROVE  TypeInv'
<1>1. CASE BrokerDies(b) /\ UNCHANGED recovery
    BY <1>1, BrokerDiesOK, Untouched DEF TypeInv, RetireRecovery
<1>2. CASE /\ JournalOpen(b) /\ BrokerGoto(b, "archive")
           /\ recovery' = [recovery EXCEPT ![fin[b].task].phase = "superseded"]
    <2>1. FinOK'
        BY <1>2, BrokerStepOK DEF TypeInv, RetireRecovery, BrokerPCs, TaskPCs
    <2>2. fin[b].task \in Tasks
        BY BrokerAt DEF TypeInv, RetireRecovery, BrokerPCs, TaskPCs
    <2>3. recovery[fin[b].task] \in Recoveries
        BY <1>2, <2>2 DEF TypeInv, JournalTypeOK, JournalOpen
    <2>4. recovery' \in [Tasks -> Recoveries \cup {None}]
        BY <1>2, <2>2, <2>3 DEF TypeInv, JournalTypeOK, Recoveries
    <2>5. JournalTypeOK'
        BY <2>4 DEF TypeInv, JournalTypeOK, RetireRecovery
    <2> QED BY <2>1, <2>5, Untouched DEF TypeInv, RetireRecovery
<1> QED BY <1>1, <1>2 DEF RetireRecovery

LEMMA ArchiveTransactionType ==
    ASSUME TypeInv, NEW b \in Brokers, ArchiveTransaction(b)
    PROVE  TypeInv'
<1>1. CASE BrokerDies(b) /\ UNCHANGED <<tx, txHistory>>
    BY <1>1, BrokerDiesOK, Untouched DEF TypeInv, ArchiveTransaction
<1>2. CASE /\ tx[fin[b].task] # None /\ BrokerGoto(b, "discard")
           /\ txHistory' = txHistory \cup {tx[fin[b].task]}
           /\ tx' = [tx EXCEPT ![fin[b].task] = None]
    <2>1. FinOK'
        BY <1>2, BrokerStepOK DEF TypeInv, ArchiveTransaction, BrokerPCs, TaskPCs
    <2>2. fin[b].task \in Tasks
        BY BrokerAt DEF TypeInv, ArchiveTransaction, BrokerPCs, TaskPCs
    <2>3. JournalTypeOK'
        BY <1>2, <2>2 DEF TypeInv, JournalTypeOK, ArchiveTransaction
    <2> QED BY <2>1, <2>3, Untouched DEF TypeInv, ArchiveTransaction
<1> QED BY <1>1, <1>2 DEF ArchiveTransaction

LEMMA ArchiveRecoveryType ==
    ASSUME TypeInv, NEW b \in Brokers, ArchiveRecovery(b)
    PROVE  TypeInv'
<1>1. CASE BrokerDies(b) /\ UNCHANGED recovery
    BY <1>1, BrokerDiesOK, Untouched DEF TypeInv, ArchiveRecovery
<1>2. CASE /\ recovery' = [recovery EXCEPT ![fin[b].task] = None]
           /\ fin' = [fin EXCEPT ![b].pc = "sort", ![b].task = None,
                                 ![b].phase = "none", ![b].commit = 0]
    <2>1. FinOK'
        <3> DEFINE s == [fin[b] EXCEPT !.pc = "sort", !.task = None, !.phase = "none",
                                      !.commit = 0]
        <3>1. s \in BrokerStates /\ s.pc \notin TaskPCs
            BY ZenonT(40) DEF TypeInv, FinOK, BrokerStates, BrokerPCs, TaskPCs
        <3>2. fin' = [fin EXCEPT ![b] = s]
            BY <1>2 DEF TypeInv, FinOK
        <3> QED BY <3>1, <3>2, FinUpdateOK DEF TypeInv
    <2>2. JournalTypeOK'
        BY <1>2 DEF TypeInv, JournalTypeOK, ArchiveRecovery
    <2> QED BY <2>1, <2>2, Untouched DEF TypeInv, ArchiveRecovery
<1> QED BY <1>1, <1>2 DEF ArchiveRecovery

LEMMA TakeTransactionLockType ==
    ASSUME TypeInv, NEW b \in Brokers, TakeTransactionLock(b)
    PROVE  TypeInv'
<1> DEFINE Entered(t, pc, c) == [fin[b] EXCEPT !.pc = pc, !.task = t, !.commit = c]
<1>1. PICK t \in fin[b].ready :
          \/ fin' = [fin EXCEPT ![b].ready = @ \ {t}] /\ UNCHANGED lock
          \/ BrokerDies(b) /\ UNCHANGED lock
          \/ /\ UNCHANGED lock \/ lock' = [lock EXCEPT ![t] = Ownerless]
             /\ \E pc \in {"own", "remove-owner"} :
                   \/ fin' = [fin EXCEPT ![b].pc = pc, ![b].task = t, ![b].commit = 0]
                   \/ /\ tx[t] # None
                      /\ fin' = [fin EXCEPT ![b].pc = pc, ![b].task = t,
                                            ![b].commit = tx[t].commit]
    BY ZenonT(40) DEF TakeTransactionLock, ValidAgainst, ValidEntry
<1>2. t \in Tasks
    BY DEF TypeInv, FinOK, BrokerStates
<1>3. CASE fin' = [fin EXCEPT ![b].ready = @ \ {t}] /\ UNCHANGED lock
    <2> DEFINE s == [fin[b] EXCEPT !.ready = @ \ {t}]
    <2>1. fin[b].ready \ {t} \in SUBSET Tasks
        BY DEF TypeInv, FinOK, BrokerStates
    <2>2. s \in BrokerStates /\ s.pc \notin TaskPCs
        BY <2>1 DEF TypeInv, FinOK, BrokerStates, TaskPCs, TakeTransactionLock, At
    <2>3. fin' = [fin EXCEPT ![b] = s]
        BY <1>3 DEF TypeInv, FinOK
    <2>4. FinOK'
        BY <2>2, <2>3, FinUpdateOK DEF TypeInv
    <2> QED BY <1>3, <2>4, Untouched DEF TypeInv, TakeTransactionLock
<1>4. CASE BrokerDies(b) /\ UNCHANGED lock
    BY <1>4, BrokerDiesOK, Untouched DEF TypeInv, TakeTransactionLock
<1>5. ASSUME NEW pc \in {"own", "remove-owner"}, NEW c \in Nat,
             fin' = [fin EXCEPT ![b].pc = pc, ![b].task = t, ![b].commit = c],
             UNCHANGED lock \/ lock' = [lock EXCEPT ![t] = Ownerless]
      PROVE  TypeInv'
    <2>1. Entered(t, pc, c) \in BrokerStates /\ Entered(t, pc, c).task \in Tasks
        BY ZenonT(40), <1>2 DEF TypeInv, FinOK, BrokerStates, BrokerPCs, TakingPCs
    <2>2. fin' = [fin EXCEPT ![b] = Entered(t, pc, c)]
        BY <1>5 DEF TypeInv, FinOK
    <2>3. FinOK'
        BY <2>1, <2>2, FinUpdateOK DEF TypeInv
    <2>4. JournalTypeOK'
        BY <1>2, <1>5 DEF TypeInv, JournalTypeOK, TakeTransactionLock
    <2> QED BY <2>3, <2>4, Untouched DEF TypeInv, TakeTransactionLock
<1>6. tx[t] # None => tx[t].commit \in Nat
    BY <1>2 DEF TypeInv, JournalTypeOK, Transactions
<1> QED BY <1>1, <1>3, <1>4, <1>5, <1>6

(* The steps that make or remove the lock of a broker's task.               *)
LEMMA RemoveOwnerOK ==
    ASSUME TypeInv, NEW b \in Brokers, NEW from \in TaskPCs, At(b, from),
           NEW to \in BrokerPCs, RemoveOwner(b, to),
           UNCHANGED <<attempt, held, prep, prepHistory, tx, txHistory, recovery, events>>
    PROVE  JournalTypeOK' /\ FinOK'
BY BrokerStepOK DEF TypeInv, JournalTypeOK, RemoveOwner

LEMMA ChangeLockOK ==
    ASSUME TypeInv, NEW b \in Brokers, NEW from \in TaskPCs, At(b, from),
           NEW to \in BrokerPCs, NEW new \in Brokers \cup {None, Ownerless}, NEW allowed,
           ChangeLock(b, allowed, new, to),
           UNCHANGED <<attempt, held, prep, prepHistory, tx, txHistory, recovery, events>>
    PROVE  JournalTypeOK' /\ FinOK'
<1>1. CASE BrokerDies(b) /\ UNCHANGED lock
    BY <1>1, BrokerDiesOK DEF TypeInv, JournalTypeOK
<1>2. CASE lock' = [lock EXCEPT ![fin[b].task] = new] /\ BrokerGoto(b, to)
    BY <1>2, BrokerStepOK DEF TypeInv, JournalTypeOK
<1> QED BY <1>1, <1>2 DEF ChangeLock

LEMMA ContinueTakingType ==
    ASSUME TypeInv, NEW b \in Brokers, ContinueTaking(b)
    PROVE  TypeInv'
<1>1. {"remove-owner", "remove-lock", "retake", "own", "locked"}
          \subseteq BrokerPCs \cap TaskPCs
    BY DEF BrokerPCs, TaskPCs, TakingPCs, LockedPCs
<1>2. JournalTypeOK' /\ FinOK'
    BY <1>1, RemoveOwnerOK, ChangeLockOK DEF ContinueTaking
<1> QED BY <1>2, Untouched DEF TypeInv, ContinueTaking

LEMMA FinalizeDoneType ==
    ASSUME TypeInv, NEW b \in Brokers, FinalizeDone(b)
    PROVE  TypeInv'
BY BrokerDiesOK, Untouched DEF TypeInv, FinalizeDone

LEMMA RevalidateType ==
    ASSUME TypeInv, NEW b \in Brokers, Revalidate(b)
    PROVE  TypeInv'
<1> DEFINE s(x, pc) == [fin[b] EXCEPT !.phase = x, !.pc = pc]
<1>1. fin[b].task \in Tasks
    BY BrokerAt DEF TypeInv, Revalidate, BrokerPCs, LockedPCs, TaskPCs
<1>2. CASE BrokerDies(b)
    BY <1>2, BrokerDiesOK, Untouched DEF TypeInv, Revalidate
<1>3. ASSUME NEW x \in Phases \cup {"none"}, NEW pc \in {"release", "tracker"},
             fin' = [fin EXCEPT ![b].phase = x, ![b].pc = pc]
      PROVE  TypeInv'
    <2>1. s(x, pc) \in BrokerStates /\ s(x, pc).task \in Tasks
        BY ZenonT(40), <1>1 DEF TypeInv, FinOK, BrokerStates, BrokerPCs, LockedPCs
    <2>2. fin' = [fin EXCEPT ![b] = s(x, pc)]
        BY <1>3 DEF TypeInv, FinOK
    <2>3. FinOK'
        BY <2>1, <2>2, FinUpdateOK DEF TypeInv
    <2> QED BY <2>3, Untouched DEF TypeInv, Revalidate
<1>4. ASSUME ValidAgainst(fin[b].task, fin[b].snap[fin[b].task])
      PROVE  tx[fin[b].task].phase \in Phases
    BY <1>1, <1>4 DEF TypeInv, JournalTypeOK, Transactions, ValidAgainst, ValidEntry
<1>5. \/ BrokerDies(b)
      \/ \E x \in Phases \cup {"none"}, pc \in {"release", "tracker"} :
             fin' = [fin EXCEPT ![b].phase = x, ![b].pc = pc]
    <2>1. CASE /\ ValidAgainst(fin[b].task, fin[b].snap[fin[b].task])
               /\ fin' = [fin EXCEPT ![b].phase = tx[fin[b].task].phase,
                      ![b].pc = IF tx[fin[b].task].phase = "completed"
                                THEN "release" ELSE "tracker"]
        BY <1>4, <2>1
    <2>2. CASE fin' = [fin EXCEPT ![b].pc = "tracker", ![b].phase = "none"]
        <3>1. fin' = [fin EXCEPT ![b].phase = "none", ![b].pc = "tracker"]
            BY <2>2 DEF TypeInv, FinOK, BrokerStates
        <3> QED BY <3>1
    <2> QED BY <2>1, <2>2 DEF Revalidate
<1> QED BY <1>2, <1>3, <1>5

LEMMA FenceTrackerType ==
    ASSUME TypeInv, NEW b \in Brokers, FenceTracker(b)
    PROVE  TypeInv'
<1>1. CASE BrokerGoto(b, "moving")
    <2>1. FinOK'
        BY <1>1, BrokerStepOK DEF TypeInv, FenceTracker, BrokerPCs, LockedPCs, TaskPCs
    <2> QED BY <2>1, Untouched DEF TypeInv, FenceTracker
<1>2. CASE BrokerDies(b)
    BY <1>2, BrokerDiesOK, Untouched DEF TypeInv, FenceTracker
<1> QED BY <1>1, <1>2 DEF FenceTracker

LEMMA ReadForTerminalType ==
    ASSUME TypeInv, NEW b \in Brokers, ReadForTerminal(b)
    PROVE  TypeInv'
<1>1. CASE BrokerGoto(b, "writing") \/ BrokerGoto(b, "commenting")
    <2>1. FinOK'
        BY <1>1, BrokerStepOK DEF TypeInv, ReadForTerminal, BrokerPCs, LockedPCs, TaskPCs
    <2> QED BY <2>1, Untouched DEF TypeInv, ReadForTerminal
<1>2. CASE BrokerDies(b)
    BY <1>2, BrokerDiesOK, Untouched DEF TypeInv, ReadForTerminal
<1> QED BY <1>1, <1>2 DEF ReadForTerminal

LEMMA MoveToTerminalType ==
    ASSUME TypeInv, NEW b \in Brokers, MoveToTerminal(b)
    PROVE  TypeInv'
<1>1. CASE /\ status' = [status EXCEPT ![fin[b].task] = "terminal"]
           /\ BrokerGoto(b, "commenting")
    <2>1. FinOK'
        BY <1>1, BrokerStepOK DEF TypeInv, MoveToTerminal, BrokerPCs, LockedPCs, TaskPCs
    <2>2. TrackerTypeOK'
        BY <1>1 DEF TypeInv, TrackerTypeOK, Statuses, MoveToTerminal
    <2> QED BY <2>1, <2>2, Untouched DEF TypeInv, MoveToTerminal
<1>2. CASE BrokerDies(b) /\ UNCHANGED status
    BY <1>2, BrokerDiesOK, Untouched DEF TypeInv, MoveToTerminal
<1> QED BY <1>1, <1>2 DEF MoveToTerminal

LEMMA CommentIntegratedType ==
    ASSUME TypeInv, NEW b \in Brokers, CommentIntegrated(b)
    PROVE  TypeInv'
<1>1. CASE /\ noted' = noted \cup {fin[b].commit}
           /\ BrokerGoto(b, "advance") \/ BrokerGoto(b, "event")
    <2>1. FinOK'
        BY <1>1, BrokerStepOK DEF TypeInv, CommentIntegrated, BrokerPCs, LockedPCs, TaskPCs
    <2>2. TrackerTypeOK'
        BY <1>1, BrokerAt DEF TypeInv, TrackerTypeOK, CommentIntegrated, BrokerPCs, LockedPCs, TaskPCs
    <2> QED BY <2>1, <2>2, Untouched DEF TypeInv, CommentIntegrated
<1>2. CASE BrokerDies(b) /\ UNCHANGED noted
    BY <1>2, BrokerDiesOK, Untouched DEF TypeInv, CommentIntegrated
<1> QED BY <1>1, <1>2 DEF CommentIntegrated

(* advance_phase, wherever it is called.                                    *)
LEMMA AdvancePhaseOK ==
    ASSUME JournalTypeOK, FinOK, NEW b \in Brokers, fin[b].task \in Tasks,
           NEW from, NEW to \in Phases, NEW next \in BrokerPCs,
           AdvancePhase(b, from, to, next),
           UNCHANGED <<attempt, held, prep, prepHistory, txHistory, recovery, events, lock>>
    PROVE  JournalTypeOK' /\ FinOK'
<1>1. CASE BrokerDies(b) /\ UNCHANGED tx
    <2>1. JournalTypeOK'
        BY <1>1 DEF JournalTypeOK
    <2> QED BY <1>1, <2>1, BrokerDiesOK
<1>2. CASE /\ tx[fin[b].task] # None
           /\ tx' = [tx EXCEPT ![fin[b].task].phase = to]
           /\ fin' = [fin EXCEPT ![b].phase = to, ![b].pc = next]
    <2> DEFINE t == fin[b].task
    <2> DEFINE s == [fin[b] EXCEPT !.phase = to, !.pc = next]
    <2>1. [tx[t] EXCEPT !.phase = to] \in Transactions
        BY ZenonT(40), <1>2 DEF JournalTypeOK, Transactions
    <2>2. tx' = [tx EXCEPT ![t] = [tx[t] EXCEPT !.phase = to]]
        BY <1>2 DEF JournalTypeOK
    <2>3. JournalTypeOK'
        BY <2>1, <2>2 DEF JournalTypeOK
    <2>4. s \in BrokerStates /\ s.task \in Tasks
        BY DEF FinOK, BrokerStates
    <2>5. fin' = [fin EXCEPT ![b] = s]
        BY <1>2 DEF FinOK
    <2> QED BY <2>3, <2>4, <2>5, FinUpdateOK
<1> QED BY <1>1, <1>2 DEF AdvancePhase

LEMMA TrackerFinalizedType ==
    ASSUME TypeInv, NEW b \in Brokers, TrackerFinalized(b)
    PROVE  TypeInv'
<1>1. fin[b].task \in Tasks
    BY BrokerAt DEF TypeInv, TrackerFinalized, BrokerPCs, LockedPCs, TaskPCs
<1>2. JournalTypeOK' /\ FinOK'
    BY <1>1, AdvancePhaseOK DEF TypeInv, TrackerFinalized, BrokerPCs, LockedPCs, TaskPCs, Phases
<1> QED BY <1>2, Untouched DEF TypeInv, JournalTypeOK, PrepBound, TrackerFinalized

LEMMA EventEmittedType ==
    ASSUME TypeInv, NEW b \in Brokers, EventEmitted(b)
    PROVE  TypeInv'
<1>1. fin[b].task \in Tasks
    BY BrokerAt DEF TypeInv, EventEmitted, BrokerPCs, LockedPCs, TaskPCs
<1>2. JournalTypeOK' /\ FinOK'
    BY <1>1, AdvancePhaseOK DEF TypeInv, EventEmitted, BrokerPCs, LockedPCs, TaskPCs, Phases
<1> QED BY <1>2, Untouched DEF TypeInv, JournalTypeOK, PrepBound, EventEmitted

LEMMA CompleteTransactionType ==
    ASSUME TypeInv, NEW b \in Brokers, CompleteTransaction(b)
    PROVE  TypeInv'
<1>1. fin[b].task \in Tasks
    BY BrokerAt DEF TypeInv, CompleteTransaction, BrokerPCs, LockedPCs, TaskPCs
<1>2. JournalTypeOK' /\ FinOK'
    BY <1>1, AdvancePhaseOK DEF TypeInv, CompleteTransaction, BrokerPCs, LockedPCs, TaskPCs, Phases
<1> QED BY <1>2, Untouched DEF TypeInv, JournalTypeOK, PrepBound, CompleteTransaction

LEMMA AfterEventOK ==
    ASSUME NEW b \in Brokers
    PROVE  AfterEvent(b) \in BrokerPCs
BY DEF AfterEvent, BrokerPCs, LockedPCs

LEMMA FindEventType ==
    ASSUME TypeInv, NEW b \in Brokers, FindEvent(b)
    PROVE  TypeInv'
<1>1. CASE BrokerGoto(b, AfterEvent(b)) \/ BrokerGoto(b, "emit")
    <2>1. "emit" \in BrokerPCs /\ "event" \in TaskPCs
        BY DEF BrokerPCs, LockedPCs, TaskPCs
    <2>2. FinOK'
        BY <1>1, <2>1, AfterEventOK, BrokerStepOK DEF TypeInv, FindEvent
    <2> QED BY <2>2, Untouched DEF TypeInv, FindEvent
<1>2. CASE BrokerDies(b)
    BY <1>2, BrokerDiesOK, Untouched DEF TypeInv, FindEvent
<1> QED BY <1>1, <1>2 DEF FindEvent

LEMMA EmitEventType ==
    ASSUME TypeInv, NEW b \in Brokers, EmitEvent(b)
    PROVE  TypeInv'
<1>1. "emit" \in TaskPCs
    BY DEF BrokerPCs, LockedPCs, TaskPCs
<1>2. FinOK'
    BY <1>1, AfterEventOK, BrokerStepOK DEF TypeInv, EmitEvent
<1>3. fin[b].commit \in Nat
    BY <1>1, BrokerAt DEF TypeInv, EmitEvent
<1>4. JournalTypeOK'
    BY <1>3 DEF TypeInv, JournalTypeOK, EmitEvent
<1> QED BY <1>2, <1>4, Untouched DEF TypeInv, EmitEvent

LEMMA CleanupWorktreeType ==
    ASSUME TypeInv, NEW b \in Brokers, CleanupWorktree(b)
    PROVE  TypeInv'
<1>1. CASE /\ worktree' = [worktree EXCEPT ![fin[b].task] = "absent"]
           /\ BrokerGoto(b, "complete")
    <2>1. FinOK'
        BY <1>1, BrokerStepOK DEF TypeInv, CleanupWorktree, BrokerPCs, LockedPCs, TaskPCs
    <2>2. GitTypeOK'
        BY <1>1 DEF TypeInv, GitTypeOK, Worktrees, CleanupWorktree
    <2> QED BY <2>1, <2>2, Untouched DEF TypeInv, CleanupWorktree
<1>2. CASE BrokerDies(b) /\ UNCHANGED worktree
    BY <1>2, BrokerDiesOK, Untouched DEF TypeInv, CleanupWorktree
<1> QED BY <1>1, <1>2 DEF CleanupWorktree

LEMMA ReleaseTransactionLockType ==
    ASSUME TypeInv, NEW b \in Brokers, ReleaseTransactionLock(b)
    PROVE  TypeInv'
<1> DEFINE s == [fin[b] EXCEPT !.pc = "finalize", !.task = None, !.phase = "none",
                              !.commit = 0, !.ready = @ \ {fin[b].task}]
<1>1. CASE At(b, "release") /\ RemoveOwner(b, "unlock")
    <2>1. {"release", "unlock"} \subseteq BrokerPCs \cap TaskPCs
        BY DEF BrokerPCs, TaskPCs, LockedPCs
    <2>2. JournalTypeOK' /\ FinOK'
        BY <1>1, <2>1, RemoveOwnerOK DEF ReleaseTransactionLock
    <2> QED BY <2>2, Untouched DEF TypeInv, ReleaseTransactionLock
<1>2. CASE BrokerDies(b) /\ UNCHANGED lock
    BY <1>2, BrokerDiesOK, Untouched DEF TypeInv, ReleaseTransactionLock
<1>3. CASE /\ lock' = [lock EXCEPT ![fin[b].task] = None]
           /\ fin' = [fin EXCEPT ![b].pc = "finalize", ![b].task = None,
                                 ![b].phase = "none", ![b].commit = 0,
                                 ![b].ready = @ \ {fin[b].task}]
    <2>1. fin[b].ready \ {fin[b].task} \in SUBSET Tasks
        BY DEF TypeInv, FinOK, BrokerStates
    <2>2. s \in BrokerStates /\ s.pc \notin TaskPCs
        BY ZenonT(40), <2>1 DEF TypeInv, FinOK, BrokerStates, BrokerPCs, TaskPCs
    <2>3. fin' = [fin EXCEPT ![b] = s]
        BY <1>3 DEF TypeInv, FinOK
    <2>4. FinOK'
        BY <2>2, <2>3, FinUpdateOK DEF TypeInv
    <2>5. JournalTypeOK'
        BY <1>3 DEF TypeInv, JournalTypeOK, ReleaseTransactionLock
    <2> QED BY <2>4, <2>5, Untouched DEF TypeInv, ReleaseTransactionLock
<1> QED BY <1>1, <1>2, <1>3 DEF ReleaseTransactionLock

LEMMA BrokerType ==
    ASSUME TypeInv, NEW b \in Brokers, BrokerNext(b)
    PROVE  TypeInv'
<1>1. CASE SupersedeNext(b)
    BY <1>1, JournalRecoveryType, StageRevertType, CommitRevertType, AbortRevertType,
       MarkRevertedType, ReopenTaskType, AnnounceSupersededType, RetireRecoveryType,
       ArchiveTransactionType, ArchiveRecoveryType DEF SupersedeNext
<1>2. CASE FinalizeNext(b)
    BY <1>2, TakeTransactionLockType, ContinueTakingType, FinalizeDoneType, RevalidateType,
       FenceTrackerType, ReadForTerminalType, MoveToTerminalType, CommentIntegratedType, TrackerFinalizedType,
       FindEventType, EmitEventType, EventEmittedType, CleanupWorktreeType,
       CompleteTransactionType, ReleaseTransactionLockType DEF FinalizeNext
<1> QED BY <1>1, <1>2, BeginPassType, AuthorizePreparationType, ExportAndPrevalidateType,
           SortEntryType, SortDoneType DEF BrokerNext

-----------------------------------------------------------------------------
(* The environment.                                                         *)
LEMMA SpendOK ==
    ASSUME BudgetOK, NEW what \in {"kill", "brokerKill", "edit", "block", "finding"},
           Spend(what)
    PROVE  BudgetOK'
BY DEF BudgetOK, Spend

LEMMA SubmitType ==
    ASSUME TypeInv, NEW t \in Tasks, Submit(t)
    PROVE  TypeInv'
<1>1. PICK h \in {branch[t], branch[t] + 1} :
          /\ branch' = [branch EXCEPT ![t] = h]
          /\ review' = [review EXCEPT ![t] =
                 [attempt |-> attempt[t], head |-> h, verdict |-> "requested"]]
    BY DEF Submit
<1>2. h \in Nat /\ attempt[t] \in Nat
    BY DEF TypeInv, GitTypeOK, JournalTypeOK
<1>3. GitTypeOK'
    BY <1>1, <1>2 DEF TypeInv, GitTypeOK, Submit
<1>4. TrackerTypeOK'
    <2>1. [attempt |-> attempt[t], head |-> h, verdict |-> "requested"] \in Reviews
        BY <1>2 DEF Reviews, Verdicts
    <2>2. status' \in [Tasks -> Statuses]
        BY DEF TypeInv, TrackerTypeOK, Statuses, Submit
    <2> QED BY <1>1, <2>1, <2>2 DEF TypeInv, TrackerTypeOK, Submit
<1> QED BY <1>3, <1>4, Untouched DEF TypeInv, Submit

LEMMA ApproveType ==
    ASSUME TypeInv, NEW t \in Tasks, Approve(t)
    PROVE  TypeInv'
<1>1. review[t].attempt \in Nat /\ review[t].head \in Nat
    BY DEF TypeInv, TrackerTypeOK, Reviews
<1>2. review' \in [Tasks -> Reviews]
    BY DEF TypeInv, TrackerTypeOK, Reviews, Verdicts, Approve
<1>3. approvals' \in [Tasks -> SUBSET [attempt : Nat, head : Nat]]
    <2>1. [attempt |-> review[t].attempt, head |-> review[t].head]
              \in [attempt : Nat, head : Nat]
        BY <1>1
    <2>2. approvals[t] \cup {[attempt |-> review[t].attempt, head |-> review[t].head]}
              \in SUBSET [attempt : Nat, head : Nat]
        BY <2>1 DEF TypeInv, TrackerTypeOK
    <2> QED BY <2>2 DEF TypeInv, TrackerTypeOK, Approve
<1>4. TrackerTypeOK'
    BY <1>2, <1>3 DEF TypeInv, TrackerTypeOK, Approve
<1> QED BY <1>4, Untouched DEF TypeInv, Approve

LEMMA PostFindingsType ==
    ASSUME TypeInv, NEW t \in Tasks, PostFindings(t)
    PROVE  TypeInv'
<1>1. BudgetOK'
    BY SpendOK DEF TypeInv, PostFindings
<1>2. TrackerTypeOK'
    <2>1. review' \in [Tasks -> Reviews]
        BY DEF TypeInv, TrackerTypeOK, Reviews, Verdicts, PostFindings
    <2>2. status' \in [Tasks -> Statuses]
        BY DEF TypeInv, TrackerTypeOK, Statuses, PostFindings
    <2> QED BY <2>1, <2>2 DEF TypeInv, TrackerTypeOK, PostFindings
<1> QED BY <1>1, <1>2, Untouched DEF TypeInv, PostFindings

LEMMA ReworkType ==
    ASSUME TypeInv, NEW t \in Tasks, Rework(t)
    PROVE  TypeInv'
<1>1. GitTypeOK'
    BY DEF TypeInv, GitTypeOK, Worktrees, Rework
<1>2. TrackerTypeOK'
    BY DEF TypeInv, TrackerTypeOK, Statuses, Rework
<1>3. JournalTypeOK'
    BY DEF TypeInv, JournalTypeOK, Rework
<1> QED BY <1>1, <1>2, <1>3, Untouched DEF TypeInv, Rework

LEMMA ProducerEditsType ==
    ASSUME TypeInv, NEW t \in Tasks, ProducerEdits(t)
    PROVE  TypeInv'
<1>1. BudgetOK'
    BY SpendOK DEF TypeInv, ProducerEdits
<1>2. branch' \in [Tasks -> Nat]
    <2>1. branch' = branch \/ branch' = [branch EXCEPT ![t] = @ + 1]
        BY DEF ProducerEdits
    <2>2. branch \in [Tasks -> Nat] /\ branch[t] + 1 \in Nat
        BY DEF TypeInv, GitTypeOK
    <2> QED BY <2>1, <2>2
<1>3. worktree' \in [Tasks -> Worktrees]
    <2>1. worktree' \in {[worktree EXCEPT ![t] = w] : w \in Worktrees}
        BY DEF ProducerEdits, Worktrees
    <2> QED BY <2>1 DEF TypeInv, GitTypeOK
<1>4. GitTypeOK'
    BY <1>2, <1>3 DEF TypeInv, GitTypeOK, ProducerEdits, Checkouts
<1> QED BY <1>1, <1>4, Untouched DEF TypeInv, ProducerEdits

LEMMA HumanType ==
    ASSUME TypeInv, NEW t \in Tasks, HumanBlocks(t) \/ HumanUnblocks(t) \/ SyncHold(t)
    PROVE  TypeInv'
<1>1. CASE HumanBlocks(t)
    <2>1. BudgetOK'
        BY <1>1, SpendOK DEF TypeInv, HumanBlocks
    <2>2. TrackerTypeOK'
        BY <1>1 DEF TypeInv, TrackerTypeOK, Statuses, HumanBlocks
    <2> QED BY <1>1, <2>1, <2>2, Untouched DEF TypeInv, HumanBlocks
<1>2. CASE HumanUnblocks(t)
    <2>1. TrackerTypeOK'
        BY <1>2 DEF TypeInv, TrackerTypeOK, Statuses, HumanUnblocks
    <2> QED BY <1>2, <2>1, Untouched DEF TypeInv, HumanUnblocks
<1>3. CASE SyncHold(t)
    <2>1. JournalTypeOK'
        BY <1>3 DEF TypeInv, JournalTypeOK, SyncHold
    <2> QED BY <1>3, <2>1, Untouched DEF TypeInv, SyncHold
<1> QED BY <1>1, <1>2, <1>3

LEMMA CrashType ==
    ASSUME TypeInv, CrashIntegrator \/ FailOverlay \/ \E b \in Brokers : CrashBroker(b)
    PROVE  TypeInv'
<1>1. CASE CrashIntegrator \/ FailOverlay
    BY <1>1, SpendOK, IntegratorDiesOK, Untouched
       DEF TypeInv, GitTypeOK, Checkouts, Clean, CrashIntegrator, FailOverlay
<1>2. ASSUME NEW b \in Brokers, CrashBroker(b)
      PROVE  TypeInv'
    BY <1>2, SpendOK, BrokerDiesOK, Untouched DEF TypeInv, CrashBroker
<1> QED BY <1>1, <1>2

LEMMA StepType == TypeInv /\ [Next]_vars => TypeInv'
<1> SUFFICES ASSUME TypeInv, [Next]_vars PROVE TypeInv'
    OBVIOUS
<1>1. CASE IntegratorNext
    BY <1>1, IntegratorType
<1>2. CASE \E b \in Brokers : MayRun(b) /\ BrokerNext(b)
    BY <1>2, BrokerType
<1>3. CASE EnvironmentNext
    BY <1>3, SubmitType, ApproveType, PostFindingsType, ReworkType, ProducerEditsType,
       HumanType, CrashType DEF EnvironmentNext
<1>4. CASE UNCHANGED vars
    BY <1>4, Untouched DEF TypeInv, vars
<1> QED BY <1>1, <1>2, <1>3, <1>4 DEF Next

(* Type correctness of every journal, tracker field and program counter.    *)
THEOREM TypeCorrect == Spec => []TypeOK
<1>1. Init => TypeInv
    BY InitType
<1>2. TypeInv /\ [Next]_vars => TypeInv'
    BY StepType
<1>3. TypeInv => TypeOK
    BY TypeInvOK
<1> QED BY <1>1, <1>2, <1>3, PTL DEF Spec

-----------------------------------------------------------------------------
(* What one step does to the variables these invariants speak of.           *)

\* The feature branch only grows: a merge comes from the integrator, a revert
\* from a broker that had staged it.
FeatureStep ==
    \/ UNCHANGED feature
    \/ \E c \in Commits : /\ feature' = Append(feature, c)
                          /\ \/ /\ c.op = "revert"
                                /\ \E b \in Brokers : /\ At(b, "staged") /\ fin'[b].pc = "mark"
                                                     /\ c.of = fin[b].commit
                             \/ /\ c.op = "merge" /\ integ.pc = "fenced" /\ integ'.pc = "landed"
                                /\ c.grant = integ.prep.grant
                                /\ PrepId(c) = PrepId(integ.prep)

ApprovalsStep == \A t \in Tasks : approvals[t] \subseteq approvals'[t]

Round(x) == [attempt |-> x.attempt, head |-> x.head]

\* A preparation is kept, re-granted, removed, or made at the tip of the branch
\* for an approved round whose head has not landed.
PrepStep ==
    \A t \in Tasks : prep'[t] # None =>
        /\ prep'[t].task = t
        /\ \/ /\ prep[t] = None
              /\ Round(prep'[t]) \in approvals[t]
              /\ prep'[t].base = Tip /\ LandedAt(t, prep'[t].head) = {}
           \/ prep[t] # None /\ PrepId(prep'[t]) = PrepId(prep[t])

\* The integrator keeps its copy, or loads an authorized preparation.
IntegStep ==
    integ'.pc # "idle" =>
        \/ integ.pc # "idle" /\ integ'.prep = integ.prep
        \/ \E t \in Tasks : prep[t] # None /\ Authorized(prep[t]) /\ integ'.prep = prep[t]

Steps == FeatureStep /\ ApprovalsStep /\ PrepStep /\ IntegStep

LEMMA StepsStutter ==
    /\ UNCHANGED feature => FeatureStep
    /\ UNCHANGED approvals => ApprovalsStep
    /\ TypeInv /\ UNCHANGED prep => PrepStep
    /\ UNCHANGED integ => IntegStep
    /\ (\E pc : Goto(pc)) /\ TypeInv /\ integ.pc # "idle" => IntegStep
    /\ IntegratorDies => IntegStep
<1>1. (\E pc : Goto(pc)) /\ TypeInv /\ integ.pc # "idle" => IntegStep
    BY DEF Goto, TypeInv, IntegOK, IntegratorStates, IntegStep
<1>2. IntegratorDies => IntegStep
    BY DEF IntegratorDies, IntegratorIdle, IntegStep
<1>3. TypeInv /\ UNCHANGED prep => PrepStep
    BY DEF TypeInv, PrepBound, PrepStep
<1> QED BY <1>1, <1>2, <1>3 DEF FeatureStep, ApprovalsStep, IntegStep

-----------------------------------------------------------------------------
LEMMA IntegratorSteps ==
    ASSUME TypeInv, IntegratorNext
    PROVE  Steps
<1>1. ASSUME NEW t \in Tasks, Prepare(t) PROVE Steps
    <2> DEFINE p == [task |-> t, attempt |-> attempt[t], head |-> branch[t],
                     base |-> Tip, grant |-> None]
    <2>1. /\ prep[t] = None /\ prep'[t] = p
          /\ \A u \in Tasks \ {t} : prep'[u] = prep[u]
        BY <1>1 DEF TypeInv, JournalTypeOK, Prepare
    <2>2. LandedAt(t, branch[t]) = {} /\ Round(p) \in approvals[t]
        BY <1>1 DEF Prepare, HasNewCommits, LandedAt, Merges, Round
    <2>3. PrepStep
        BY <2>1, <2>2 DEF TypeInv, PrepBound, PrepStep
    <2> QED BY <1>1, <2>3, StepsStutter DEF Prepare, Steps
<1>2. ASSUME NEW t \in Tasks, ResumeRecorded(t) PROVE Steps
    <2>1. PICK g \in [Prepared -> Grants] :
              prep' = [Regranted(g) EXCEPT ![t] = None] \/ prep' = Regranted(g)
        BY <1>2 DEF ResumeRecorded
    <2>2. ASSUME NEW u \in Tasks, prep'[u] # None
          PROVE  u \in Prepared /\ prep'[u] = [prep[u] EXCEPT !.grant = g[u]]
        BY <2>1, <2>2 DEF Regranted
    <2>3. \A u \in Prepared : prep[u] # None /\ prep[u] \in Preparations /\ prep[u].task = u
        BY DEF TypeInv, JournalTypeOK, PrepBound, Prepared
    <2>4. PrepStep
        <3>1. ASSUME NEW u \in Tasks, prep'[u] # None
              PROVE  /\ prep[u] # None /\ prep'[u].task = u
                     /\ PrepId(prep'[u]) = PrepId(prep[u])
            <4>1. prep[u] # None /\ prep[u] \in Preparations /\ prep[u].task = u
                BY <2>2, <2>3, <3>1
            <4>2. prep'[u] = [prep[u] EXCEPT !.grant = g[u]]
                BY <2>2, <3>1
            <4> QED BY <4>1, <4>2 DEF Preparations, PrepId
        <3> QED BY <3>1 DEF PrepStep
    <2> QED BY <1>2, <2>4, StepsStutter DEF ResumeRecorded, Steps
<1>3. ASSUME NEW t \in Tasks, Load(t) PROVE Steps
    <2>1. IntegStep
        BY <1>3 DEF Load, IntegStep, TypeInv, IntegOK, IntegratorStates
    <2> QED BY <1>3, <2>1, StepsStutter DEF Load, Steps
<1>4. CASE Locate
    <2>1. IntegStep
        BY <1>4, StepsStutter DEF Locate, IntegStep, TypeInv, IntegOK, IntegratorStates
    <2> QED BY <1>4, <2>1, StepsStutter DEF Locate, Steps
<1>5. CASE EstablishMerge \/ MaterializeOverlay \/ ValidateMerge \/ FailValidation
    BY <1>5, StepsStutter DEF EstablishMerge, MaterializeOverlay, ValidateMerge,
       FailValidation, Steps
<1>6. CASE ExpireGrant
    <2>1. PrepStep
        BY <1>6 DEF ExpireGrant, PrepStep, TypeInv, JournalTypeOK, PrepBound,
           Preparations, PrepId
    <2> QED BY <1>6, <2>1, StepsStutter DEF ExpireGrant, Steps
<1>7. CASE FenceCommit \/ VerifyLanded \/ RecordTransaction
    BY <1>7, StepsStutter DEF FenceCommit, VerifyLanded, RecordTransaction, Steps
<1>8. CASE CommitMerge
    <2> DEFINE p == integ.prep
    <2> DEFINE c == [op |-> "merge", task |-> p.task, attempt |-> p.attempt,
                     head |-> p.head, base |-> p.base, grant |-> p.grant, of |-> 0]
    <2>1. p \in Preparations
        BY <1>8 DEF CommitMerge, TypeInv, IntegOK, IntegBound
    <2>2. c \in Commits
        BY <2>1 DEF Preparations, Commits
    <2>3. feature' = Append(feature, c) /\ integ.pc = "fenced" /\ integ'.pc = "landed"
        BY <1>8 DEF CommitMerge, TypeInv, IntegOK, IntegratorStates
    <2>4. c.op = "merge" /\ c.grant = p.grant /\ PrepId(c) = PrepId(p)
        BY DEF PrepId
    <2>5. FeatureStep
        <3> HIDE DEF c
        <3> QED BY <2>2, <2>3, <2>4 DEF FeatureStep
    <2>6. IntegStep
        BY <1>8 DEF CommitMerge, IntegStep, TypeInv, IntegOK, IntegratorStates
    <2> QED BY <1>8, <2>5, <2>6, StepsStutter DEF CommitMerge, Steps
<1>9. CASE ArchivePreparation
    <2>1. PrepStep
        BY <1>9 DEF ArchivePreparation, PrepStep, TypeInv, JournalTypeOK, PrepBound
    <2> QED BY <1>9, <2>1, StepsStutter DEF ArchivePreparation, Steps
<1> QED BY <1>1, <1>2, <1>3, <1>4, <1>5, <1>6, <1>7, <1>8, <1>9
        DEF IntegratorNext, IntegratorContinues

-----------------------------------------------------------------------------
\* The broker changes neither the integrator's copy nor the approvals.
LEMMA PassSteps ==
    ASSUME TypeInv, NEW b \in Brokers,
           BeginPass(b) \/ AuthorizePreparation(b) \/ ExportAndPrevalidate(b)
           \/ SortEntry(b) \/ SortDone(b)
    PROVE  Steps
<1>1. CASE AuthorizePreparation(b)
    <2>1. CASE UNCHANGED prep
        BY <1>1, <2>1, StepsStutter DEF AuthorizePreparation, Steps
    <2>2. ASSUME NEW t \in fin[b].todo, Authorizable(t), NEW g \in Grants,
                 prep' = [prep EXCEPT ![t].grant = g]
          PROVE  PrepStep
        <3>1. ASSUME NEW u \in Tasks, prep'[u] # None
              PROVE  /\ prep[u] # None
                     /\ prep'[u] = prep[u] \/ prep'[u] = [prep[u] EXCEPT !.grant = g]
            BY <2>2, <3>1 DEF TypeInv, JournalTypeOK, Authorizable
        <3>2. \A u \in Tasks : prep[u] # None => prep[u] \in Preparations /\ prep[u].task = u
            BY DEF TypeInv, JournalTypeOK, PrepBound
        <3>3. ASSUME NEW u \in Tasks, prep'[u] # None
              PROVE  prep'[u].task = u /\ PrepId(prep'[u]) = PrepId(prep[u])
            <4>1. prep[u] # None /\ prep[u] \in Preparations /\ prep[u].task = u
                BY <3>1, <3>2, <3>3
            <4>2. CASE prep'[u] = prep[u]
                BY <4>1, <4>2
            <4>3. CASE prep'[u] = [prep[u] EXCEPT !.grant = g]
                BY <4>1, <4>3 DEF Preparations, PrepId
            <4> QED BY <3>1, <3>3, <4>2, <4>3
        <3> QED BY <3>1, <3>3 DEF PrepStep
    <2> QED BY <1>1, <2>1, <2>2, StepsStutter DEF AuthorizePreparation, Steps
<1>2. CASE BeginPass(b) \/ ExportAndPrevalidate(b) \/ SortEntry(b) \/ SortDone(b)
    BY <1>2, StepsStutter DEF BeginPass, ExportAndPrevalidate, SortEntry, SortDone, Steps
<1> QED BY <1>1, <1>2

LEMMA SupersedeSteps ==
    ASSUME TypeInv, NEW b \in Brokers, SupersedeNext(b)
    PROVE  Steps
<1>1. CASE CommitRevert(b)
    <2> DEFINE c == [op |-> "revert", task |-> fin[b].task, attempt |-> 0, head |-> 0,
                     base |-> Tip, grant |-> None, of |-> fin[b].commit]
    <2>1. CASE UNCHANGED feature
        BY <1>1, <2>1, StepsStutter DEF CommitRevert, Steps
    <2>2. CASE feature' = Append(feature, c) /\ BrokerGoto(b, "mark")
        <3>1. fin[b].task \in Tasks /\ fin[b].commit \in Nat /\ Tip \in Nat
            BY <1>1, BrokerAt DEF TypeInv, GitTypeOK, Tip, CommitRevert, BrokerPCs, TaskPCs
        <3>2. c \in Commits /\ c.op = "revert" /\ c.of = fin[b].commit
            BY <3>1 DEF Commits
        <3>3. At(b, "staged") /\ fin'[b].pc = "mark"
            BY <1>1, <2>2 DEF CommitRevert, BrokerGoto, TypeInv, FinOK, BrokerStates
        <3>4. FeatureStep
            <4> HIDE DEF c
            <4> QED BY <2>2, <3>2, <3>3 DEF FeatureStep
        <3> QED BY <1>1, <3>4, StepsStutter DEF CommitRevert, Steps
    <2> QED BY <1>1, <2>1, <2>2 DEF CommitRevert
<1>2. CASE JournalRecovery(b) \/ StageRevert(b) \/ AbortRevert(b) \/ MarkReverted(b)
           \/ ReopenTask(b)
    BY <1>2, StepsStutter DEF JournalRecovery, StageRevert, AbortRevert, MarkReverted,
       ReopenTask, Steps
<1>3. CASE AnnounceSuperseded(b) \/ RetireRecovery(b) \/ ArchiveTransaction(b)
           \/ ArchiveRecovery(b)
    BY <1>3, StepsStutter DEF AnnounceSuperseded, RetireRecovery, ArchiveTransaction,
       ArchiveRecovery, Steps
<1> QED BY <1>1, <1>2, <1>3 DEF SupersedeNext

LEMMA FinalizeSteps ==
    ASSUME TypeInv, NEW b \in Brokers, FinalizeNext(b)
    PROVE  Steps
<1>1. CASE TakeTransactionLock(b) \/ ContinueTaking(b) \/ FinalizeDone(b) \/ Revalidate(b)
           \/ FenceTracker(b) \/ ReadForTerminal(b) \/ MoveToTerminal(b) \/ CommentIntegrated(b)
    BY <1>1, StepsStutter DEF TakeTransactionLock, ContinueTaking, FinalizeDone, Revalidate, FenceTracker,
       ReadForTerminal, MoveToTerminal, CommentIntegrated, Steps
<1>2. CASE TrackerFinalized(b) \/ FindEvent(b) \/ EmitEvent(b) \/ EventEmitted(b)
           \/ CleanupWorktree(b) \/ CompleteTransaction(b) \/ ReleaseTransactionLock(b)
    BY <1>2, StepsStutter DEF TrackerFinalized, FindEvent, EmitEvent, EventEmitted,
       CleanupWorktree, CompleteTransaction, ReleaseTransactionLock, Steps
<1> QED BY SMTT(60), <1>1, <1>2 DEF FinalizeNext

LEMMA EnvironmentSteps ==
    ASSUME TypeInv, EnvironmentNext
    PROVE  Steps
<1>1. ASSUME NEW t \in Tasks, Approve(t) PROVE Steps
    <2>1. ApprovalsStep
        BY <1>1 DEF Approve, ApprovalsStep, TypeInv, TrackerTypeOK
    <2> QED BY <1>1, <2>1, StepsStutter DEF Approve, Steps
<1>2. ASSUME NEW t \in Tasks, Submit(t) \/ PostFindings(t) \/ Rework(t) \/ ProducerEdits(t)
                              \/ HumanBlocks(t) \/ HumanUnblocks(t) \/ SyncHold(t)
      PROVE Steps
    BY <1>2, StepsStutter DEF Submit, PostFindings, Rework, ProducerEdits, HumanBlocks,
       HumanUnblocks, SyncHold, Steps
<1>3. CASE CrashIntegrator \/ FailOverlay \/ \E b \in Brokers : CrashBroker(b)
    BY <1>3, StepsStutter DEF CrashIntegrator, FailOverlay, CrashBroker, Steps
<1> QED BY <1>1, <1>2, <1>3 DEF EnvironmentNext

LEMMA NextSteps ==
    ASSUME TypeInv, [Next]_vars
    PROVE  Steps
<1>1. CASE IntegratorNext
    BY <1>1, IntegratorSteps
<1>2. ASSUME NEW b \in Brokers, BrokerNext(b) PROVE Steps
    BY <1>2, PassSteps, SupersedeSteps, FinalizeSteps DEF BrokerNext
<1>3. CASE EnvironmentNext
    BY <1>3, EnvironmentSteps
<1>4. CASE UNCHANGED vars
    BY <1>4, StepsStutter DEF vars, Steps
<1> QED BY <1>1, <1>2, <1>3, <1>4 DEF Next

-----------------------------------------------------------------------------
(* Only authorized rounds land.                                             *)

\* Every preparation, in its file or in the integrator's memory, binds a round
\* whose approvals are on the board; the integrator's is authorized besides.
PreparedApproved ==
    \A t \in Tasks : prep[t] # None => Round(prep[t]) \in approvals[t]

LoadedAuthorized ==
    integ.pc # "idle" => /\ integ.prep.grant # None
                         /\ Round(integ.prep) \in approvals[integ.prep.task]

AuthorizationInv == TypeInv /\ PreparedApproved /\ LoadedAuthorized /\ OnlyAuthorizedLands

LEMMA AuthorizationInit == Init => AuthorizationInv
BY InitType DEF Init, AuthorizationInv, PreparedApproved, LoadedAuthorized,
   OnlyAuthorizedLands, Merges, Tip, IntegratorIdle

LEMMA AuthorizationStep == AuthorizationInv /\ [Next]_vars => AuthorizationInv'
<1> SUFFICES ASSUME AuthorizationInv, [Next]_vars PROVE AuthorizationInv'
    OBVIOUS
<1>1. TypeInv /\ TypeInv' /\ Steps
    BY NextSteps, StepType DEF AuthorizationInv
<1>2. PreparedApproved'
    BY <1>1 DEF Steps, PrepStep, ApprovalsStep, AuthorizationInv, PreparedApproved, Round,
       PrepId
<1>3. LoadedAuthorized'
    <2> SUFFICES ASSUME integ'.pc # "idle"
                 PROVE  /\ integ'.prep.grant # None
                        /\ Round(integ'.prep) \in approvals'[integ'.prep.task]
        BY DEF LoadedAuthorized, Round
    <2>1. CASE integ.pc # "idle" /\ integ'.prep = integ.prep
        <3>1. integ.prep.task \in Tasks
            BY <1>1, <2>1 DEF TypeInv, IntegOK, IntegBound, Preparations
        <3> QED BY <1>1, <2>1, <3>1
                DEF Steps, ApprovalsStep, AuthorizationInv, LoadedAuthorized, Round
    <2>2. ASSUME NEW t \in Tasks, prep[t] # None, Authorized(prep[t]), integ'.prep = prep[t]
          PROVE  /\ integ'.prep.grant # None
                 /\ Round(integ'.prep) \in approvals'[integ'.prep.task]
        BY <1>1, <2>2 DEF TypeInv, PrepBound, Steps, ApprovalsStep, AuthorizationInv,
           PreparedApproved, Authorized, Round
    <2> QED BY <1>1, <2>1, <2>2 DEF Steps, IntegStep
<1>4. OnlyAuthorizedLands'
    <2>1. \A i \in Merges : feature[i].task \in Tasks
        <3>1. \A i \in Merges : feature[i] \in Commits
            BY <1>1 DEF TypeInv, GitTypeOK, Merges, Tip
        <3> QED BY <3>1 DEF Commits
    <2>2. CASE UNCHANGED feature
        BY <1>1, <2>1, <2>2 DEF Steps, ApprovalsStep, AuthorizationInv,
           OnlyAuthorizedLands, Merges, Tip
    <2>3. ASSUME NEW c \in Commits, feature' = Append(feature, c),
                 \/ c.op = "revert"
                 \/ /\ integ.pc = "fenced"
                    /\ c.grant = integ.prep.grant
                    /\ PrepId(c) = PrepId(integ.prep)
          PROVE  OnlyAuthorizedLands'
        <3> SUFFICES ASSUME NEW i \in Merges'
                     PROVE  /\ feature'[i].grant # None
                            /\ Round(feature'[i]) \in approvals'[feature'[i].task]
            BY DEF OnlyAuthorizedLands, Round
        <3>1. feature \in Seq(Commits) /\ i \in 1 .. Tip + 1
            BY <1>1, <2>3 DEF Merges, Tip, TypeInv, GitTypeOK
        <3>2. CASE i \in 1 .. Tip
            <4>1. feature'[i] = feature[i] /\ i \in Merges
                BY <2>3, <3>1, <3>2 DEF Merges, Tip
            <4> QED BY <1>1, <2>1, <4>1 DEF Steps, ApprovalsStep, AuthorizationInv,
                       OnlyAuthorizedLands, Round
        <3>3. CASE i = Tip + 1
            <4>1. feature'[i] = c /\ c.op = "merge"
                BY <2>3, <3>1, <3>3 DEF Merges, Tip
            <4>2. /\ integ.pc # "idle" /\ c.grant = integ.prep.grant
                  /\ Round(c) = Round(integ.prep) /\ c.task = integ.prep.task
                BY <2>3, <4>1 DEF PrepId, Round
            <4>3. integ.prep.task \in Tasks
                BY <1>1, <4>2 DEF TypeInv, IntegOK, IntegBound, Preparations
            <4> QED BY <1>1, <4>1, <4>2, <4>3 DEF Steps, ApprovalsStep, AuthorizationInv,
                       LoadedAuthorized
        <3>4. Tip \in Nat
            BY <3>1 DEF Tip
        <3> QED BY <3>1, <3>2, <3>3, <3>4
    <2> QED BY <1>1, <2>2, <2>3 DEF Steps, FeatureStep
<1> QED BY <1>1, <1>2, <1>3, <1>4 DEF AuthorizationInv

(* Only a round whose approvals were complete lands on the feature branch,  *)
(* and only after the broker authorized its preparation.                    *)
THEOREM AuthorizedLanding == Spec => []OnlyAuthorizedLands
<1>1. AuthorizationInv => OnlyAuthorizedLands
    BY DEF AuthorizationInv
<1> QED BY <1>1, AuthorizationInit, AuthorizationStep, PTL DEF Spec

-----------------------------------------------------------------------------
(* What is recorded lies on the base it was prepared against.               *)

SameTransaction(x, y) ==
    x.commit = y.commit /\ x.base = y.base /\ x.attempt = y.attempt /\ x.head = y.head

\* A transaction is kept up to its phase, archived, or recorded by an
\* integrator that has verified the commit.
TxStep ==
    /\ \A t \in Tasks : tx'[t] # None =>
          \/ tx[t] # None /\ SameTransaction(tx'[t], tx[t])
          \/ /\ integ.pc = "verified" /\ t = integ.prep.task /\ integ'.pc = "recorded"
             /\ tx'[t].commit = integ.commit
             /\ tx'[t].base = integ.prep.base /\ tx'[t].attempt = integ.prep.attempt
             /\ tx'[t].head = integ.prep.head
    /\ \A h \in txHistory' : h \in txHistory \/ \E t \in Tasks : tx[t] # None /\ h = tx[t]

\* Nothing that was recorded is lost, except to an integrator that writes over it.
KeepStep ==
    /\ txHistory \subseteq txHistory'
    /\ \A t \in Tasks : tx[t] # None =>
          \/ tx'[t] # None /\ SameTransaction(tx'[t], tx[t])
          \/ tx'[t] = None /\ tx[t] \in txHistory'
          \/ integ.pc = "verified" /\ t = integ.prep.task

RecordSteps == TxStep /\ KeepStep

VerifyStep ==
    integ'.pc = "verified" =>
        \/ UNCHANGED integ
        \/ /\ IsIntegration(integ.commit, integ.prep)
           /\ integ'.commit = integ.commit /\ integ'.prep = integ.prep

LEMMA RecordStutter ==
    /\ UNCHANGED <<tx, txHistory>> => RecordSteps
    /\ UNCHANGED integ => VerifyStep
    /\ TypeInv /\ (\E pc : Goto(pc) /\ pc # "verified") => VerifyStep
    /\ IntegratorDies => VerifyStep
<1>1. UNCHANGED <<tx, txHistory>> => RecordSteps
    BY DEF RecordSteps, TxStep, KeepStep, SameTransaction
<1>2. TypeInv /\ (\E pc : Goto(pc) /\ pc # "verified") => VerifyStep
    BY DEF Goto, TypeInv, IntegOK, IntegratorStates, VerifyStep
<1>3. IntegratorDies => VerifyStep
    BY DEF IntegratorDies, IntegratorIdle, VerifyStep
<1> QED BY <1>1, <1>2, <1>3 DEF VerifyStep

LEMMA IntegratorRecords ==
    ASSUME TypeInv, IntegratorNext
    PROVE  RecordSteps /\ VerifyStep
<1>1. ASSUME NEW t \in Tasks, Prepare(t) \/ ResumeRecorded(t) PROVE RecordSteps /\ VerifyStep
    BY <1>1, RecordStutter DEF Prepare, ResumeRecorded
<1>2. ASSUME NEW t \in Tasks, Load(t) PROVE RecordSteps /\ VerifyStep
    BY <1>2, RecordStutter DEF Load, VerifyStep, TypeInv, IntegOK, IntegratorStates
<1>3. CASE Locate
    <2>1. ASSUME integ' = [integ EXCEPT !.pc = "landed", !.commit = Tip] PROVE VerifyStep
        BY <2>1 DEF VerifyStep, TypeInv, IntegOK, IntegratorStates
    <2>2. ASSUME Goto("overlaid") \/ Goto("at-base") PROVE VerifyStep
        BY <2>2, RecordStutter
    <2>3. VerifyStep
        BY <1>3, <2>1, <2>2, RecordStutter DEF Locate
    <2> QED BY <1>3, <2>3, RecordStutter DEF Locate
<1>4. CASE EstablishMerge \/ MaterializeOverlay \/ ValidateMerge \/ FailValidation \/ ExpireGrant
    BY <1>4, RecordStutter DEF EstablishMerge, MaterializeOverlay, ValidateMerge,
       FailValidation, ExpireGrant
<1>5. CASE FenceCommit \/ ArchivePreparation
    BY <1>5, RecordStutter DEF FenceCommit, ArchivePreparation
<1>6. CASE CommitMerge
    <2>1. VerifyStep
        BY <1>6 DEF CommitMerge, VerifyStep, TypeInv, IntegOK, IntegratorStates
    <2> QED BY <1>6, <2>1, RecordStutter DEF CommitMerge
<1>7. CASE VerifyLanded
    <2>1. VerifyStep
        BY <1>7, RecordStutter
           DEF VerifyLanded, VerifyStep, Goto, TypeInv, IntegOK, IntegratorStates
    <2> QED BY <1>7, <2>1, RecordStutter DEF VerifyLanded
<1>8. CASE RecordTransaction
    <2>1. VerifyStep
        BY <1>8, RecordStutter DEF RecordTransaction
    <2>2. integ.task = integ.prep.task
        BY <1>8 DEF RecordTransaction, TypeInv, IntegOK, IntegBound
    <2>3. CASE UNCHANGED tx
        BY <1>8, <2>1, <2>3, RecordStutter DEF RecordTransaction
    <2>4. CASE /\ Goto("recorded")
               /\ tx' = [tx EXCEPT ![integ.task] =
                        [commit |-> integ.commit, attempt |-> integ.prep.attempt,
                         head |-> integ.prep.head, base |-> integ.prep.base,
                         phase |-> "awaiting-tracker"]]
        <3>1. tx \in [Tasks -> Transactions \cup {None}] /\ UNCHANGED txHistory
            BY <1>8 DEF RecordTransaction, TypeInv, JournalTypeOK
        <3>2. ASSUME NEW t \in Tasks, t # integ.task PROVE tx'[t] = tx[t]
            BY <2>4, <3>1, <3>2
        <3>3. integ'.pc = "recorded"
            BY <2>4 DEF Goto, TypeInv, IntegOK, IntegratorStates
        <3>4. TxStep
            BY <1>8, <2>2, <2>4, <3>1, <3>2, <3>3
               DEF RecordTransaction, TxStep, SameTransaction
        <3>5. KeepStep
            BY <1>8, <2>2, <3>1, <3>2 DEF RecordTransaction, KeepStep, SameTransaction
        <3> QED BY <2>1, <3>4, <3>5 DEF RecordSteps
    <2> QED BY <1>8, <2>3, <2>4 DEF RecordTransaction
<1> QED BY <1>1, <1>2, <1>3, <1>4, <1>5, <1>6, <1>7, <1>8
        DEF IntegratorNext, IntegratorContinues

LEMMA AdvanceRecords ==
    ASSUME TypeInv, NEW b \in Brokers, NEW from, NEW to \in Phases, NEW next,
           AdvancePhase(b, from, to, next), UNCHANGED txHistory
    PROVE  RecordSteps
<1>1. CASE UNCHANGED tx
    BY <1>1, RecordStutter
<1>2. CASE /\ tx[fin[b].task] # None
           /\ tx' = [tx EXCEPT ![fin[b].task].phase = to]
    <2>1. ASSUME NEW t \in Tasks, tx'[t] # None
          PROVE  tx[t] # None /\ SameTransaction(tx'[t], tx[t])
        <3>1. CASE t # fin[b].task
            BY <1>2, <2>1, <3>1 DEF TypeInv, JournalTypeOK, SameTransaction
        <3>2. CASE t = fin[b].task
            <4>1. tx[t] \in Transactions /\ tx[t] # None
                BY <1>2, <3>2 DEF TypeInv, JournalTypeOK
            <4>2. tx'[t] = [tx[t] EXCEPT !.phase = to]
                BY <1>2, <3>2 DEF TypeInv, JournalTypeOK
            <4> QED BY <4>1, <4>2 DEF Transactions, SameTransaction
        <3> QED BY <3>1, <3>2
    <2>2. \A t \in Tasks : tx[t] # None => tx'[t] # None
        <3> SUFFICES ASSUME NEW t \in Tasks, t = fin[b].task PROVE tx'[t] # None
            BY <1>2 DEF TypeInv, JournalTypeOK
        <3>1. [tx[t] EXCEPT !.phase = to] \in Transactions
            <4>1. tx[t] \in Transactions
                BY <1>2 DEF TypeInv, JournalTypeOK
            <4> QED BY <4>1 DEF Transactions
        <3> QED BY <1>2, <3>1, NoneAssumption DEF TypeInv, JournalTypeOK
    <2> QED BY <2>1, <2>2 DEF RecordSteps, TxStep, KeepStep
<1> QED BY <1>1, <1>2 DEF AdvancePhase

LEMMA BrokerRecords ==
    ASSUME TypeInv, NEW b \in Brokers, BrokerNext(b)
    PROVE  RecordSteps /\ VerifyStep
<1>1. CASE TrackerFinalized(b) \/ EventEmitted(b) \/ CompleteTransaction(b)
    BY <1>1, AdvanceRecords, RecordStutter
       DEF TrackerFinalized, EventEmitted, CompleteTransaction, Phases
<1>2. CASE ArchiveTransaction(b)
    <2>1. fin[b].task \in Tasks
        BY <1>2, BrokerAt DEF TypeInv, ArchiveTransaction, BrokerPCs, TaskPCs
    <2>2. CASE UNCHANGED <<tx, txHistory>>
        BY <1>2, <2>2, RecordStutter DEF ArchiveTransaction
    <2>3. CASE /\ tx[fin[b].task] # None
               /\ txHistory' = txHistory \cup {tx[fin[b].task]}
               /\ tx' = [tx EXCEPT ![fin[b].task] = None]
        <3>1. TxStep
            BY SMTT(60), <2>1, <2>3 DEF TxStep, SameTransaction, TypeInv, JournalTypeOK
        <3>2. KeepStep
            BY SMTT(60), <2>1, <2>3 DEF KeepStep, SameTransaction, TypeInv, JournalTypeOK
        <3> QED BY <1>2, <3>1, <3>2, RecordStutter DEF ArchiveTransaction, RecordSteps
    <2> QED BY <1>2, <2>2, <2>3 DEF ArchiveTransaction
<1>3. CASE BeginPass(b) \/ AuthorizePreparation(b) \/ ExportAndPrevalidate(b)
           \/ SortEntry(b) \/ SortDone(b)
    BY <1>3, RecordStutter DEF BeginPass, AuthorizePreparation, ExportAndPrevalidate,
       SortEntry, SortDone
<1>4. CASE JournalRecovery(b) \/ StageRevert(b) \/ CommitRevert(b) \/ AbortRevert(b)
           \/ MarkReverted(b)
    BY <1>4, RecordStutter DEF JournalRecovery, StageRevert, CommitRevert, AbortRevert,
       MarkReverted
<1>5. CASE ReopenTask(b) \/ AnnounceSuperseded(b) \/ RetireRecovery(b) \/ ArchiveRecovery(b)
    BY SMTT(60), <1>5, RecordStutter DEF ReopenTask, AnnounceSuperseded, RetireRecovery,
       ArchiveRecovery
<1>6. CASE TakeTransactionLock(b) \/ ContinueTaking(b) \/ FinalizeDone(b) \/ Revalidate(b)
           \/ FenceTracker(b) \/ ReadForTerminal(b) \/ MoveToTerminal(b) \/ CommentIntegrated(b)
    BY <1>6, RecordStutter DEF TakeTransactionLock, ContinueTaking, FinalizeDone, Revalidate,
       FenceTracker, ReadForTerminal, MoveToTerminal, CommentIntegrated
<1>7. CASE FindEvent(b) \/ EmitEvent(b) \/ CleanupWorktree(b) \/ ReleaseTransactionLock(b)
    BY <1>7, RecordStutter DEF FindEvent, EmitEvent, CleanupWorktree,
       ReleaseTransactionLock
<1> QED BY <1>1, <1>2, <1>3, <1>4, <1>5, <1>6, <1>7
        DEF BrokerNext, SupersedeNext, FinalizeNext

LEMMA NextRecords ==
    ASSUME TypeInv, [Next]_vars
    PROVE  RecordSteps /\ VerifyStep
<1>1. ASSUME NEW t \in Tasks, Submit(t) \/ Approve(t) \/ PostFindings(t) \/ Rework(t)
                              \/ ProducerEdits(t) \/ HumanBlocks(t) \/ HumanUnblocks(t)
                              \/ SyncHold(t)
      PROVE RecordSteps /\ VerifyStep
    BY <1>1, RecordStutter DEF Submit, Approve, PostFindings, Rework, ProducerEdits,
       HumanBlocks, HumanUnblocks, SyncHold
<1>2. CASE CrashIntegrator \/ FailOverlay \/ \E b \in Brokers : CrashBroker(b)
    BY <1>2, RecordStutter DEF CrashIntegrator, FailOverlay, CrashBroker
<1>3. CASE UNCHANGED vars
    BY <1>3, RecordStutter DEF vars
<1> QED BY <1>1, <1>2, <1>3, IntegratorRecords, BrokerRecords DEF Next, EnvironmentNext

-----------------------------------------------------------------------------
\* An integrator that has verified a commit still finds it on the branch.
VerifiedStands == integ.pc = "verified" => IsIntegration(integ.commit, integ.prep)

RecordInv == TypeInv /\ VerifiedStands /\ RecordedOnPreparedBase

\* The commits that were on the branch stay where they are.
LEMMA BranchGrows ==
    ASSUME TypeInv, FeatureStep
    PROVE  /\ 1 .. Tip \subseteq (1 .. Tip)'
           /\ \A i \in 1 .. Tip : feature'[i] = feature[i]
           /\ Merges \subseteq Merges'
<1>1. feature \in Seq(Commits) /\ Tip \in Nat
    BY DEF TypeInv, GitTypeOK, Tip
<1>2. CASE UNCHANGED feature
    BY <1>1, <1>2 DEF Tip, Merges
<1>3. ASSUME NEW c \in Commits, feature' = Append(feature, c)
      PROVE  /\ 1 .. Tip \subseteq (1 .. Tip)'
             /\ \A i \in 1 .. Tip : feature'[i] = feature[i]
             /\ Merges \subseteq Merges'
    BY <1>1, <1>3 DEF Tip, Merges
<1> QED BY <1>2, <1>3 DEF FeatureStep

LEMMA IntegrationStands ==
    ASSUME TypeInv, FeatureStep, NEW i, NEW p, IsIntegration(i, p)
    PROVE  IsIntegration(i, p)'
<1>1. i \in 1 .. Tip /\ i \in (1 .. Tip)' /\ feature'[i] = feature[i]
    BY BranchGrows DEF IsIntegration
<1> QED BY <1>1 DEF IsIntegration, PrepId

LEMMA RecordStands ==
    ASSUME TypeInv, FeatureStep, NEW x, NEW y, RecordsItsCommit(y), SameTransaction(x, y)
    PROVE  RecordsItsCommit(x)' /\ feature'[x.commit].task = feature[y.commit].task
<1>1. y.commit \in Merges' /\ feature'[y.commit] = feature[y.commit]
    BY BranchGrows DEF RecordsItsCommit, Merges
<1> QED BY <1>1 DEF RecordsItsCommit, SameTransaction

LEMMA RecordInit == Init => RecordInv
BY InitType DEF Init, RecordInv, VerifiedStands, RecordedOnPreparedBase, IntegratorIdle

LEMMA RecordStep == RecordInv /\ [Next]_vars => RecordInv'
<1> SUFFICES ASSUME RecordInv, [Next]_vars PROVE RecordInv'
    OBVIOUS
<1>1. TypeInv /\ TypeInv' /\ FeatureStep /\ TxStep /\ VerifyStep
    BY NextSteps, StepType, NextRecords DEF RecordInv, Steps, RecordSteps
<1>2. VerifiedStands'
    <2> SUFFICES ASSUME integ'.pc = "verified" PROVE IsIntegration(integ.commit, integ.prep)'
        BY DEF VerifiedStands
    <2>1. /\ IsIntegration(integ.commit, integ.prep)
          /\ integ'.commit = integ.commit /\ integ'.prep = integ.prep
        BY <1>1 DEF VerifyStep, RecordInv, VerifiedStands
    <2>2. \A i, p : IsIntegration(i, p) => IsIntegration(i, p)'
        BY <1>1, IntegrationStands
    <2> QED BY <2>1, <2>2 DEF IsIntegration
<1>3. ASSUME NEW t \in Tasks, tx'[t] # None
      PROVE  RecordsItsCommit(tx[t])' /\ feature'[tx'[t].commit].task = t
    <2>1. CASE tx[t] # None /\ SameTransaction(tx'[t], tx[t])
        BY <1>1, <2>1, RecordStands DEF RecordInv, RecordedOnPreparedBase, RecordsItsCommit
    <2>2. CASE /\ integ.pc = "verified" /\ t = integ.prep.task
               /\ tx'[t].commit = integ.commit
               /\ tx'[t].base = integ.prep.base /\ tx'[t].attempt = integ.prep.attempt
               /\ tx'[t].head = integ.prep.head
        <3>1. IsIntegration(integ.commit, integ.prep)
            BY <2>2 DEF RecordInv, VerifiedStands
        <3>2. /\ integ.commit \in Merges' /\ integ.commit = integ.prep.base + 1
              /\ feature'[integ.commit] = feature[integ.commit]
              /\ PrepId(feature[integ.commit]) = PrepId(integ.prep)
            BY <1>1, <3>1, BranchGrows DEF IsIntegration, Merges
        <3> QED BY <2>2, <3>2 DEF RecordsItsCommit, PrepId
    <2> QED BY <1>1, <1>3, <2>1, <2>2 DEF TxStep
<1>4. ASSUME NEW h \in txHistory' PROVE RecordsItsCommit(h)'
    <2>1. RecordsItsCommit(h) /\ SameTransaction(h, h)
        BY <1>1, <1>4 DEF TxStep, RecordInv, RecordedOnPreparedBase, SameTransaction
    <2> QED BY <1>1, <2>1, RecordStands
<1>5. RecordedOnPreparedBase'
    BY <1>3, <1>4 DEF RecordedOnPreparedBase
<1> QED BY <1>1, <1>2, <1>5 DEF RecordInv

(* Every transaction, current or archived, names a merge that is still on   *)
(* the feature branch, on the base it was prepared against.                 *)
THEOREM RecordedBase == Spec => []RecordedOnPreparedBase
<1>1. RecordInv => RecordedOnPreparedBase
    BY DEF RecordInv
<1> QED BY <1>1, RecordInit, RecordStep, PTL DEF Spec

-----------------------------------------------------------------------------
(* Each phase of a transaction was earned.                                  *)

\* Neither a comment nor an event is taken back.
EffectsGrow == noted \subseteq noted' /\ Range(events) \subseteq Range(events')

\* A transaction is kept, is new, or moves on by the step of a broker that
\* works on its commit and has reached the write of the phase.
PhaseStep ==
    \A t \in Tasks : tx'[t] # None =>
        \/ tx'[t] = tx[t]
        \/ tx'[t].phase = "awaiting-tracker"
        \/ /\ tx[t] # None /\ tx'[t].commit = tx[t].commit
           /\ \/ /\ tx'[t].phase = "tracker-finalized"
                 /\ \E b \in Brokers : At(b, "advance") /\ tx[t].commit = fin[b].commit
              \/ /\ tx[t].phase = "tracker-finalized" /\ tx'[t].phase = "event-emitted"
                 /\ \E b \in Brokers : At(b, "event-phase") /\ tx[t].commit = fin[b].commit
              \/ tx[t].phase = "event-emitted" /\ tx'[t].phase = "completed"

\* A broker reaches the write of a phase with the effect behind it.
StageStep ==
    \A b \in Brokers :
        /\ fin'[b].pc = "advance" => fin'[b] = fin[b] \/ fin'[b].commit \in noted'
        /\ fin'[b].pc = "event-phase" => fin'[b] = fin[b] \/ fin'[b].commit \in Range(events')

EarnSteps == EffectsGrow /\ PhaseStep /\ StageStep

WritePCs == {"advance", "event-phase"}

LEMMA EarnStutter ==
    /\ UNCHANGED <<noted, events>> => EffectsGrow
    /\ UNCHANGED tx => PhaseStep
    /\ UNCHANGED fin => StageStep
BY DEF EffectsGrow, PhaseStep, StageStep

\* Broker b goes elsewhere, whatever it remembers.
LEMMA StageElsewhere ==
    ASSUME NEW b \in Brokers, fin'[b].pc \notin WritePCs,
           \A c \in Brokers \ {b} : fin'[c] = fin[c]
    PROVE  StageStep
BY DEF StageStep, WritePCs

LEMMA StageGoto ==
    ASSUME TypeInv, NEW b \in Brokers, NEW pc, pc \notin WritePCs, BrokerGoto(b, pc)
    PROVE  StageStep
<1>1. fin'[b].pc = pc /\ \A c \in Brokers \ {b} : fin'[c] = fin[c]
    BY DEF TypeInv, FinOK, BrokerStates, BrokerGoto
<1> QED BY <1>1, StageElsewhere

LEMMA StageDies ==
    ASSUME TypeInv, NEW b \in Brokers, BrokerDies(b)
    PROVE  StageStep
<1>1. fin'[b].pc = "idle" /\ \A c \in Brokers \ {b} : fin'[c] = fin[c]
    BY DEF TypeInv, FinOK, BrokerDies, BrokerIdle
<1> QED BY <1>1, StageElsewhere DEF WritePCs

LEMMA IntegratorEarns ==
    ASSUME TypeInv, IntegratorNext
    PROVE  EarnSteps
<1>1. ASSUME NEW t \in Tasks, Prepare(t) \/ ResumeRecorded(t) \/ Load(t) PROVE EarnSteps
    BY <1>1, EarnStutter DEF Prepare, ResumeRecorded, Load, EarnSteps
<1>2. CASE Locate \/ EstablishMerge \/ MaterializeOverlay \/ ValidateMerge \/ FailValidation
    BY <1>2, EarnStutter DEF Locate, EstablishMerge, MaterializeOverlay, ValidateMerge,
       FailValidation, EarnSteps
<1>3. CASE ExpireGrant \/ FenceCommit \/ CommitMerge \/ VerifyLanded \/ ArchivePreparation
    BY <1>3, EarnStutter DEF ExpireGrant, FenceCommit, CommitMerge, VerifyLanded,
       ArchivePreparation, EarnSteps
<1>4. CASE RecordTransaction
    <2>1. EffectsGrow /\ StageStep
        BY <1>4, EarnStutter DEF RecordTransaction
    <2>2. CASE UNCHANGED tx
        BY <2>1, <2>2, EarnStutter DEF EarnSteps
    <2>3. CASE tx' = [tx EXCEPT ![integ.task] =
                        [commit |-> integ.commit, attempt |-> integ.prep.attempt,
                         head |-> integ.prep.head, base |-> integ.prep.base,
                         phase |-> "awaiting-tracker"]]
        <3>1. PhaseStep
            BY SMTT(60), <2>3 DEF PhaseStep, TypeInv, JournalTypeOK
        <3> QED BY <2>1, <3>1 DEF EarnSteps
    <2> QED BY <1>4, <2>2, <2>3 DEF RecordTransaction
<1> QED BY <1>1, <1>2, <1>3, <1>4 DEF IntegratorNext, IntegratorContinues

LEMMA PassEarns ==
    ASSUME TypeInv, NEW b \in Brokers,
           BeginPass(b) \/ AuthorizePreparation(b) \/ ExportAndPrevalidate(b)
           \/ SortEntry(b) \/ SortDone(b)
    PROVE  EarnSteps
<1>1. fin \in [Brokers -> BrokerStates]
    BY SMTT(60) DEF TypeInv, FinOK
<1>2. EffectsGrow /\ PhaseStep
    BY EarnStutter DEF BeginPass, AuthorizePreparation, ExportAndPrevalidate, SortEntry,
       SortDone
<1> SUFFICES StageStep
    BY <1>2 DEF EarnSteps
<1>3. CASE BeginPass(b)
    BY <1>1, <1>3, StageElsewhere DEF BeginPass, BrokerStates, WritePCs
<1>4. CASE AuthorizePreparation(b)
    BY <1>1, <1>4, StageElsewhere, StageDies
       DEF AuthorizePreparation, At, BrokerStates, WritePCs
<1>5. CASE ExportAndPrevalidate(b)
    BY <1>1, <1>5, StageElsewhere, StageDies DEF ExportAndPrevalidate, BrokerStates, WritePCs
<1>6. CASE SortEntry(b)
    <2>1. PICK t \in fin[b].todo :
              \/ BrokerDies(b)
              \/ fin' = [fin EXCEPT ![b].pc = "journal", ![b].task = t,
                                    ![b].phase = tx[t].phase, ![b].commit = tx[t].commit,
                                    ![b].todo = @ \ {t}]
              \/ fin' = [fin EXCEPT ![b].todo = @ \ {t}, ![b].ready = @ \cup {t}]
        BY <1>6 DEF SortEntry
    <2>2. CASE fin' = [fin EXCEPT ![b].todo = @ \ {t}, ![b].ready = @ \cup {t}]
        BY <1>1, <1>6, <2>2, StageElsewhere DEF SortEntry, At, BrokerStates, WritePCs
    <2>3. CASE fin' = [fin EXCEPT ![b].pc = "journal", ![b].task = t,
                                  ![b].phase = tx[t].phase, ![b].commit = tx[t].commit,
                                  ![b].todo = @ \ {t}]
        BY <1>1, <2>3, StageElsewhere DEF BrokerStates, WritePCs
    <2> QED BY <2>1, <2>2, <2>3, StageDies
<1>7. CASE SortDone(b)
    BY <1>7, StageGoto DEF SortDone, WritePCs
<1> QED BY <1>3, <1>4, <1>5, <1>6, <1>7

LEMMA SupersedeEarns ==
    ASSUME TypeInv, NEW b \in Brokers, SupersedeNext(b)
    PROVE  EarnSteps
<1>1. EffectsGrow
    BY EarnStutter DEF SupersedeNext, JournalRecovery, StageRevert, CommitRevert, AbortRevert,
       MarkReverted, ReopenTask, AnnounceSuperseded, RetireRecovery, ArchiveTransaction,
       ArchiveRecovery
<1>2. PhaseStep
    <2>1. CASE ArchiveTransaction(b)
        BY SMTT(60), <2>1 DEF ArchiveTransaction, PhaseStep, TypeInv, JournalTypeOK
    <2>2. CASE ~ArchiveTransaction(b)
        BY <2>2, EarnStutter DEF SupersedeNext, JournalRecovery, StageRevert, CommitRevert,
           AbortRevert, MarkReverted, ReopenTask, AnnounceSuperseded, RetireRecovery,
           ArchiveRecovery
    <2> QED BY <2>1, <2>2
<1>3. StageStep
    <2>1. CASE JournalRecovery(b) \/ StageRevert(b) \/ CommitRevert(b)
        BY <2>1, StageGoto, StageDies DEF JournalRecovery, StageRevert, CommitRevert, WritePCs
    <2>2. CASE AbortRevert(b) \/ MarkReverted(b) \/ ReopenTask(b)
        BY <2>2, StageGoto, StageDies DEF AbortRevert, MarkReverted, ReopenTask, WritePCs
    <2>3. CASE AnnounceSuperseded(b) \/ RetireRecovery(b) \/ ArchiveTransaction(b)
        BY <2>3, StageGoto, StageDies
           DEF AnnounceSuperseded, RetireRecovery, ArchiveTransaction, WritePCs
    <2>4. CASE ArchiveRecovery(b)
        BY <2>4, StageElsewhere, StageDies
           DEF ArchiveRecovery, TypeInv, FinOK, BrokerStates, WritePCs
    <2> QED BY SMTT(60), <2>1, <2>2, <2>3, <2>4 DEF SupersedeNext
<1> QED BY <1>1, <1>2, <1>3 DEF EarnSteps

-----------------------------------------------------------------------------
(* finalize_one: the lock, then each effect before the phase that claims it.*)
LEMMA LockEarns ==
    ASSUME TypeInv, NEW b \in Brokers,
           \/ TakeTransactionLock(b) \/ ContinueTaking(b) \/ FinalizeDone(b)
           \/ Revalidate(b) \/ ReleaseTransactionLock(b)
    PROVE  EarnSteps
<1>1. fin \in [Brokers -> BrokerStates]
    BY SMTT(60) DEF TypeInv, FinOK
<1>2. EffectsGrow /\ PhaseStep
    BY EarnStutter DEF TakeTransactionLock, ContinueTaking, FinalizeDone, Revalidate,
       ReleaseTransactionLock
<1> SUFFICES StageStep
    BY <1>2 DEF EarnSteps
<1>3. CASE TakeTransactionLock(b)
    <2>1. PICK t \in fin[b].ready :
              \/ fin' = [fin EXCEPT ![b].ready = @ \ {t}]
              \/ BrokerDies(b)
              \/ \E pc \in {"own", "remove-owner"} : \E c :
                    fin' = [fin EXCEPT ![b].pc = pc, ![b].task = t, ![b].commit = c]
        BY <1>3 DEF TakeTransactionLock
    <2>2. CASE fin' = [fin EXCEPT ![b].ready = @ \ {t}]
        BY <1>1, <1>3, <2>2, StageElsewhere DEF TakeTransactionLock, At, BrokerStates, WritePCs
    <2>3. ASSUME NEW pc \in {"own", "remove-owner"}, NEW c,
                 fin' = [fin EXCEPT ![b].pc = pc, ![b].task = t, ![b].commit = c]
          PROVE  StageStep
        BY <1>1, <2>3, StageElsewhere DEF BrokerStates, WritePCs
    <2> QED BY SMTT(60), <2>1, <2>2, <2>3, StageDies
<1>4. CASE ContinueTaking(b)
    BY <1>4, StageGoto, StageDies DEF ContinueTaking, RemoveOwner, ChangeLock, WritePCs
<1>5. CASE FinalizeDone(b)
    BY <1>5, StageDies DEF FinalizeDone
<1>6. CASE Revalidate(b)
    <2>1. CASE BrokerDies(b)
        BY <2>1, StageDies
    <2>2. ASSUME NEW pc \in {"release", "tracker"}, NEW x,
                 \/ fin' = [fin EXCEPT ![b].phase = x, ![b].pc = pc]
                 \/ fin' = [fin EXCEPT ![b].pc = pc, ![b].phase = x]
          PROVE  StageStep
        BY <1>1, <2>2, StageElsewhere DEF BrokerStates, WritePCs
    <2> QED BY <1>6, <2>1, <2>2 DEF Revalidate
<1>7. CASE ReleaseTransactionLock(b)
    <2>1. CASE BrokerDies(b) \/ BrokerGoto(b, "unlock")
        BY <2>1, StageDies, StageGoto DEF WritePCs
    <2>2. CASE fin' = [fin EXCEPT ![b].pc = "finalize", ![b].task = None,
                                  ![b].phase = "none", ![b].commit = 0,
                                  ![b].ready = @ \ {fin[b].task}]
        BY <1>1, <2>2, StageElsewhere DEF BrokerStates, WritePCs
    <2> QED BY <1>7, <2>1, <2>2 DEF ReleaseTransactionLock, RemoveOwner
<1> QED BY <1>3, <1>4, <1>5, <1>6, <1>7

LEMMA AdvanceEarns ==
    ASSUME TypeInv, NEW b \in Brokers, NEW from, NEW to, NEW next, next \notin WritePCs,
           AdvancePhase(b, from, to, next),
           \/ At(b, "advance") /\ to = "tracker-finalized"
           \/ At(b, "event-phase") /\ from = "tracker-finalized" /\ to = "event-emitted"
           \/ from = "event-emitted" /\ to = "completed"
    PROVE  PhaseStep /\ StageStep
<1>1. CASE BrokerDies(b) /\ UNCHANGED tx
    BY <1>1, StageDies, EarnStutter
<1>2. CASE /\ tx[fin[b].task] # None /\ tx[fin[b].task].commit = fin[b].commit
           /\ tx[fin[b].task].phase = from
           /\ tx' = [tx EXCEPT ![fin[b].task].phase = to]
           /\ fin' = [fin EXCEPT ![b].phase = to, ![b].pc = next]
    <2>1. StageStep
        BY <1>2, StageElsewhere DEF TypeInv, FinOK, BrokerStates
    <2>2. ASSUME NEW t \in Tasks, tx'[t] # None, tx'[t] # tx[t]
          PROVE  /\ t = fin[b].task
                 /\ tx'[t].phase = to /\ tx'[t].commit = tx[t].commit
        <3>1. t = fin[b].task
            BY <1>2, <2>2 DEF TypeInv, JournalTypeOK
        <3>2. tx[t] \in Transactions /\ tx'[t] = [tx[t] EXCEPT !.phase = to]
            BY <1>2, <3>1 DEF TypeInv, JournalTypeOK
        <3> QED BY <3>1, <3>2 DEF Transactions
    <2>3. PhaseStep
        BY <1>2, <2>2 DEF PhaseStep
    <2> QED BY <2>1, <2>3
<1> QED BY <1>1, <1>2 DEF AdvancePhase

LEMMA EffectEarns ==
    ASSUME TypeInv, NEW b \in Brokers, CommentIntegrated(b) \/ FindEvent(b) \/ EmitEvent(b)
    PROVE  EarnSteps
<1>1. fin \in [Brokers -> BrokerStates] /\ events \in Seq(Nat) /\ fin[b].commit \in Nat
    BY DEF TypeInv, FinOK, JournalTypeOK, BrokerStates
<1>2. PhaseStep
    BY EarnStutter DEF CommentIntegrated, FindEvent, EmitEvent
<1>3. ASSUME NEW pc, BrokerGoto(b, pc)
      PROVE  /\ fin'[b].commit = fin[b].commit /\ fin'[b].pc = pc
             /\ \A c \in Brokers \ {b} : fin'[c] = fin[c]
    BY <1>1, <1>3 DEF BrokerGoto, BrokerStates
<1>4. CASE CommentIntegrated(b)
    <2>1. EffectsGrow
        BY <1>4 DEF CommentIntegrated, EffectsGrow
    <2>2. CASE BrokerDies(b)
        BY <1>2, <2>1, <2>2, StageDies DEF EarnSteps
    <2>3. ASSUME fin[b].commit \in noted', BrokerGoto(b, "advance") \/ BrokerGoto(b, "event")
          PROVE  StageStep
        BY <1>3, <2>3 DEF StageStep
    <2> QED BY <1>2, <1>4, <2>1, <2>2, <2>3 DEF CommentIntegrated, EarnSteps
<1>5. CASE FindEvent(b)
    <2>1. EffectsGrow /\ UNCHANGED events
        BY <1>5, EarnStutter DEF FindEvent
    <2>2. AfterEvent(b) # "advance"
        BY DEF AfterEvent
    <2>3. ASSUME fin[b].commit \in Range(events), BrokerGoto(b, AfterEvent(b)) PROVE StageStep
        BY <1>3, <2>1, <2>2, <2>3 DEF StageStep
    <2> QED BY <1>2, <1>5, <2>1, <2>3, StageGoto, StageDies
            DEF FindEvent, EventExists, WritePCs, EarnSteps
<1>6. CASE EmitEvent(b)
    <2>1. events' = Append(events, fin[b].commit) /\ UNCHANGED noted
        BY <1>6 DEF EmitEvent
    <2>2. Range(events) \subseteq Range(events') /\ fin[b].commit \in Range(events')
        <3>1. /\ DOMAIN events = 1 .. Len(events) /\ Len(events) \in Nat
              /\ DOMAIN events' = 1 .. Len(events) + 1
              /\ \A i \in 1 .. Len(events) : events'[i] = events[i]
              /\ events'[Len(events) + 1] = fin[b].commit
            BY <1>1, <2>1
        <3>2. \A i \in DOMAIN events : i \in DOMAIN events' /\ events'[i] = events[i]
            BY <3>1
        <3>3. Len(events) + 1 \in DOMAIN events'
            BY <3>1
        <3> QED BY <3>1, <3>2, <3>3 DEF Range
    <2>3. AfterEvent(b) # "advance" /\ BrokerGoto(b, AfterEvent(b))
        BY <1>6 DEF AfterEvent, EmitEvent
    <2>4. StageStep
        BY <1>3, <2>2, <2>3 DEF StageStep
    <2> QED BY <1>2, <2>1, <2>2, <2>4 DEF EffectsGrow, EarnSteps
<1> QED BY <1>4, <1>5, <1>6

LEMMA FinalizeEarns ==
    ASSUME TypeInv, NEW b \in Brokers, FinalizeNext(b)
    PROVE  EarnSteps
<1>1. CASE FenceTracker(b) \/ ReadForTerminal(b) \/ MoveToTerminal(b) \/ CleanupWorktree(b)
    <2>1. EffectsGrow /\ PhaseStep
        BY <1>1, EarnStutter DEF FenceTracker, ReadForTerminal, MoveToTerminal, CleanupWorktree
    <2>2. StageStep
        BY <1>1, StageGoto, StageDies
           DEF FenceTracker, ReadForTerminal, MoveToTerminal, CleanupWorktree, WritePCs
    <2> QED BY <2>1, <2>2 DEF EarnSteps
<1>2. CASE TrackerFinalized(b) \/ EventEmitted(b) \/ CompleteTransaction(b)
    <2>1. EffectsGrow
        BY <1>2, EarnStutter DEF TrackerFinalized, EventEmitted, CompleteTransaction
    <2>2. PhaseStep /\ StageStep
        BY <1>2, AdvanceEarns
           DEF TrackerFinalized, EventEmitted, CompleteTransaction, WritePCs
    <2> QED BY <2>1, <2>2 DEF EarnSteps
<1> QED BY <1>1, <1>2, LockEarns, EffectEarns DEF FinalizeNext

LEMMA NextEarns ==
    ASSUME TypeInv, [Next]_vars
    PROVE  EarnSteps
<1>1. ASSUME NEW b \in Brokers, BrokerNext(b) PROVE EarnSteps
    BY <1>1, PassEarns, SupersedeEarns, FinalizeEarns DEF BrokerNext
<1>2. ASSUME NEW t \in Tasks, Submit(t) \/ Approve(t) \/ PostFindings(t) \/ Rework(t)
                              \/ ProducerEdits(t) \/ HumanBlocks(t) \/ HumanUnblocks(t)
                              \/ SyncHold(t)
      PROVE  EarnSteps
    BY <1>2, EarnStutter DEF Submit, Approve, PostFindings, Rework, ProducerEdits,
       HumanBlocks, HumanUnblocks, SyncHold, EarnSteps
<1>3. ASSUME NEW b \in Brokers, CrashBroker(b) PROVE EarnSteps
    BY <1>3, EarnStutter, StageDies DEF CrashBroker, EarnSteps
<1>4. CASE CrashIntegrator \/ FailOverlay
    BY <1>4, EarnStutter DEF CrashIntegrator, FailOverlay, EarnSteps
<1>5. CASE UNCHANGED vars
    BY <1>5, EarnStutter DEF vars, EarnSteps
<1> QED BY <1>1, <1>2, <1>3, <1>4, <1>5, IntegratorEarns DEF Next, EnvironmentNext

-----------------------------------------------------------------------------
\* A broker that is about to write a phase has its effect behind it.
StagesEarned ==
    \A b \in Brokers : /\ At(b, "advance") => fin[b].commit \in noted
                       /\ At(b, "event-phase") => fin[b].commit \in Range(events)

EarnInv == TypeInv /\ StagesEarned /\ PhasesEarned

LEMMA EarnInit == Init => EarnInv
BY InitType DEF Init, EarnInv, StagesEarned, PhasesEarned, At, BrokerIdle

LEMMA EarnStep == EarnInv /\ [Next]_vars => EarnInv'
<1> SUFFICES ASSUME EarnInv, [Next]_vars PROVE EarnInv'
    OBVIOUS
<1>1. TypeInv' /\ EffectsGrow /\ PhaseStep /\ StageStep
    BY StepType, NextEarns DEF EarnInv, EarnSteps
<1>2. StagesEarned'
    BY <1>1 DEF EarnInv, StagesEarned, EffectsGrow, StageStep, At
<1>3. ASSUME NEW t \in Tasks, tx'[t] # None
      PROVE  /\ tx'[t].phase # "awaiting-tracker" => tx'[t].commit \in noted'
             /\ tx'[t].phase \in {"event-emitted", "completed"} =>
                    tx'[t].commit \in Range(events')
    <2>1. tx[t] # None =>
              /\ tx[t].phase # "awaiting-tracker" => tx[t].commit \in noted'
              /\ tx[t].phase \in {"event-emitted", "completed"} =>
                     tx[t].commit \in Range(events')
        BY <1>1 DEF EarnInv, PhasesEarned, EffectsGrow
    <2>2. CASE tx'[t] = tx[t] \/ tx'[t].phase = "awaiting-tracker"
        BY <1>3, <2>1, <2>2
    <2>3. ASSUME NEW b \in Brokers, At(b, "advance"), tx[t].commit = fin[b].commit,
                 tx'[t].commit = tx[t].commit, tx'[t].phase = "tracker-finalized"
          PROVE  tx'[t].commit \in noted'
        BY <1>1, <2>3 DEF EarnInv, StagesEarned, EffectsGrow
    <2>4. ASSUME NEW b \in Brokers, At(b, "event-phase"), tx[t].commit = fin[b].commit
          PROVE  tx[t].commit \in Range(events')
        BY <1>1, <2>4 DEF EarnInv, StagesEarned, EffectsGrow
    <2> QED BY <1>1, <1>3, <2>1, <2>2, <2>3, <2>4 DEF PhaseStep
<1>4. PhasesEarned'
    BY <1>3 DEF PhasesEarned
<1> QED BY <1>1, <1>2, <1>4 DEF EarnInv

(* No phase of a transaction claims a tracker comment or an event that did  *)
(* not happen, although two brokers may be inside finalize_one at once.     *)
THEOREM PhasesTruthful == Spec => []PhasesEarned
<1>1. EarnInv => PhasesEarned
    BY DEF EarnInv
<1> QED BY <1>1, EarnInit, EarnStep, PTL DEF Spec

-----------------------------------------------------------------------------
(* A head lands once, and what landed is journaled.                         *)

\* Where the integrator has found its head unmerged and has not committed it.
CommitPCs == {"at-base", "merging", "overlaid", "validated", "fenced"}

\* The integrator reaches these places with the branch at the prepared base.
ReachStep ==
    integ'.pc \in CommitPCs =>
        /\ integ'.prep = integ.prep
        /\ integ.pc \in CommitPCs \/ (integ.pc = "loaded" /\ Tip = integ.prep.base)

\* The preparation the integrator works on stays in its file, and the slot of
\* the transaction was empty when it was loaded.
HoldStep ==
    integ'.pc # "idle" =>
        \/ /\ integ.pc # "idle" /\ integ'.prep = integ.prep
           /\ \A t \in Tasks : prep[t] # None => prep'[t] # None
           /\ integ'.pc # "recorded" => integ.pc # "recorded"
        \/ /\ integ.pc = "idle" /\ integ'.pc = "loaded" /\ UNCHANGED <<prep, tx>>
           /\ \E t \in Tasks : prep[t] # None /\ tx[t] = None /\ integ'.prep = prep[t]

\* The integrator goes on to the archive with its transaction in the slot.
RecordedStep ==
    integ'.pc = "recorded" =>
        /\ integ'.commit = integ.commit /\ integ'.prep = integ.prep
        /\ integ.pc \in {"verified", "recorded"}
        /\ integ.pc = "verified" =>
              /\ tx'[integ.prep.task] # None
              /\ tx'[integ.prep.task].commit = integ.commit

\* A preparation leaves its file behind the transaction that was made of it.
ArchiveStep ==
    \A t \in Tasks : prep[t] # None /\ prep'[t] = None =>
        /\ UNCHANGED <<feature, tx, txHistory>>
        /\ \/ integ.pc = "recorded" /\ t = integ.prep.task
           \/ tx[t] # None /\ tx[t].head = prep[t].head

LandSteps == ReachStep /\ HoldStep /\ RecordedStep /\ ArchiveStep

LEMMA LandStutter ==
    /\ UNCHANGED integ => ReachStep /\ RecordedStep
    /\ UNCHANGED <<integ, prep>> => LandSteps
    /\ UNCHANGED prep => ArchiveStep
    /\ IntegratorDies => ReachStep /\ HoldStep /\ RecordedStep
<1>1. UNCHANGED integ => ReachStep /\ RecordedStep
    BY DEF ReachStep, RecordedStep
<1>2. UNCHANGED prep => ArchiveStep
    BY DEF ArchiveStep
<1>3. UNCHANGED <<integ, prep>> => HoldStep
    BY DEF HoldStep
<1>4. IntegratorDies => ReachStep /\ HoldStep /\ RecordedStep
    BY DEF IntegratorDies, IntegratorIdle, ReachStep, HoldStep, RecordedStep, CommitPCs
<1> QED BY <1>1, <1>2, <1>3, <1>4 DEF LandSteps

\* The integrator goes on with its preparation.
LEMMA LandGoto ==
    ASSUME TypeInv, integ.pc # "idle", integ.pc # "recorded", UNCHANGED prep,
           NEW pc, pc # "recorded", integ'.pc = pc, integ'.prep = integ.prep,
           pc \in CommitPCs =>
               integ.pc \in CommitPCs \/ (integ.pc = "loaded" /\ Tip = integ.prep.base)
    PROVE  LandSteps
<1>1. ReachStep /\ HoldStep /\ RecordedStep
    BY DEF ReachStep, HoldStep, RecordedStep
<1> QED BY <1>1, LandStutter DEF LandSteps

LEMMA GotoKeeps ==
    ASSUME TypeInv, NEW pc, Goto(pc)
    PROVE  integ'.pc = pc /\ integ'.prep = integ.prep /\ integ'.commit = integ.commit
BY DEF Goto, TypeInv, IntegOK, IntegratorStates

\* A grant that is changed leaves a preparation in its file.
LEMMA RegrantStays ==
    ASSUME TypeInv, NEW t \in Tasks, prep[t] # None, NEW g \in Grants \cup {None}
    PROVE  [prep[t] EXCEPT !.grant = g] # None
<1>1. prep[t] \in Preparations
    BY DEF TypeInv, JournalTypeOK
<1>2. [prep[t] EXCEPT !.grant = g] \in Preparations
    BY <1>1 DEF Preparations
<1> QED BY <1>2, NoneAssumption

LEMMA IntegratorLands ==
    ASSUME TypeInv, IntegratorNext
    PROVE  LandSteps
<1>0. prep \in [Tasks -> Preparations \cup {None}] /\ integ \in IntegratorStates
    BY DEF TypeInv, JournalTypeOK, IntegOK
<1>1. ASSUME NEW t \in Tasks, Prepare(t) PROVE LandSteps
    <2>1. integ'.pc = "idle" /\ UNCHANGED integ
        BY <1>1 DEF Prepare
    <2>2. ArchiveStep
        BY <1>0, <1>1 DEF Prepare, ArchiveStep
    <2> QED BY <2>1, <2>2, LandStutter DEF HoldStep, LandSteps
<1>2. ASSUME NEW t \in Tasks, ResumeRecorded(t) PROVE LandSteps
    <2>1. integ'.pc = "idle" /\ UNCHANGED <<integ, feature, tx, txHistory>>
        BY <1>2 DEF ResumeRecorded
    <2>2. PICK g \in [Prepared -> Grants] :
              IF /\ ValidEntry(t) /\ t \in Prepared
                 /\ \A q \in prepHistory : PrepId(q) # PrepId(prep[t])
              THEN /\ prepHistory' = prepHistory \cup {Regranted(g)[t]}
                   /\ prep' = [Regranted(g) EXCEPT ![t] = None]
              ELSE prep' = Regranted(g) /\ UNCHANGED prepHistory
        BY <1>2 DEF ResumeRecorded
    <2>3. ASSUME NEW u \in Tasks, prep[u] # None
          PROVE  Regranted(g)[u] # None
        <3>1. u \in Prepared /\ g[u] \in Grants
            BY <2>3 DEF Prepared
        <3>2. [prep[u] EXCEPT !.grant = g[u]] # None
            BY <2>3, <3>1, RegrantStays
        <3> QED BY <3>1, <3>2 DEF Regranted
    <2>4. ASSUME NEW u \in Tasks, prep[u] # None, prep'[u] = None
          PROVE  u = t /\ ValidEntry(t)
        BY <2>2, <2>3, <2>4 DEF Regranted
    <2>5. \A u \in Tasks : prep[u] # None => Authorizable(u)
        BY <1>2 DEF ResumeRecorded, Prepared
    <2>6. ArchiveStep
        BY <2>1, <2>4, <2>5 DEF ArchiveStep, ValidEntry, Authorizable
    <2> QED BY <2>1, <2>6, LandStutter DEF HoldStep, LandSteps
<1>3. ASSUME NEW t \in Tasks, Load(t) PROVE LandSteps
    <2>1. integ'.pc = "loaded" /\ integ'.prep = prep[t] /\ integ.pc = "idle"
          /\ UNCHANGED <<prep, tx>> /\ prep[t] # None /\ tx[t] = None
        BY <1>0, <1>3 DEF Load, IntegratorStates
    <2>2. ReachStep /\ HoldStep /\ RecordedStep
        BY <2>1 DEF ReachStep, HoldStep, RecordedStep, CommitPCs
    <2> QED BY <2>1, <2>2, LandStutter DEF LandSteps
<1>4. CASE Locate
    <2>1. CASE integ' = [integ EXCEPT !.pc = "landed", !.commit = Tip]
        <3>1. integ'.pc = "landed" /\ integ'.prep = integ.prep
            BY <1>0, <2>1 DEF IntegratorStates
        <3> QED BY <1>4, <3>1, LandGoto DEF Locate, CommitPCs
    <2>2. CASE Tip = integ.prep.base /\ (Goto("overlaid") \/ Goto("at-base"))
        <3>1. PICK pc \in {"overlaid", "at-base"} : Goto(pc)
            BY <2>2
        <3>2. integ'.pc = pc /\ integ'.prep = integ.prep
            BY <3>1, GotoKeeps
        <3> QED BY <1>4, <2>2, <3>2, LandGoto DEF Locate, CommitPCs
    <2>3. CASE IntegratorDies
        BY <1>4, <2>3, LandStutter DEF Locate, LandSteps
    <2> QED BY <1>4, <2>1, <2>2, <2>3 DEF Locate, ResumableMerge
<1>5. CASE EstablishMerge \/ MaterializeOverlay \/ ValidateMerge \/ FenceCommit
    <2>1. UNCHANGED prep /\ integ.pc \in CommitPCs
        BY <1>5 DEF EstablishMerge, MaterializeOverlay, ValidateMerge, FenceCommit, CommitPCs
    <2>2. CASE IntegratorDies
        BY <2>1, <2>2, LandStutter DEF LandSteps
    <2>3. CASE \E pc \in {"merging", "overlaid", "validated", "fenced"} : Goto(pc)
        <3>1. PICK pc \in {"merging", "overlaid", "validated", "fenced"} : Goto(pc)
            BY <2>3
        <3>2. integ'.pc = pc /\ integ'.prep = integ.prep
            BY <3>1, GotoKeeps
        <3> QED BY <2>1, <3>2, LandGoto DEF CommitPCs
    <2> QED BY <1>5, <2>2, <2>3
            DEF EstablishMerge, MaterializeOverlay, ValidateMerge, FenceCommit
<1>6. CASE FailValidation
    BY <1>6, LandStutter DEF FailValidation, LandSteps
<1>7. CASE ExpireGrant
    <2>1. \A t \in Tasks : prep[t] # None => prep'[t] # None
        <3> SUFFICES ASSUME NEW t \in Tasks, prep[t] # None PROVE prep'[t] # None
            OBVIOUS
        <3>1. [prep[t] EXCEPT !.grant = None] # None
            BY RegrantStays
        <3> QED BY <1>0, <1>7, <3>1 DEF ExpireGrant
    <2> QED BY <1>7, <2>1, LandStutter DEF ExpireGrant, ArchiveStep, LandSteps
<1>8. CASE CommitMerge
    <2>1. integ'.pc = "landed" /\ integ'.prep = integ.prep
        BY <1>0, <1>8 DEF CommitMerge, IntegratorStates
    <2> QED BY <1>8, <2>1, LandGoto DEF CommitMerge, CommitPCs
<1>9. CASE VerifyLanded
    <2>1. CASE IntegratorDies
        BY <1>9, <2>1, LandStutter DEF VerifyLanded, LandSteps
    <2>2. CASE Goto("verified")
        BY <1>9, <2>2, GotoKeeps, LandGoto DEF VerifyLanded, CommitPCs
    <2> QED BY <1>9, <2>1, <2>2 DEF VerifyLanded
<1>10. CASE RecordTransaction
    <2>1. CASE IntegratorDies
        BY <1>10, <2>1, LandStutter DEF RecordTransaction, LandSteps
    <2> DEFINE x == [commit |-> integ.commit, attempt |-> integ.prep.attempt,
                     head |-> integ.prep.head, base |-> integ.prep.base,
                     phase |-> "awaiting-tracker"]
    <2>2. CASE Goto("recorded") /\ tx' = [tx EXCEPT ![integ.task] = x]
        <3>1. integ'.pc = "recorded" /\ integ'.prep = integ.prep /\ integ'.commit = integ.commit
            BY <2>2, GotoKeeps
        <3>2. integ.pc = "verified" /\ integ.task \in Tasks /\ integ.task = integ.prep.task
              /\ integ.prep \in Preparations /\ integ.commit \in Nat /\ UNCHANGED prep
            BY <1>0, <1>10 DEF RecordTransaction, TypeInv, IntegOK, IntegBound, IntegratorStates
        <3>3. x \in Transactions
            BY <3>2 DEF Transactions, Preparations, Phases
        <3>4. tx'[integ.prep.task] = x /\ x # None /\ x.commit = integ.commit
            BY <2>2, <3>2, <3>3, NoneAssumption DEF TypeInv, JournalTypeOK
        <3>5. RecordedStep
            BY <3>1, <3>2, <3>4 DEF RecordedStep
        <3>6. ReachStep /\ HoldStep
            BY <3>1, <3>2 DEF ReachStep, HoldStep, CommitPCs
        <3> QED BY <3>2, <3>5, <3>6, LandStutter DEF LandSteps
    <2> QED BY <1>10, <2>1, <2>2 DEF RecordTransaction
<1>11. CASE ArchivePreparation
    <2>1. integ.task = integ.prep.task /\ IntegratorDies
        BY <1>11 DEF ArchivePreparation, TypeInv, IntegOK, IntegBound
    <2>2. ArchiveStep
        BY <1>0, <1>11, <2>1 DEF ArchivePreparation, ArchiveStep
    <2> QED BY <2>1, <2>2, LandStutter DEF LandSteps
<1> QED BY <1>1, <1>2, <1>3, <1>4, <1>5, <1>6, <1>7, <1>8, <1>9, <1>10, <1>11
        DEF IntegratorNext, IntegratorContinues

LEMMA BrokerLands ==
    ASSUME TypeInv, NEW b \in Brokers, BrokerNext(b)
    PROVE  LandSteps
<1>1. CASE AuthorizePreparation(b)
    <2>1. \A t \in Tasks : prep[t] # None => prep'[t] # None
        <3> SUFFICES ASSUME NEW t \in Tasks, prep[t] # None PROVE prep'[t] # None
            OBVIOUS
        <3>1. CASE UNCHANGED prep
            BY <3>1
        <3>2. ASSUME NEW u \in fin[b].todo, NEW g \in Grants,
                     prep' = [prep EXCEPT ![u].grant = g]
              PROVE  prep'[t] # None
            <4>1. [prep[t] EXCEPT !.grant = g] # None
                BY RegrantStays
            <4> QED BY <3>2, <4>1 DEF TypeInv, JournalTypeOK
        <3> QED BY <1>1, <3>1, <3>2 DEF AuthorizePreparation
    <2>2. UNCHANGED integ
        BY <1>1 DEF AuthorizePreparation
    <2> QED BY <2>1, <2>2, LandStutter DEF HoldStep, ArchiveStep, LandSteps
<1>2. CASE ~AuthorizePreparation(b)
    <2>1. CASE BeginPass(b) \/ ExportAndPrevalidate(b) \/ SortEntry(b) \/ SortDone(b)
        BY <2>1, LandStutter DEF BeginPass, ExportAndPrevalidate, SortEntry, SortDone
    <2>2. CASE SupersedeNext(b)
        <3>1. CASE JournalRecovery(b) \/ StageRevert(b) \/ CommitRevert(b) \/ AbortRevert(b)
                   \/ MarkReverted(b)
            BY <3>1, LandStutter DEF JournalRecovery, StageRevert, CommitRevert, AbortRevert,
               MarkReverted
        <3>2. CASE ReopenTask(b) \/ AnnounceSuperseded(b) \/ RetireRecovery(b)
                   \/ ArchiveTransaction(b) \/ ArchiveRecovery(b)
            BY SMTT(60), <3>2, LandStutter DEF ReopenTask, AnnounceSuperseded, RetireRecovery,
               ArchiveTransaction, ArchiveRecovery
        <3> QED BY SMTT(60), <2>2, <3>1, <3>2 DEF SupersedeNext
    <2>3. CASE TakeTransactionLock(b) \/ ContinueTaking(b) \/ FinalizeDone(b) \/ Revalidate(b)
               \/ FenceTracker(b) \/ ReadForTerminal(b) \/ MoveToTerminal(b) \/ CommentIntegrated(b)
        BY <2>3, LandStutter DEF TakeTransactionLock, ContinueTaking, FinalizeDone, Revalidate,
           FenceTracker, ReadForTerminal, MoveToTerminal, CommentIntegrated
    <2>4. CASE TrackerFinalized(b) \/ FindEvent(b) \/ EmitEvent(b) \/ EventEmitted(b)
               \/ CleanupWorktree(b) \/ CompleteTransaction(b) \/ ReleaseTransactionLock(b)
        BY <2>4, LandStutter DEF TrackerFinalized, FindEvent, EmitEvent, EventEmitted,
           CleanupWorktree, CompleteTransaction, ReleaseTransactionLock
    <2> QED BY SMTT(60), <1>2, <2>1, <2>2, <2>3, <2>4 DEF BrokerNext, FinalizeNext
<1> QED BY <1>1, <1>2

LEMMA NextLands ==
    ASSUME TypeInv, [Next]_vars
    PROVE  LandSteps
<1>1. ASSUME NEW t \in Tasks, Submit(t) \/ Approve(t) \/ PostFindings(t) \/ Rework(t)
                              \/ ProducerEdits(t) \/ HumanBlocks(t) \/ HumanUnblocks(t)
                              \/ SyncHold(t)
      PROVE LandSteps
    BY <1>1, LandStutter DEF Submit, Approve, PostFindings, Rework, ProducerEdits,
       HumanBlocks, HumanUnblocks, SyncHold
<1>2. CASE CrashIntegrator \/ FailOverlay
    BY <1>2, LandStutter DEF CrashIntegrator, FailOverlay, LandSteps
<1>3. ASSUME NEW b \in Brokers, CrashBroker(b) PROVE LandSteps
    BY <1>3, LandStutter DEF CrashBroker
<1>4. CASE UNCHANGED vars
    BY <1>4, LandStutter DEF vars
<1> QED BY <1>1, <1>2, <1>3, <1>4, IntegratorLands, BrokerLands DEF Next, EnvironmentNext

-----------------------------------------------------------------------------
\* Whatever landed of a head that is prepared landed after it was prepared.
PreparedFirst ==
    \A t \in Tasks : prep[t] # None =>
        /\ prep[t].base <= Tip
        /\ \A i \in LandedAt(t, prep[t].head) : i > prep[t].base

LoadedFirst ==
    integ.pc # "idle" =>
        /\ integ.prep.base <= Tip
        /\ \A i \in LandedAt(integ.prep.task, integ.prep.head) : i > integ.prep.base

NotLandedYet ==
    integ.pc \in CommitPCs => LandedAt(integ.prep.task, integ.prep.head) = {}

LandsInv == TypeInv /\ PreparedFirst /\ LoadedFirst /\ NotLandedYet /\ LandsOnce

\* A commit that a step adds is the one the integrator fenced.
LEMMA LandedGrows ==
    ASSUME TypeInv, FeatureStep
    PROVE  /\ Tip \in Nat /\ Tip <= Tip'
           /\ \A i \in Merges' :
                 \/ i \in Merges /\ i <= Tip /\ feature'[i] = feature[i]
                 \/ /\ i = Tip + 1 /\ integ.pc = "fenced" /\ integ'.pc = "landed"
                    /\ PrepId(feature'[i]) = PrepId(integ.prep)
<1>1. feature \in Seq(Commits) /\ Tip \in Nat
    BY DEF TypeInv, GitTypeOK, Tip
<1>2. CASE UNCHANGED feature
    BY <1>1, <1>2 DEF Merges, Tip
<1>3. ASSUME NEW c \in Commits, feature' = Append(feature, c),
             c.op = "merge" => /\ integ.pc = "fenced" /\ integ'.pc = "landed"
                               /\ PrepId(c) = PrepId(integ.prep)
      PROVE  /\ Tip <= Tip'
             /\ \A i \in Merges' :
                 \/ i \in Merges /\ i <= Tip /\ feature'[i] = feature[i]
                 \/ /\ i = Tip + 1 /\ integ.pc = "fenced" /\ integ'.pc = "landed"
                    /\ PrepId(feature'[i]) = PrepId(integ.prep)
    <2>1. Tip' = Tip + 1 /\ feature'[Tip + 1] = c
          /\ \A i \in 1 .. Tip : feature'[i] = feature[i]
        BY <1>1, <1>3 DEF Tip
    <2> SUFFICES ASSUME NEW i \in Merges'
                 PROVE  \/ i \in Merges /\ i <= Tip /\ feature'[i] = feature[i]
                        \/ /\ i = Tip + 1 /\ integ.pc = "fenced" /\ integ'.pc = "landed"
                           /\ PrepId(feature'[i]) = PrepId(integ.prep)
        BY <1>1, <2>1
    <2>2. i \in 1 .. Tip + 1 /\ feature'[i].op = "merge"
        BY <2>1 DEF Merges
    <2>3. CASE i \in 1 .. Tip
        BY <1>1, <2>1, <2>2, <2>3 DEF Merges
    <2>4. CASE i = Tip + 1
        BY <1>3, <2>1, <2>2, <2>4
    <2> QED BY <1>1, <2>2, <2>3, <2>4
<1> QED BY <1>1, <1>2, <1>3 DEF FeatureStep

\* LandedAt(t, h) of the state after the step.
LandedNext(t, h) == {i \in Merges' : feature'[i].task = t /\ feature'[i].head = h}

LEMMA LandedAtGrows ==
    ASSUME TypeInv, FeatureStep, NEW t, NEW h, NEW i \in LandedNext(t, h)
    PROVE  \/ i \in LandedAt(t, h)
           \/ /\ i = Tip + 1 /\ integ.pc = "fenced" /\ integ'.pc = "landed"
              /\ t = integ.prep.task /\ h = integ.prep.head
BY LandedGrows DEF LandedAt, LandedNext, PrepId

LEMMA LandsInit == Init => LandsInv
BY InitType DEF Init, LandsInv, PreparedFirst, LoadedFirst, NotLandedYet, LandsOnce, Merges,
   Tip, IntegratorIdle, CommitPCs

LEMMA LandsStep == LandsInv /\ [Next]_vars => LandsInv'
<1> SUFFICES ASSUME LandsInv, [Next]_vars PROVE LandsInv'
    OBVIOUS
<1>1. TypeInv /\ TypeInv' /\ FeatureStep /\ PrepStep /\ ReachStep /\ HoldStep
    BY NextSteps, NextLands, StepType DEF LandsInv, Steps, LandSteps
<1>2. Tip \in Nat /\ Tip' \in Nat /\ Tip <= Tip'
    BY <1>1, LandedGrows DEF TypeInv, GitTypeOK, Tip
<1>3. \A t \in Tasks : prep[t] # None => prep[t] \in Preparations /\ prep[t].base \in Nat
                                         /\ prep[t].task = t
    BY <1>1 DEF TypeInv, JournalTypeOK, PrepBound, Preparations
<1>4. ASSUME NEW t, NEW h, NEW k \in Nat, k <= Tip, \A i \in LandedAt(t, h) : i > k
      PROVE  k <= Tip' /\ \A i \in LandedNext(t, h) : i > k
    BY <1>1, <1>2, <1>4, LandedAtGrows
<1>5. ASSUME NEW t \in Tasks, prep'[t] # None
      PROVE  /\ prep'[t].base <= Tip'
             /\ \A i \in LandedNext(t, prep'[t].head) : i > prep'[t].base
    <2>1. CASE prep'[t].base = Tip /\ LandedAt(t, prep'[t].head) = {}
        BY <1>2, <1>4, <2>1
    <2>2. CASE prep[t] # None /\ PrepId(prep'[t]) = PrepId(prep[t])
        <3>1. prep[t].base \in Nat /\ prep[t].base <= Tip
              /\ \A i \in LandedAt(t, prep[t].head) : i > prep[t].base
            BY <1>3, <2>2 DEF LandsInv, PreparedFirst
        <3>2. prep[t].base <= Tip' /\ \A i \in LandedNext(t, prep[t].head) : i > prep[t].base
            BY <1>4, <3>1
        <3>3. prep'[t].base = prep[t].base /\ prep'[t].head = prep[t].head
            BY <2>2 DEF PrepId
        <3> QED BY <3>2, <3>3
    <2> QED BY <1>1, <1>5, <2>1, <2>2 DEF PrepStep
<1>6. PreparedFirst'
    BY <1>5 DEF PreparedFirst, LandedAt, LandedNext
<1>7. LoadedFirst'
    <2> SUFFICES ASSUME integ'.pc # "idle"
                 PROVE  /\ integ'.prep.base <= Tip'
                        /\ \A i \in LandedNext(integ'.prep.task, integ'.prep.head) :
                               i > integ'.prep.base
        BY DEF LoadedFirst, LandedAt, LandedNext
    <2>1. CASE integ.pc # "idle" /\ integ'.prep = integ.prep
        <3>1. integ.prep.base \in Nat
            BY <1>1, <2>1 DEF TypeInv, IntegOK, IntegBound, Preparations
        <3>2. /\ integ.prep.base <= Tip'
              /\ \A i \in LandedNext(integ.prep.task, integ.prep.head) : i > integ.prep.base
            BY <1>4, <2>1, <3>1 DEF LandsInv, LoadedFirst
        <3> QED BY <2>1, <3>2
    <2>2. ASSUME NEW t \in Tasks, prep[t] # None, integ'.prep = prep[t]
          PROVE  /\ integ'.prep.base <= Tip'
                 /\ \A i \in LandedNext(integ'.prep.task, integ'.prep.head) :
                        i > integ'.prep.base
        <3>1. /\ prep[t].base <= Tip'
              /\ \A i \in LandedNext(t, prep[t].head) : i > prep[t].base
            BY <1>3, <1>4, <2>2 DEF LandsInv, PreparedFirst
        <3> QED BY <1>3, <2>2, <3>1
    <2> QED BY <1>1, <2>1, <2>2 DEF HoldStep
<1>8. NotLandedYet'
    <2> SUFFICES ASSUME integ'.pc \in CommitPCs,
                        NEW i \in LandedNext(integ'.prep.task, integ'.prep.head)
                 PROVE  FALSE
        BY DEF NotLandedYet, LandedAt, LandedNext
    <2>1. integ'.prep = integ.prep
        BY <1>1 DEF ReachStep
    <2>2. i \in LandedNext(integ.prep.task, integ.prep.head)
        BY <2>1
    <2>3. i \in LandedAt(integ.prep.task, integ.prep.head)
        BY <1>1, <2>2, LandedAtGrows DEF CommitPCs
    <2>4. CASE integ.pc \in CommitPCs
        BY <2>3, <2>4 DEF LandsInv, NotLandedYet
    <2>5. CASE integ.pc = "loaded" /\ Tip = integ.prep.base
        <3>1. i \in 1 .. Tip /\ i > integ.prep.base
            BY <2>3, <2>5 DEF LandsInv, LoadedFirst, LandedAt, Merges
        <3> QED BY <1>2, <2>5, <3>1
    <2> QED BY <1>1, <2>4, <2>5 DEF ReachStep
<1>9. LandsOnce'
    <2> SUFFICES ASSUME NEW i \in Merges', NEW j \in Merges',
                        feature'[i].task = feature'[j].task, feature'[i].head = feature'[j].head
                 PROVE  i = j
        BY DEF LandsOnce
    <2>1. ASSUME NEW k \in Merges', k \in Merges, feature'[k] = feature[k],
                 NEW n \in Merges', n = Tip + 1, integ.pc = "fenced",
                 PrepId(feature'[n]) = PrepId(integ.prep),
                 feature'[k].task = feature'[n].task, feature'[k].head = feature'[n].head
          PROVE  FALSE
        <3>1. k \in LandedAt(integ.prep.task, integ.prep.head)
            BY <2>1 DEF PrepId, LandedAt
        <3> QED BY <2>1, <3>1 DEF LandsInv, NotLandedYet, CommitPCs
    <2> QED BY <1>1, <2>1, LandedGrows DEF LandsInv, LandsOnce
<1> QED BY <1>1, <1>6, <1>7, <1>8, <1>9 DEF LandsInv

(* A reviewed head of a task lands at most once, whatever crashes, resumes, *)
(* reverts and reworks there are.                                           *)
THEOREM HeadLandsOnce == Spec => []LandsOnce
<1>1. LandsInv => LandsOnce
    BY DEF LandsInv
<1> QED BY <1>1, LandsInit, LandsStep, PTL DEF Spec

-----------------------------------------------------------------------------
\* Commit i is named by a transaction, current or archived.
Recorded(i) ==
    \/ \E t \in Tasks : tx[t] # None /\ tx[t].commit = i
    \/ \E h \in txHistory : h.commit = i

\* The integrator's preparation stays in its file until the transaction that
\* archives it is in the slot, or was superseded since.
PreparationKept ==
    integ.pc # "idle" =>
        LET t == integ.prep.task IN
        /\ prep[t] # None /\ PrepId(prep[t]) = PrepId(integ.prep)
        /\ integ.pc # "recorded" => tx[t] = None
        /\ integ.pc = "recorded" => /\ Recorded(integ.commit)
                                    /\ IsIntegration(integ.commit, integ.prep)

JournalInv == RecordInv /\ LandsInv /\ PreparationKept /\ LandedIsJournaled

LEMMA RecordedStays ==
    ASSUME KeepStep, integ.pc = "verified" => tx[integ.prep.task] = None,
           NEW i, Recorded(i)
    PROVE  Recorded(i)'
<1>1. ASSUME NEW h \in txHistory, h.commit = i PROVE Recorded(i)'
    BY <1>1 DEF KeepStep, Recorded
<1>2. ASSUME NEW t \in Tasks, tx[t] # None, tx[t].commit = i PROVE Recorded(i)'
    BY <1>2 DEF KeepStep, Recorded, SameTransaction
<1> QED BY <1>1, <1>2 DEF Recorded

LEMMA JournalInit == Init => JournalInv
BY RecordInit, LandsInit DEF Init, JournalInv, PreparationKept, LandedIsJournaled, Merges,
   Tip, IntegratorIdle

LEMMA JournalStep == JournalInv /\ [Next]_vars => JournalInv'
<1> SUFFICES ASSUME JournalInv, [Next]_vars PROVE JournalInv'
    OBVIOUS
<1>1. TypeInv /\ TypeInv' /\ FeatureStep /\ PrepStep /\ TxStep /\ KeepStep /\ LandSteps
    BY NextSteps, NextLands, NextRecords, StepType DEF JournalInv, RecordInv, Steps, RecordSteps
<1>2. RecordInv' /\ LandsInv'
    BY RecordStep, LandsStep DEF JournalInv
<1>3. integ.pc # "idle" => integ.prep.task \in Tasks
    BY <1>1 DEF TypeInv, IntegOK, IntegBound, Preparations
<1>4. \A i : Recorded(i) => Recorded(i)'
    BY <1>1, RecordedStays DEF JournalInv, PreparationKept
<1>5. PreparationKept'
    <2> SUFFICES ASSUME integ'.pc # "idle" PROVE PreparationKept'
        BY DEF PreparationKept
    <2>1. CASE /\ integ.pc # "idle" /\ integ'.prep = integ.prep
               /\ \A t \in Tasks : prep[t] # None => prep'[t] # None
               /\ integ'.pc # "recorded" => integ.pc # "recorded"
        <3> DEFINE t == integ.prep.task
        <3>1. prep[t] # None /\ PrepId(prep[t]) = PrepId(integ.prep)
              /\ (integ.pc # "recorded" => tx[t] = None)
            BY <2>1 DEF JournalInv, PreparationKept
        <3>2. prep'[t] # None /\ PrepId(prep'[t]) = PrepId(integ.prep)
            BY <1>1, <1>3, <2>1, <3>1 DEF PrepStep
        <3>3. integ'.pc # "recorded" => tx'[t] = None
            BY <1>1, <1>3, <2>1, <3>1 DEF TxStep
        <3>4. ASSUME integ'.pc = "recorded"
              PROVE  /\ integ'.commit = integ.commit /\ Recorded(integ.commit)'
                     /\ IsIntegration(integ.commit, integ.prep)
            <4>1. integ'.commit = integ.commit /\ integ.pc \in {"verified", "recorded"}
                BY <1>1, <3>4 DEF LandSteps, RecordedStep
            <4>2. CASE integ.pc = "verified"
                <5>1. tx'[t] # None /\ tx'[t].commit = integ.commit
                    BY <1>1, <3>4, <4>2 DEF LandSteps, RecordedStep
                <5>2. Recorded(integ.commit)'
                    BY <1>3, <2>1, <4>1, <5>1 DEF Recorded
                <5> QED BY <4>1, <4>2, <5>2 DEF JournalInv, RecordInv, VerifiedStands
            <4>3. CASE integ.pc = "recorded"
                <5>1. Recorded(integ.commit) /\ IsIntegration(integ.commit, integ.prep)
                    BY <4>3 DEF JournalInv, PreparationKept
                <5>2. \A i : i = integ.commit => Recorded(i)'
                    BY <1>4, <5>1
                <5> QED BY <4>1, <5>1, <5>2 DEF Recorded
            <4> QED BY <4>1, <4>2, <4>3
        <3>5. ASSUME integ'.pc = "recorded" PROVE IsIntegration(integ.commit, integ.prep)'
            <4>1. \A i, p : IsIntegration(i, p) => IsIntegration(i, p)'
                BY <1>1, IntegrationStands
            <4> QED BY <2>1, <3>4, <3>5, <4>1 DEF IsIntegration
        <3> QED BY <2>1, <3>2, <3>3, <3>4, <3>5 DEF PreparationKept
    <2>2. ASSUME NEW t \in Tasks, integ'.pc = "loaded", UNCHANGED <<prep, tx>>,
                 prep[t] # None, tx[t] = None, integ'.prep = prep[t]
          PROVE  PreparationKept'
        BY <1>1, <2>2 DEF PreparationKept, TypeInv, PrepBound
    <2> QED BY <1>1, <2>1, <2>2 DEF LandSteps, HoldStep
<1>6. ASSUME NEW i \in Merges', ~Recorded(i)'
      PROVE  \E t \in Tasks : prep'[t] # None /\ PrepId(prep'[t]) = PrepId(feature'[i])
    <2>1. CASE i = Tip + 1 /\ integ.pc = "fenced" /\ integ'.pc = "landed"
               /\ PrepId(feature'[i]) = PrepId(integ.prep)
        <3>1. integ'.prep = integ.prep
            BY <1>1, <2>1 DEF LandSteps, HoldStep
        <3> QED BY <1>3, <1>5, <2>1, <3>1 DEF PreparationKept
    <2>2. CASE i \in Merges /\ feature'[i] = feature[i]
        <3>1. ~Recorded(i)
            BY <1>4, <1>6
        <3>2. PICK t \in Tasks : prep[t] # None /\ PrepId(prep[t]) = PrepId(feature[i])
            BY <2>2, <3>1 DEF JournalInv, LandedIsJournaled, Recorded
        <3>3. prep[t].task = t /\ feature[i].task = t /\ feature[i].head = prep[t].head
            BY <1>1, <3>2 DEF TypeInv, PrepBound, PrepId
        <3>4. ASSUME prep'[t] = None PROVE FALSE
            <4>1. CASE integ.pc = "recorded" /\ t = integ.prep.task
                <5>1. /\ Recorded(integ.commit) /\ IsIntegration(integ.commit, integ.prep)
                      /\ PrepId(prep[t]) = PrepId(integ.prep)
                    BY <4>1 DEF JournalInv, PreparationKept
                <5>2. integ.commit \in Merges /\ feature[integ.commit].task = t
                      /\ feature[integ.commit].head = prep[t].head
                    BY <3>3, <5>1 DEF IsIntegration, Merges, PrepId
                <5>3. i = integ.commit
                    BY <2>2, <3>3, <5>2 DEF JournalInv, LandsInv, LandsOnce
                <5> QED BY <3>1, <5>1, <5>3
            <4>2. CASE tx[t] # None /\ tx[t].head = prep[t].head
                <5>1. tx[t].commit \in Merges /\ feature[tx[t].commit].task = t
                      /\ feature[tx[t].commit].head = prep[t].head
                    BY <4>2 DEF JournalInv, RecordInv, RecordedOnPreparedBase, RecordsItsCommit
                <5>2. i = tx[t].commit
                    BY <2>2, <3>3, <5>1 DEF JournalInv, LandsInv, LandsOnce
                <5> QED BY <3>1, <4>2, <5>2 DEF Recorded
            <4> QED BY <1>1, <3>2, <3>4, <4>1, <4>2 DEF LandSteps, ArchiveStep
        <3>5. PrepId(prep'[t]) = PrepId(prep[t])
            BY <1>1, <3>2, <3>4 DEF PrepStep
        <3> QED BY <2>2, <3>2, <3>4, <3>5
    <2> QED BY <1>1, <2>1, <2>2, LandedGrows
<1>7. LandedIsJournaled'
    BY <1>6 DEF LandedIsJournaled, Recorded
<1> QED BY <1>2, <1>5, <1>7 DEF JournalInv

(* No integration commit is on the feature branch without a durable record  *)
(* that names it, wherever the integrator or a broker died.                 *)
THEOREM LandedJournaled == Spec => []LandedIsJournaled
<1>1. JournalInv => LandedIsJournaled
    BY DEF JournalInv
<1> QED BY <1>1, JournalInit, JournalStep, PTL DEF Spec

-----------------------------------------------------------------------------
(* Every recovered transaction is reverted once, and announced.             *)

\* Where the integrator has its merge in the checkout.
MergePCs == {"merging", "overlaid", "validated", "fenced"}

\* Where a broker supersedes a transaction, and where its revert has landed.
RevertedPCs == {"mark", "reopen", "announce", "retire", "archive"}
SupersedePCs == {"journal", "revert", "staged"} \cup RevertedPCs
AnnouncedPCs == {"retire", "archive"}

\* A staged revert is the one it was before the step.
StagedStill(b) == fin'[b].pc = "staged" => fin'[b] = fin[b]

\* The checkout passes from clean to one writer's hands and back.
CheckoutStep ==
    \/ /\ UNCHANGED checkout
       /\ integ'.pc \in MergePCs => integ.pc \in MergePCs \/ checkout.op = "merge"
       /\ \A b \in Brokers : StagedStill(b)
    \/ /\ UNCHANGED fin
       /\ CheckoutClean \/ integ.pc \in MergePCs
       /\ integ'.pc \in MergePCs => checkout'.op \in {"merge-head", "merge"}
    \/ /\ UNCHANGED <<integ, feature>>
       /\ CheckoutClean /\ checkout'.op = "revert"
       /\ \E b \in Brokers : /\ RevertsOf(fin[b].commit) = {}
                             /\ fin'[b].commit = fin[b].commit
                             /\ \A c \in Brokers \ {b} : StagedStill(c)
    \/ /\ UNCHANGED integ
       /\ \E b \in Brokers : /\ At(b, "staged") /\ fin'[b].pc # "staged"
                             /\ \A c \in Brokers \ {b} : StagedStill(c)

\* A broker picks the transaction it supersedes from its slot, and comes to
\* each place behind the effect that the place before it made.
SupersedeStep ==
    \A b \in Brokers :
        /\ fin'[b].pc \in SupersedePCs =>
              \/ /\ fin[b].pc \in SupersedePCs
                 /\ fin'[b].task = fin[b].task /\ fin'[b].commit = fin[b].commit
              \/ /\ UNCHANGED tx
                 /\ fin'[b].task \in Tasks /\ tx[fin'[b].task] # None
                 /\ tx[fin'[b].task].commit = fin'[b].commit
                 /\ fin'[b].pc = "journal"
        /\ fin'[b].pc \in RevertedPCs =>
              \/ fin[b].pc \in RevertedPCs
              \/ \E i \in (1 .. Tip)' : feature'[i].op = "revert" /\ feature'[i].of = fin[b].commit
        /\ fin'[b].pc \in AnnouncedPCs =>
              fin[b].pc \in AnnouncedPCs \/ fin[b].commit \in retracted'

\* A transaction is archived by a broker that has retired its recovery.
HistoryStep ==
    /\ retracted \subseteq retracted'
    /\ \A h \in txHistory' :
          \/ h \in txHistory
          \/ \E b \in Brokers : /\ At(b, "archive")
                                /\ tx[fin[b].task] # None /\ h = tx[fin[b].task]
                                /\ \A g \in txHistory : g.commit # fin[b].commit

RevertSteps == CheckoutStep /\ SupersedeStep /\ HistoryStep

LEMMA RevertStutter ==
    /\ UNCHANGED <<retracted, txHistory>> => HistoryStep
    /\ UNCHANGED fin => SupersedeStep
    /\ UNCHANGED <<fin, checkout>> /\ (integ'.pc \in MergePCs => integ.pc \in MergePCs)
           => CheckoutStep
    /\ UNCHANGED <<fin, checkout, integ, retracted, txHistory>> => RevertSteps
<1>1. UNCHANGED <<retracted, txHistory>> => HistoryStep
    BY DEF HistoryStep
<1>2. UNCHANGED fin => SupersedeStep
    BY DEF SupersedeStep, RevertedPCs, SupersedePCs, AnnouncedPCs
<1>3. UNCHANGED <<fin, checkout>> /\ (integ'.pc \in MergePCs => integ.pc \in MergePCs)
          => CheckoutStep
    BY DEF CheckoutStep, StagedStill
<1> QED BY <1>1, <1>2, <1>3 DEF RevertSteps

\* Broker b goes elsewhere, and touches nothing these steps speak of.
Elsewhere(b) ==
    /\ fin'[b].pc \notin SupersedePCs
    /\ \A c \in Brokers \ {b} : fin'[c] = fin[c]

LEMMA ElsewhereReverts ==
    ASSUME NEW b \in Brokers, Elsewhere(b), UNCHANGED <<checkout, integ, retracted, txHistory>>
    PROVE  RevertSteps
<1>1. CheckoutStep
    BY DEF Elsewhere, CheckoutStep, StagedStill, SupersedePCs
<1>2. SupersedeStep
    BY DEF Elsewhere, SupersedeStep, SupersedePCs, RevertedPCs, AnnouncedPCs
<1> QED BY <1>1, <1>2, RevertStutter DEF RevertSteps

LEMMA GotoMoves ==
    ASSUME TypeInv, NEW b \in Brokers, NEW pc, BrokerGoto(b, pc)
    PROVE  /\ fin'[b].pc = pc /\ fin'[b].task = fin[b].task /\ fin'[b].commit = fin[b].commit
           /\ \A c \in Brokers \ {b} : fin'[c] = fin[c]
BY DEF TypeInv, FinOK, BrokerStates, BrokerGoto

LEMMA DiesElsewhere ==
    ASSUME TypeInv, NEW b \in Brokers, BrokerDies(b)
    PROVE  Elsewhere(b)
BY DEF TypeInv, FinOK, BrokerDies, BrokerIdle, Elsewhere, SupersedePCs, RevertedPCs

LEMMA GotoElsewhere ==
    ASSUME TypeInv, NEW b \in Brokers, NEW pc, pc \notin SupersedePCs, BrokerGoto(b, pc)
    PROVE  Elsewhere(b)
BY GotoMoves DEF Elsewhere

\* Broker b goes on with its recovery without touching the checkout.
LEMMA RecoveryGoes ==
    ASSUME TypeInv, NEW b \in Brokers, NEW pc \in SupersedePCs \ {"staged"}, BrokerGoto(b, pc),
           fin[b].pc \in SupersedePCs,
           pc \in RevertedPCs =>
              \/ fin[b].pc \in RevertedPCs
              \/ \E i \in (1 .. Tip)' : feature'[i].op = "revert" /\ feature'[i].of = fin[b].commit,
           pc \in AnnouncedPCs => fin[b].pc \in AnnouncedPCs \/ fin[b].commit \in retracted'
    PROVE  /\ SupersedeStep
           /\ \A c \in Brokers : StagedStill(c)
<1>1. /\ fin'[b].pc = pc /\ fin'[b].task = fin[b].task /\ fin'[b].commit = fin[b].commit
      /\ \A c \in Brokers \ {b} : fin'[c] = fin[c]
    BY GotoMoves
<1>2. SupersedeStep
    BY <1>1 DEF SupersedeStep, SupersedePCs, RevertedPCs, AnnouncedPCs
<1> QED BY <1>1, <1>2 DEF StagedStill

LEMMA IntegratorReverts ==
    ASSUME TypeInv, IntegratorNext
    PROVE  RevertSteps
<1>1. UNCHANGED <<fin, retracted, txHistory>>
    BY DEF IntegratorNext, IntegratorContinues, Prepare, ResumeRecorded, Load, ValidateMerge,
       FailValidation, ExpireGrant, Locate, EstablishMerge, MaterializeOverlay, FenceCommit,
       CommitMerge, VerifyLanded, RecordTransaction, ArchivePreparation
<1> SUFFICES CheckoutStep
    BY <1>1, RevertStutter DEF RevertSteps
<1>0. integ \in IntegratorStates
    BY DEF TypeInv, IntegOK
<1>2. ASSUME NEW t \in Tasks, Prepare(t) \/ ResumeRecorded(t) \/ Load(t) PROVE CheckoutStep
    BY <1>0, <1>1, <1>2, RevertStutter DEF Prepare, ResumeRecorded, Load, IntegratorStates, MergePCs
<1>3. CASE Locate
    <2>1. UNCHANGED checkout
        BY <1>3 DEF Locate
    <2>2. integ'.pc \in MergePCs => checkout.op = "merge"
        <3>1. CASE checkout.op = "merge"
            BY <3>1
        <3>2. CASE integ' = [integ EXCEPT !.pc = "landed", !.commit = Tip] \/ Goto("at-base")
            BY <1>0, <3>2 DEF Goto, IntegratorStates, MergePCs
        <3>3. CASE IntegratorDies
            BY <3>3 DEF IntegratorDies, IntegratorIdle, MergePCs
        <3> QED BY <1>3, <3>1, <3>2, <3>3 DEF Locate, ResumableMerge
    <2> QED BY <1>1, <2>1, <2>2 DEF CheckoutStep, StagedStill
<1>4. CASE EstablishMerge
    <2>1. CASE IntegratorDies /\ UNCHANGED checkout
        BY <1>1, <2>1, RevertStutter DEF IntegratorDies, IntegratorIdle, MergePCs
    <2>2. CASE CheckoutClean /\ checkout'.op = "merge-head"
        BY <1>1, <2>2 DEF CheckoutStep
    <2> QED BY <1>4, <2>1, <2>2 DEF EstablishMerge
<1>5. CASE MaterializeOverlay
    <2>1. checkout'.op = "merge"
        BY <1>5 DEF MaterializeOverlay, TypeInv, GitTypeOK, Checkouts
    <2> QED BY <1>1, <1>5, <2>1 DEF MaterializeOverlay, CheckoutStep, MergePCs
<1>6. CASE ValidateMerge
    BY <1>1, <1>6, RevertStutter DEF ValidateMerge, MergePCs
<1>7. ASSUME integ.pc \in MergePCs, integ'.pc \notin MergePCs PROVE CheckoutStep
    BY <1>1, <1>7 DEF CheckoutStep
<1>8. CASE FailValidation \/ ExpireGrant
    BY <1>7, <1>8 DEF FailValidation, ExpireGrant, IntegratorDies, IntegratorIdle, MergePCs
<1>9. CASE FenceCommit
    <2>1. CASE UNCHANGED checkout
        BY <1>1, <1>9, <2>1, RevertStutter DEF FenceCommit, MergePCs
    <2>2. CASE IntegratorDies
        BY <1>7, <1>9, <2>2 DEF FenceCommit, IntegratorDies, IntegratorIdle, MergePCs
    <2> QED BY <1>9, <2>1, <2>2 DEF FenceCommit
<1>10. CASE CommitMerge
    BY <1>0, <1>7, <1>10 DEF CommitMerge, IntegratorStates, MergePCs
<1>11. CASE VerifyLanded \/ RecordTransaction \/ ArchivePreparation
    BY <1>0, <1>1, <1>11, RevertStutter DEF VerifyLanded, RecordTransaction,
       ArchivePreparation, Goto, IntegratorDies, IntegratorIdle, IntegratorStates, MergePCs
<1> QED BY <1>2, <1>3, <1>4, <1>5, <1>6, <1>8, <1>9, <1>10, <1>11
        DEF IntegratorNext, IntegratorContinues

LEMMA PassReverts ==
    ASSUME TypeInv, NEW b \in Brokers,
           BeginPass(b) \/ AuthorizePreparation(b) \/ ExportAndPrevalidate(b)
           \/ SortEntry(b) \/ SortDone(b)
    PROVE  RevertSteps
<1>0. fin \in [Brokers -> BrokerStates]
    BY SMTT(60) DEF TypeInv, FinOK
<1>1. UNCHANGED <<checkout, integ, retracted, txHistory>>
    BY DEF BeginPass, AuthorizePreparation, ExportAndPrevalidate, SortEntry, SortDone
<1>2. CASE BeginPass(b)
    <2>1. Elsewhere(b)
        BY <1>0, <1>2 DEF BeginPass, BrokerStates, Elsewhere, SupersedePCs, RevertedPCs
    <2> QED BY <1>1, <2>1, ElsewhereReverts
<1>3. CASE AuthorizePreparation(b)
    <2>1. PICK t \in fin[b].todo : BrokerDies(b) \/ fin' = [fin EXCEPT ![b].todo = @ \ {t}]
        BY <1>3 DEF AuthorizePreparation
    <2>2. CASE fin' = [fin EXCEPT ![b].todo = @ \ {t}]
        <3>1. Elsewhere(b)
            BY <1>0, <1>3, <2>2 DEF AuthorizePreparation, At, BrokerStates, Elsewhere,
               SupersedePCs, RevertedPCs
        <3> QED BY <1>1, <3>1, ElsewhereReverts
    <2> QED BY <1>1, <2>1, <2>2, DiesElsewhere, ElsewhereReverts
<1>4. CASE ExportAndPrevalidate(b)
    <2>1. CASE BrokerDies(b)
        BY <1>1, <2>1, DiesElsewhere, ElsewhereReverts
    <2>2. CASE ~BrokerDies(b)
        <3>1. Elsewhere(b)
            BY <1>0, <1>4, <2>2 DEF ExportAndPrevalidate, BrokerStates, Elsewhere,
               SupersedePCs, RevertedPCs
        <3> QED BY <1>1, <3>1, ElsewhereReverts
    <2> QED BY <2>1, <2>2
<1>5. CASE SortEntry(b)
    <2>1. PICK t \in fin[b].todo :
              \/ BrokerDies(b)
              \/ /\ tx[t] # None
                 /\ fin' = [fin EXCEPT ![b].pc = "journal", ![b].task = t,
                                    ![b].phase = tx[t].phase, ![b].commit = tx[t].commit,
                                    ![b].todo = @ \ {t}]
              \/ fin' = [fin EXCEPT ![b].todo = @ \ {t}, ![b].ready = @ \cup {t}]
        BY <1>5 DEF SortEntry
    <2>2. CASE fin' = [fin EXCEPT ![b].todo = @ \ {t}, ![b].ready = @ \cup {t}]
        <3>1. Elsewhere(b)
            BY <1>0, <1>5, <2>2 DEF SortEntry, At, BrokerStates, Elsewhere, SupersedePCs,
               RevertedPCs
        <3> QED BY <1>1, <3>1, ElsewhereReverts
    <2>3. CASE /\ tx[t] # None
               /\ fin' = [fin EXCEPT ![b].pc = "journal", ![b].task = t,
                                  ![b].phase = tx[t].phase, ![b].commit = tx[t].commit,
                                  ![b].todo = @ \ {t}]
        <3>1. t \in Tasks /\ UNCHANGED tx
            BY <1>0, <1>5 DEF SortEntry, BrokerStates
        <3>2. /\ fin'[b].pc = "journal" /\ fin'[b].task = t /\ fin'[b].commit = tx[t].commit
              /\ \A c \in Brokers \ {b} : fin'[c] = fin[c]
            BY SMTT(60), <1>0, <2>3 DEF BrokerStates
        <3>3. SupersedeStep
            BY <2>3, <3>1, <3>2 DEF SupersedeStep, SupersedePCs, RevertedPCs, AnnouncedPCs
        <3>4. CheckoutStep
            BY <1>1, <3>2 DEF CheckoutStep, StagedStill
        <3> QED BY <1>1, <3>3, <3>4, RevertStutter DEF RevertSteps
    <2> QED BY <1>1, <2>1, <2>2, <2>3, DiesElsewhere, ElsewhereReverts
<1>6. CASE SortDone(b)
    <2>1. Elsewhere(b)
        BY <1>6, GotoElsewhere DEF SortDone, SupersedePCs, RevertedPCs
    <2> QED BY <1>1, <2>1, ElsewhereReverts
<1> QED BY <1>2, <1>3, <1>4, <1>5, <1>6

LEMMA SupersedeReverts ==
    ASSUME TypeInv, NEW b \in Brokers, SupersedeNext(b)
    PROVE  RevertSteps
<1>0. fin \in [Brokers -> BrokerStates]
    BY SMTT(60) DEF TypeInv, FinOK
<1>1. UNCHANGED integ
    BY DEF SupersedeNext, JournalRecovery, StageRevert, CommitRevert, AbortRevert,
       MarkReverted, ReopenTask, AnnounceSuperseded, RetireRecovery, ArchiveTransaction,
       ArchiveRecovery
<1>2. CASE JournalRecovery(b)
    <2>1. UNCHANGED <<checkout, retracted, txHistory>>
        BY <1>2 DEF JournalRecovery
    <2>2. CASE BrokerDies(b)
        BY <1>1, <2>1, <2>2, DiesElsewhere, ElsewhereReverts
    <2>3. CASE BrokerGoto(b, "revert")
        BY <1>1, <1>2, <2>1, <2>3, RecoveryGoes, RevertStutter
           DEF JournalRecovery, At, SupersedePCs, RevertedPCs, AnnouncedPCs, RevertSteps,
               CheckoutStep
    <2> QED BY <1>2, <2>2, <2>3 DEF JournalRecovery
<1>3. CASE StageRevert(b)
    <2>1. UNCHANGED <<feature, retracted, txHistory>>
        BY <1>3 DEF StageRevert
    <2>2. CASE BrokerDies(b) /\ UNCHANGED checkout
        BY <1>1, <2>1, <2>2, DiesElsewhere, ElsewhereReverts
    <2>3. CASE BrokerGoto(b, "mark") /\ UNCHANGED checkout /\ RevertsOf(fin[b].commit) # {}
        <3>1. \E i \in (1 .. Tip)' : feature'[i].op = "revert" /\ feature'[i].of = fin[b].commit
            BY <2>1, <2>3 DEF RevertsOf, Tip
        <3>2. SupersedeStep /\ \A c \in Brokers : StagedStill(c)
            BY <1>3, <2>3, <3>1, RecoveryGoes
               DEF StageRevert, At, SupersedePCs, RevertedPCs, AnnouncedPCs
        <3> QED BY <1>1, <2>1, <2>3, <3>2, RevertStutter DEF RevertSteps, CheckoutStep
    <2>4. CASE /\ BrokerGoto(b, "staged") /\ CheckoutClean /\ RevertsOf(fin[b].commit) = {}
               /\ checkout' = [op |-> "revert", task |-> fin[b].task, head |-> 0]
        <3>1. /\ fin'[b].pc = "staged" /\ fin'[b].task = fin[b].task
              /\ fin'[b].commit = fin[b].commit /\ \A c \in Brokers \ {b} : fin'[c] = fin[c]
            BY <2>4, GotoMoves
        <3>2. SupersedeStep
            BY <1>3, <3>1 DEF StageRevert, At, SupersedeStep, SupersedePCs, RevertedPCs,
               AnnouncedPCs
        <3>3. CheckoutStep
            BY <1>1, <2>1, <2>4, <3>1 DEF CheckoutStep, StagedStill
        <3> QED BY <2>1, <3>2, <3>3, RevertStutter DEF RevertSteps
    <2> QED BY <1>3, <2>2, <2>3, <2>4 DEF StageRevert
<1>4. CASE CommitRevert(b)
    <2>1. UNCHANGED <<retracted, txHistory>> /\ At(b, "staged")
        BY <1>4 DEF CommitRevert
    <2>2. CASE BrokerDies(b) /\ UNCHANGED checkout
        BY <1>1, <2>1, <2>2, DiesElsewhere, ElsewhereReverts
    <2> DEFINE c == [op |-> "revert", task |-> fin[b].task, attempt |-> 0, head |-> 0,
                     base |-> Tip, grant |-> None, of |-> fin[b].commit]
    <2>3. CASE feature' = Append(feature, c) /\ BrokerGoto(b, "mark")
        <3>1. feature \in Seq(Commits) /\ Tip \in Nat
            BY DEF TypeInv, GitTypeOK, Tip
        <3>2. (Tip + 1) \in (1 .. Tip)' /\ feature'[Tip + 1] = c
            BY <2>3, <3>1 DEF Tip
        <3>3. \E i \in (1 .. Tip)' : feature'[i].op = "revert" /\ feature'[i].of = fin[b].commit
            BY <3>2
        <3>4. SupersedeStep /\ \A d \in Brokers : StagedStill(d)
            BY <2>1, <2>3, <3>3, RecoveryGoes DEF At, SupersedePCs, RevertedPCs, AnnouncedPCs
        <3>5. fin'[b].pc # "staged"
            BY <2>3, GotoMoves
        <3>6. CheckoutStep
            BY <1>1, <2>1, <3>4, <3>5 DEF CheckoutStep
        <3> QED BY <2>1, <3>4, <3>6, RevertStutter DEF RevertSteps
    <2> QED BY <1>4, <2>2, <2>3 DEF CommitRevert
<1>5. CASE AbortRevert(b)
    <2>1. Elsewhere(b) /\ UNCHANGED <<retracted, txHistory>> /\ At(b, "staged")
        BY <1>5, DiesElsewhere DEF AbortRevert
    <2>2. CheckoutStep
        BY <1>1, <2>1 DEF CheckoutStep, StagedStill, Elsewhere, SupersedePCs
    <2>3. SupersedeStep
        BY <2>1 DEF Elsewhere, SupersedeStep, SupersedePCs, RevertedPCs, AnnouncedPCs
    <2> QED BY <2>1, <2>2, <2>3, RevertStutter DEF RevertSteps
<1>6. CASE MarkReverted(b) \/ ReopenTask(b)
    <2>1. UNCHANGED <<checkout, retracted, txHistory>> /\ fin[b].pc \in RevertedPCs
        BY <1>6 DEF MarkReverted, ReopenTask, At, RevertedPCs
    <2>2. CASE BrokerDies(b)
        BY <1>1, <2>1, <2>2, DiesElsewhere, ElsewhereReverts
    <2>3. CASE BrokerGoto(b, "reopen") \/ BrokerGoto(b, "announce")
        <3>1. SupersedeStep /\ \A c \in Brokers : StagedStill(c)
            BY <2>1, <2>3, RecoveryGoes DEF SupersedePCs, RevertedPCs, AnnouncedPCs
        <3> QED BY <1>1, <2>1, <3>1, RevertStutter DEF RevertSteps, CheckoutStep
    <2> QED BY <1>6, <2>2, <2>3 DEF MarkReverted, ReopenTask
<1>7. CASE AnnounceSuperseded(b)
    <2>1. UNCHANGED <<checkout, txHistory>> /\ fin[b].pc \in RevertedPCs
        BY <1>7 DEF AnnounceSuperseded, At, RevertedPCs
    <2>2. CASE BrokerDies(b) /\ UNCHANGED retracted
        BY <1>1, <2>1, <2>2, DiesElsewhere, ElsewhereReverts
    <2>3. CASE BrokerGoto(b, "retire") /\ retracted' = retracted \cup {fin[b].commit}
        <3>1. SupersedeStep /\ \A c \in Brokers : StagedStill(c)
            BY <2>1, <2>3, RecoveryGoes DEF SupersedePCs, RevertedPCs, AnnouncedPCs
        <3>2. HistoryStep
            BY <2>1, <2>3 DEF HistoryStep
        <3> QED BY <1>1, <2>1, <3>1, <3>2 DEF RevertSteps, CheckoutStep
    <2> QED BY <1>7, <2>2, <2>3 DEF AnnounceSuperseded
<1>8. CASE RetireRecovery(b)
    <2>1. UNCHANGED <<checkout, retracted, txHistory>> /\ fin[b].pc = "retire"
        BY <1>8 DEF RetireRecovery, At
    <2>2. CASE BrokerDies(b)
        BY <1>1, <2>1, <2>2, DiesElsewhere, ElsewhereReverts
    <2>3. CASE BrokerGoto(b, "archive")
        <3>1. SupersedeStep /\ \A c \in Brokers : StagedStill(c)
            BY <2>1, <2>3, RecoveryGoes DEF SupersedePCs, RevertedPCs, AnnouncedPCs
        <3> QED BY <1>1, <2>1, <3>1, RevertStutter DEF RevertSteps, CheckoutStep
    <2> QED BY <1>8, <2>2, <2>3 DEF RetireRecovery
<1>9. CASE ArchiveTransaction(b)
    <2>1. UNCHANGED <<checkout, retracted>> /\ At(b, "archive")
        BY <1>9 DEF ArchiveTransaction
    <2>2. CASE BrokerDies(b) /\ UNCHANGED txHistory
        BY <1>1, <2>1, <2>2, DiesElsewhere, ElsewhereReverts
    <2>3. CASE /\ tx[fin[b].task] # None /\ \A h \in txHistory : h.commit # fin[b].commit
               /\ txHistory' = txHistory \cup {tx[fin[b].task]} /\ BrokerGoto(b, "discard")
        <3>1. Elsewhere(b)
            BY <2>3, GotoElsewhere DEF SupersedePCs, RevertedPCs
        <3>2. HistoryStep
            BY <2>1, <2>3 DEF HistoryStep
        <3>3. SupersedeStep /\ CheckoutStep
            BY <1>1, <2>1, <3>1 DEF Elsewhere, SupersedeStep, CheckoutStep, StagedStill,
               SupersedePCs, RevertedPCs, AnnouncedPCs
        <3> QED BY <3>2, <3>3 DEF RevertSteps
    <2> QED BY <1>9, <2>2, <2>3 DEF ArchiveTransaction
<1>10. CASE ArchiveRecovery(b)
    <2>1. UNCHANGED <<checkout, retracted, txHistory>>
        BY <1>10 DEF ArchiveRecovery
    <2>2. CASE BrokerDies(b)
        BY <1>1, <2>1, <2>2, DiesElsewhere, ElsewhereReverts
    <2>3. CASE fin' = [fin EXCEPT ![b].pc = "sort", ![b].task = None,
                                  ![b].phase = "none", ![b].commit = 0]
        <3>1. Elsewhere(b)
            BY <1>0, <2>3 DEF BrokerStates, Elsewhere, SupersedePCs, RevertedPCs
        <3> QED BY <1>1, <2>1, <3>1, ElsewhereReverts
    <2> QED BY <1>10, <2>2, <2>3 DEF ArchiveRecovery
<1> QED BY <1>2, <1>3, <1>4, <1>5, <1>6, <1>7, <1>8, <1>9, <1>10 DEF SupersedeNext

\* finalize_one never comes near a recovery.
LEMMA FinalizeReverts ==
    ASSUME TypeInv, NEW b \in Brokers, FinalizeNext(b)
    PROVE  RevertSteps
<1>0. fin \in [Brokers -> BrokerStates]
    BY SMTT(60) DEF TypeInv, FinOK
<1> USE DEF SupersedePCs, RevertedPCs
<1>1. CASE TakeTransactionLock(b)
    <2>1. UNCHANGED <<checkout, integ, retracted, txHistory>>
        BY <1>1 DEF TakeTransactionLock
    <2>2. PICK t \in fin[b].ready :
              \/ fin' = [fin EXCEPT ![b].ready = @ \ {t}]
              \/ BrokerDies(b)
              \/ \E pc \in {"own", "remove-owner"} : \E c :
                    fin' = [fin EXCEPT ![b].pc = pc, ![b].task = t, ![b].commit = c]
        BY <1>1 DEF TakeTransactionLock
    <2>3. CASE fin' = [fin EXCEPT ![b].ready = @ \ {t}]
        <3>1. Elsewhere(b)
            BY <1>0, <1>1, <2>3 DEF TakeTransactionLock, At, BrokerStates, Elsewhere
        <3> QED BY <2>1, <3>1, ElsewhereReverts
    <2>4. ASSUME NEW pc \in {"own", "remove-owner"}, NEW c,
                 fin' = [fin EXCEPT ![b].pc = pc, ![b].task = t, ![b].commit = c]
          PROVE  RevertSteps
        <3>1. Elsewhere(b)
            BY <1>0, <2>4 DEF BrokerStates, Elsewhere
        <3> QED BY <2>1, <3>1, ElsewhereReverts
    <2> QED BY SMTT(60), <2>1, <2>2, <2>3, <2>4, DiesElsewhere, ElsewhereReverts
<1>2. CASE ContinueTaking(b) \/ FinalizeDone(b) \/ FenceTracker(b) \/ ReadForTerminal(b)
    <2>1. UNCHANGED <<checkout, integ, retracted, txHistory>>
        BY <1>2 DEF ContinueTaking, FinalizeDone, FenceTracker, ReadForTerminal
    <2>2. Elsewhere(b)
        BY <1>2, GotoElsewhere, DiesElsewhere
           DEF ContinueTaking, RemoveOwner, ChangeLock, FinalizeDone, FenceTracker, ReadForTerminal
    <2> QED BY <2>1, <2>2, ElsewhereReverts
<1>3. CASE Revalidate(b)
    <2>1. UNCHANGED <<checkout, integ, retracted, txHistory>>
        BY <1>3 DEF Revalidate
    <2>2. ASSUME NEW pc \in {"release", "tracker"}, NEW x,
                 \/ fin' = [fin EXCEPT ![b].phase = x, ![b].pc = pc]
                 \/ fin' = [fin EXCEPT ![b].pc = pc, ![b].phase = x]
          PROVE  Elsewhere(b)
        BY <1>0, <2>2 DEF BrokerStates, Elsewhere
    <2>3. Elsewhere(b)
        BY <1>3, <2>2, DiesElsewhere DEF Revalidate
    <2> QED BY <2>1, <2>3, ElsewhereReverts
<1>4. CASE MoveToTerminal(b) \/ CommentIntegrated(b) \/ FindEvent(b) \/ EmitEvent(b)
           \/ CleanupWorktree(b)
    <2>1. UNCHANGED <<checkout, integ, retracted, txHistory>>
        BY <1>4 DEF MoveToTerminal, CommentIntegrated, FindEvent, EmitEvent, CleanupWorktree
    <2>2. AfterEvent(b) \notin SupersedePCs
        BY DEF AfterEvent
    <2>3. Elsewhere(b)
        BY <1>4, <2>2, GotoElsewhere, DiesElsewhere
           DEF MoveToTerminal, CommentIntegrated, FindEvent, EmitEvent, CleanupWorktree
    <2> QED BY <2>1, <2>3, ElsewhereReverts
<1>5. CASE TrackerFinalized(b) \/ EventEmitted(b) \/ CompleteTransaction(b)
    <2>1. UNCHANGED <<checkout, integ, retracted, txHistory>>
        BY <1>5 DEF TrackerFinalized, EventEmitted, CompleteTransaction
    <2>2. ASSUME NEW x, NEW pc \in {"event", "cleanup", "release"},
                 fin' = [fin EXCEPT ![b].phase = x, ![b].pc = pc]
          PROVE  Elsewhere(b)
        BY <1>0, <2>2 DEF BrokerStates, Elsewhere
    <2>3. Elsewhere(b)
        BY <1>5, <2>2, DiesElsewhere
           DEF TrackerFinalized, EventEmitted, CompleteTransaction, AdvancePhase
    <2> QED BY <2>1, <2>3, ElsewhereReverts
<1>6. CASE ReleaseTransactionLock(b)
    <2>1. UNCHANGED <<checkout, integ, retracted, txHistory>>
        BY <1>6 DEF ReleaseTransactionLock
    <2>2. ASSUME fin' = [fin EXCEPT ![b].pc = "finalize", ![b].task = None,
                                    ![b].phase = "none", ![b].commit = 0,
                                    ![b].ready = @ \ {fin[b].task}]
          PROVE  Elsewhere(b)
        BY <1>0, <2>2 DEF BrokerStates, Elsewhere
    <2>3. Elsewhere(b)
        BY <1>6, <2>2, GotoElsewhere, DiesElsewhere DEF ReleaseTransactionLock, RemoveOwner
    <2> QED BY <2>1, <2>3, ElsewhereReverts
<1> QED BY <1>1, <1>2, <1>3, <1>4, <1>5, <1>6 DEF FinalizeNext

LEMMA NextReverts ==
    ASSUME TypeInv, [Next]_vars
    PROVE  RevertSteps
<1>1. ASSUME NEW b \in Brokers, BrokerNext(b) PROVE RevertSteps
    BY <1>1, PassReverts, SupersedeReverts, FinalizeReverts DEF BrokerNext
<1>2. ASSUME NEW t \in Tasks, Submit(t) \/ Approve(t) \/ PostFindings(t) \/ Rework(t)
                              \/ ProducerEdits(t) \/ HumanBlocks(t) \/ HumanUnblocks(t)
                              \/ SyncHold(t)
      PROVE  RevertSteps
    BY <1>2, RevertStutter DEF Submit, Approve, PostFindings, Rework, ProducerEdits,
       HumanBlocks, HumanUnblocks, SyncHold
<1>3. ASSUME NEW b \in Brokers, CrashBroker(b) PROVE RevertSteps
    BY <1>3, DiesElsewhere, ElsewhereReverts DEF CrashBroker
<1>4. CASE CrashIntegrator
    BY <1>4, RevertStutter DEF CrashIntegrator, IntegratorDies, IntegratorIdle, MergePCs,
       RevertSteps
<1>6. CASE FailOverlay
    <2>1. CheckoutStep
        BY <1>6 DEF FailOverlay, CheckoutStep, IntegratorDies, IntegratorIdle, MergePCs
    <2> QED BY <1>6, <2>1, RevertStutter DEF FailOverlay, RevertSteps
<1>5. CASE UNCHANGED vars
    BY <1>5, RevertStutter DEF vars
<1> QED BY <1>1, <1>2, <1>3, <1>4, <1>5, <1>6, IntegratorReverts DEF Next, EnvironmentNext

-----------------------------------------------------------------------------
\* The checkout is the integrator's or that of one broker, whose revert is not
\* on the branch yet.
CheckoutShared ==
    /\ integ.pc \in MergePCs => checkout.op \in {"merge-head", "merge"}
    /\ \A b \in Brokers : At(b, "staged") =>
          /\ checkout.op = "revert" /\ RevertsOf(fin[b].commit) = {}
          /\ \A c \in Brokers : At(c, "staged") => c = b

\* What a broker supersedes is in its slot, or another broker archived it.
SupersedesRecorded ==
    \A b \in Brokers :
        /\ fin[b].pc \in SupersedePCs =>
              \/ tx[fin[b].task] # None /\ tx[fin[b].task].commit = fin[b].commit
              \/ \E h \in txHistory : h.commit = fin[b].commit
        /\ fin[b].pc \in RevertedPCs => RevertsOf(fin[b].commit) # {}
        /\ fin[b].pc \in AnnouncedPCs => fin[b].commit \in retracted

RevertInv == JournalInv /\ CheckoutShared /\ SupersedesRecorded /\ RevertedOnce

\* The reverts of commit c after the step.
RevertsNext(c) == {i \in (1 .. Tip)' : feature'[i].op = "revert" /\ feature'[i].of = c}

LEMMA RevertsGrow ==
    ASSUME TypeInv, FeatureStep, NEW c
    PROVE  /\ Tip \in Nat
           /\ RevertsOf(c) \subseteq RevertsNext(c)
           /\ \A i \in RevertsNext(c) :
                 \/ i \in RevertsOf(c)
                 \/ i = Tip + 1 /\ \E b \in Brokers : /\ At(b, "staged") /\ fin'[b].pc = "mark"
                                                     /\ c = fin[b].commit
<1>1. feature \in Seq(Commits) /\ Tip \in Nat
    BY DEF TypeInv, GitTypeOK, Tip
<1>2. CASE UNCHANGED feature
    BY <1>1, <1>2 DEF RevertsOf, RevertsNext, Tip
<1>3. ASSUME NEW d \in Commits, feature' = Append(feature, d),
             d.op = "revert" => \E b \in Brokers : /\ At(b, "staged") /\ fin'[b].pc = "mark"
                                                  /\ d.of = fin[b].commit
      PROVE  /\ RevertsOf(c) \subseteq RevertsNext(c)
             /\ \A i \in RevertsNext(c) :
                 \/ i \in RevertsOf(c)
                 \/ i = Tip + 1 /\ \E b \in Brokers : /\ At(b, "staged") /\ fin'[b].pc = "mark"
                                                     /\ c = fin[b].commit
    <2>1. Tip' = Tip + 1 /\ feature'[Tip + 1] = d
          /\ \A i \in 1 .. Tip : feature'[i] = feature[i]
        BY <1>1, <1>3 DEF Tip
    <2>2. RevertsOf(c) \subseteq RevertsNext(c)
        BY <1>1, <2>1 DEF RevertsOf, RevertsNext
    <2>3. ASSUME NEW i \in RevertsNext(c)
          PROVE  \/ i \in RevertsOf(c)
                 \/ i = Tip + 1 /\ \E b \in Brokers : /\ At(b, "staged") /\ fin'[b].pc = "mark"
                                                     /\ c = fin[b].commit
        <3>1. i \in 1 .. Tip + 1 /\ feature'[i].op = "revert" /\ feature'[i].of = c
            BY <2>1 DEF RevertsNext
        <3>2. CASE i \in 1 .. Tip
            BY <2>1, <3>1, <3>2 DEF RevertsOf
        <3>3. CASE i = Tip + 1
            BY <1>3, <2>1, <3>1, <3>3
        <3> QED BY <1>1, <3>1, <3>2, <3>3
    <2> QED BY <2>2, <2>3
<1> QED BY <1>1, <1>2, <1>3 DEF FeatureStep

LEMMA RevertInit == Init => RevertInv
BY JournalInit DEF Init, RevertInv, CheckoutShared, SupersedesRecorded, RevertedOnce, Tip,
   IntegratorIdle, BrokerIdle, At, MergePCs, SupersedePCs, RevertedPCs, AnnouncedPCs

LEMMA RevertStep == RevertInv /\ [Next]_vars => RevertInv'
<1> SUFFICES ASSUME RevertInv, [Next]_vars PROVE RevertInv'
    OBVIOUS
<1>1. TypeInv /\ TypeInv' /\ FeatureStep /\ TxStep /\ KeepStep /\ RevertSteps
    BY NextSteps, NextReverts, NextRecords, StepType
       DEF RevertInv, JournalInv, RecordInv, Steps, RecordSteps
<1>2. JournalInv'
    BY JournalStep DEF RevertInv
<1>3. CheckoutShared'
    <2>1. CASE /\ UNCHANGED checkout
               /\ integ'.pc \in MergePCs => integ.pc \in MergePCs \/ checkout.op = "merge"
               /\ \A b \in Brokers : StagedStill(b)
        <3>1. ASSUME NEW b \in Brokers, At(b, "staged")'
              PROVE  At(b, "staged") /\ fin'[b].commit = fin[b].commit
            BY <2>1, <3>1 DEF StagedStill, At
        <3>2. ASSUME NEW b \in Brokers, At(b, "staged")'
              PROVE  RevertsNext(fin[b].commit) = {}
            <4>1. \A c \in Brokers : At(c, "staged") => c = b
                BY <3>1, <3>2 DEF RevertInv, CheckoutShared
            <4>2. RevertsOf(fin[b].commit) = {}
                BY <3>1, <3>2 DEF RevertInv, CheckoutShared
            <4>3. fin'[b].pc = "staged"
                BY <3>2 DEF At
            <4> QED BY <1>1, <4>1, <4>2, <4>3, RevertsGrow
        <3>3. \A b \in Brokers : At(b, "staged")' => RevertsNext(fin'[b].commit) = {}
            BY <3>1, <3>2
        <3> QED BY <2>1, <3>1, <3>3
                DEF RevertInv, CheckoutShared, RevertsOf, RevertsNext, At
    <2>2. CASE /\ UNCHANGED fin
               /\ CheckoutClean \/ integ.pc \in MergePCs
               /\ integ'.pc \in MergePCs => checkout'.op \in {"merge-head", "merge"}
        <3>1. \A b \in Brokers : ~At(b, "staged")
            BY <2>2 DEF RevertInv, CheckoutShared, CheckoutClean
        <3> QED BY <2>2, <3>1 DEF CheckoutShared, At
    <2>3. CASE /\ UNCHANGED <<integ, feature>>
               /\ CheckoutClean /\ checkout'.op = "revert"
               /\ \E b \in Brokers : /\ RevertsOf(fin[b].commit) = {}
                                     /\ fin'[b].commit = fin[b].commit
                                     /\ \A c \in Brokers \ {b} : StagedStill(c)
        <3>1. PICK b \in Brokers : /\ RevertsOf(fin[b].commit) = {}
                                   /\ fin'[b].commit = fin[b].commit
                                   /\ \A c \in Brokers \ {b} : StagedStill(c)
            BY <2>3
        <3>2. integ.pc \notin MergePCs /\ \A c \in Brokers : ~At(c, "staged")
            BY <2>3 DEF RevertInv, CheckoutShared, CheckoutClean
        <3>3. \A c \in Brokers : At(c, "staged")' => c = b
            BY <3>1, <3>2 DEF StagedStill, At
        <3>4. RevertsNext(fin'[b].commit) = {}
            BY <2>3, <3>1 DEF RevertsOf, RevertsNext, Tip
        <3> QED BY <2>3, <3>2, <3>3, <3>4 DEF CheckoutShared, RevertsOf, RevertsNext, At
    <2>4. CASE /\ UNCHANGED integ
               /\ \E b \in Brokers : /\ At(b, "staged") /\ fin'[b].pc # "staged"
                                     /\ \A c \in Brokers \ {b} : StagedStill(c)
        <3>1. integ.pc \notin MergePCs
            BY <2>4 DEF RevertInv, CheckoutShared
        <3>2. \A c \in Brokers : fin'[c].pc # "staged"
            BY <2>4 DEF RevertInv, CheckoutShared, StagedStill, At
        <3> QED BY <2>4, <3>1, <3>2 DEF CheckoutShared, At
    <2> QED BY <1>1, <2>1, <2>2, <2>3, <2>4 DEF RevertSteps, CheckoutStep
<1>4. ASSUME NEW b \in Brokers, fin'[b].pc \in SupersedePCs
      PROVE  \/ tx'[fin'[b].task] # None /\ tx'[fin'[b].task].commit = fin'[b].commit
             \/ \E h \in txHistory' : h.commit = fin'[b].commit
    <2>1. CASE /\ fin[b].pc \in SupersedePCs
               /\ fin'[b].task = fin[b].task /\ fin'[b].commit = fin[b].commit
        <3>1. CASE \E h \in txHistory : h.commit = fin[b].commit
            BY <1>1, <2>1, <3>1 DEF KeepStep
        <3>2. CASE tx[fin[b].task] # None /\ tx[fin[b].task].commit = fin[b].commit
            <4>1. fin[b].task \in Tasks
                BY <1>1, <2>1 DEF TypeInv, FinOK, FinBound, SupersedePCs, RevertedPCs,
                   TaskPCs, BrokerPCs
            <4>2. ~(integ.pc = "verified" /\ fin[b].task = integ.prep.task)
                BY <3>2 DEF RevertInv, JournalInv, PreparationKept
            <4> QED BY <1>1, <2>1, <3>2, <4>1, <4>2 DEF KeepStep, SameTransaction
        <3> QED BY <2>1, <3>1, <3>2 DEF RevertInv, SupersedesRecorded
    <2> QED BY <1>1, <1>4, <2>1 DEF RevertSteps, SupersedeStep
<1>5. ASSUME NEW b \in Brokers, fin'[b].pc \in RevertedPCs
      PROVE  RevertsNext(fin'[b].commit) # {} /\ fin'[b].commit = fin[b].commit
    <2>1. fin'[b].commit = fin[b].commit
        BY <1>1, <1>5 DEF RevertSteps, SupersedeStep, SupersedePCs, RevertedPCs
    <2>2. CASE fin[b].pc \in RevertedPCs
        BY <1>1, <2>1, <2>2, RevertsGrow DEF RevertInv, SupersedesRecorded
    <2>3. CASE \E i \in (1 .. Tip)' : feature'[i].op = "revert" /\ feature'[i].of = fin[b].commit
        BY <2>1, <2>3 DEF RevertsNext
    <2> QED BY <1>1, <1>5, <2>2, <2>3 DEF RevertSteps, SupersedeStep
<1>6. ASSUME NEW b \in Brokers, fin'[b].pc \in AnnouncedPCs
      PROVE  fin'[b].commit \in retracted'
    <2>1. fin'[b].commit = fin[b].commit
        BY <1>5, <1>6 DEF AnnouncedPCs, RevertedPCs
    <2> QED BY <1>1, <1>6, <2>1
            DEF RevertSteps, SupersedeStep, HistoryStep, RevertInv, SupersedesRecorded
<1>7. SupersedesRecorded'
    BY <1>4, <1>5, <1>6 DEF SupersedesRecorded, RevertsOf, RevertsNext
<1>8. ASSUME NEW i \in (1 .. Tip)', NEW j \in (1 .. Tip)',
             feature'[i].op = "revert", feature'[j].op = "revert", feature'[i].of = feature'[j].of
      PROVE  i = j
    <2> DEFINE c == feature'[i].of
    <2>1. i \in RevertsNext(c) /\ j \in RevertsNext(c)
        BY <1>8 DEF RevertsNext
    <2>2. CASE RevertsOf(c) = {}
        BY <1>1, <2>1, <2>2, RevertsGrow
    <2>3. CASE \A b \in Brokers : At(b, "staged") => fin[b].commit # c
        <3>1. i \in RevertsOf(c) /\ j \in RevertsOf(c)
            BY <1>1, <2>1, <2>3, RevertsGrow
        <3> QED BY <3>1 DEF RevertInv, RevertedOnce, RevertsOf
    <2> QED BY <2>2, <2>3 DEF RevertInv, CheckoutShared
<1>9. ASSUME NEW h \in txHistory'
      PROVE  RevertsNext(h.commit) # {} /\ h.commit \in retracted'
    <2>1. CASE h \in txHistory
        BY <1>1, <2>1, RevertsGrow DEF RevertInv, RevertedOnce, RevertSteps, HistoryStep
    <2>2. ASSUME NEW b \in Brokers, At(b, "archive"), tx[fin[b].task] # None,
                 h = tx[fin[b].task], \A g \in txHistory : g.commit # fin[b].commit
          PROVE  RevertsNext(h.commit) # {} /\ h.commit \in retracted'
        <3>1. h.commit = fin[b].commit /\ RevertsOf(fin[b].commit) # {}
              /\ fin[b].commit \in retracted
            BY <2>2 DEF RevertInv, SupersedesRecorded, At, SupersedePCs, RevertedPCs,
               AnnouncedPCs
        <3> QED BY <1>1, <3>1, RevertsGrow DEF RevertSteps, HistoryStep
    <2> QED BY <1>1, <2>1, <2>2 DEF RevertSteps, HistoryStep
<1>10. RevertedOnce'
    BY <1>8, <1>9 DEF RevertedOnce, RevertsOf, RevertsNext
<1> QED BY <1>2, <1>3, <1>7, <1>10 DEF RevertInv

(* A recovered transaction is reverted exactly once, and every archived one *)
(* was reverted and announced before it left its slot, although two brokers *)
(* may supersede it at once.                                                *)
THEOREM RecoveredOnce == Spec => []RevertedOnce
<1>1. RevertInv => RevertedOnce
    BY DEF RevertInv
<1> QED BY <1>1, RevertInit, RevertStep, PTL DEF Spec

-----------------------------------------------------------------------------
(* The tracker says terminal only for what is on the branch.                *)

\* Between the validation that read a commit and the move to terminal; where a
\* recovery is open; and where the task of a recovery was reopened.
LandingPCs == TakingPCs \cup {"locked", "tracker", "moving", "writing"}
RecoveryPCs == {"revert", "staged"} \cup RevertedPCs \cup {"discard"}
ReopenedPCs == {"announce", "retire", "archive", "discard"}

\* Only a broker that has read the task in review makes it terminal.
StatusStep ==
    \A t \in Tasks : status'[t] = "terminal" =>
        \/ status[t] = "terminal"
        \/ /\ UNCHANGED <<feature, tx, recovery>>
           /\ \E b \in Brokers : At(b, "writing") /\ t = fin[b].task

\* A recovery leaves its file behind the transaction, and a transaction its
\* slot behind the revert.
RecoveryStep ==
    \A t \in Tasks : recovery[t] # None /\ recovery'[t] = None =>
        /\ UNCHANGED <<feature, tx, status>>
        /\ \E b \in Brokers : At(b, "discard") /\ t = fin[b].task /\ fin'[b].pc = "sort"

SlotStep ==
    \A t \in Tasks : tx[t] # None /\ tx'[t] = None =>
        \E b \in Brokers : At(b, "archive") /\ t = fin[b].task /\ fin'[b].pc = "discard"

\* A broker finalizes the commit that it validated, and each place of a
\* recovery is behind the effect that the place before it made.
PlaceStep ==
    \A b \in Brokers :
        /\ fin'[b].pc \in LandingPCs =>
              \/ /\ fin[b].pc \in LandingPCs
                 /\ fin'[b].task = fin[b].task /\ fin'[b].commit = fin[b].commit
              \/ /\ UNCHANGED tx
                 /\ \/ fin'[b].commit = 0
                    \/ /\ tx[fin'[b].task] # None
                       /\ tx[fin'[b].task].commit = fin'[b].commit
        /\ fin'[b].pc \in {"moving", "writing"} =>
              /\ fin'[b].commit = fin[b].commit
              /\ fin[b].pc \in {"moving", "writing"} \/ fin[b].commit # 0
        /\ fin'[b].pc \in RecoveryPCs =>
              /\ fin'[b].task = fin[b].task
              /\ fin[b].pc \in RecoveryPCs \/ recovery'[fin[b].task] # None
        /\ fin'[b].pc \in ReopenedPCs =>
              fin[b].pc \in ReopenedPCs \/ status'[fin[b].task] # "terminal"
        /\ fin'[b].pc = "discard" =>
              fin[b].pc = "discard" \/ tx'[fin[b].task] = None

\* The integrator's commit is a new one, or one it finds at the tip.
FoundStep ==
    integ'.pc \in {"landed", "verified"} =>
        \/ integ.pc \in {"landed", "verified"} /\ integ'.commit = integ.commit
        \/ /\ UNCHANGED <<tx, txHistory>>
           /\ \/ integ'.commit = Tip + 1
              \/ /\ integ.pc = "loaded" /\ AlreadyLanded(integ.prep)
                 /\ integ'.commit = Tip

TerminalSteps == StatusStep /\ RecoveryStep /\ SlotStep /\ PlaceStep /\ FoundStep

LEMMA TerminalStutter ==
    /\ UNCHANGED status => StatusStep
    /\ UNCHANGED recovery => RecoveryStep
    /\ UNCHANGED tx => SlotStep
    /\ UNCHANGED fin => PlaceStep
    /\ UNCHANGED integ => FoundStep
    /\ UNCHANGED <<status, recovery, tx, fin, integ>> => TerminalSteps
<1>1. UNCHANGED fin => PlaceStep
    BY DEF PlaceStep, LandingPCs, RecoveryPCs, ReopenedPCs
<1> QED BY <1>1 DEF TerminalSteps, StatusStep, RecoveryStep, SlotStep, FoundStep

\* A step of broker b that ends in none of these places.
Aside(b) ==
    /\ fin'[b].pc \notin LandingPCs \cup RecoveryPCs
    /\ \A c \in Brokers \ {b} : fin'[c] = fin[c]

LEMMA AsidePlace ==
    ASSUME NEW b \in Brokers, Aside(b)
    PROVE  PlaceStep
BY DEF Aside, PlaceStep, LandingPCs, RecoveryPCs, RevertedPCs, ReopenedPCs

LEMMA DiesAside ==
    ASSUME TypeInv, NEW b \in Brokers, BrokerDies(b)
    PROVE  PlaceStep
<1>1. Aside(b)
    BY DEF TypeInv, FinOK, BrokerDies, BrokerIdle, Aside, LandingPCs, TakingPCs, RecoveryPCs,
       RevertedPCs
<1> QED BY <1>1, AsidePlace

LEMMA GotoAside ==
    ASSUME TypeInv, NEW b \in Brokers, NEW pc, pc \notin LandingPCs \cup RecoveryPCs,
           BrokerGoto(b, pc)
    PROVE  PlaceStep
<1>1. Aside(b)
    BY GotoMoves DEF Aside
<1> QED BY <1>1, AsidePlace

\* Broker b goes on inside finalize_one, towards the move to terminal.
LEMMA GotoLanding ==
    ASSUME TypeInv, NEW b \in Brokers, NEW pc \in LandingPCs, BrokerGoto(b, pc),
           fin[b].pc \in LandingPCs,
           pc \in {"moving", "writing"} => fin[b].pc = "moving" \/ fin[b].commit # 0
    PROVE  PlaceStep
<1>1. pc \notin RecoveryPCs \cup ReopenedPCs
    BY DEF LandingPCs, TakingPCs, RecoveryPCs, RevertedPCs, ReopenedPCs
<1>2. /\ fin'[b].pc = pc /\ fin'[b].task = fin[b].task /\ fin'[b].commit = fin[b].commit
      /\ \A c \in Brokers \ {b} : fin'[c] = fin[c]
    BY GotoMoves
<1> QED BY <1>1, <1>2
        DEF PlaceStep, LandingPCs, RecoveryPCs, RevertedPCs, ReopenedPCs

\* Broker b goes on with its recovery.
LEMMA GotoRecovery ==
    ASSUME TypeInv, NEW b \in Brokers, NEW pc \in RecoveryPCs, BrokerGoto(b, pc),
           fin[b].pc \in RecoveryPCs \/ recovery'[fin[b].task] # None,
           pc \in ReopenedPCs => fin[b].pc \in ReopenedPCs \/ status'[fin[b].task] # "terminal",
           pc = "discard" => tx'[fin[b].task] = None
    PROVE  PlaceStep
<1>1. pc \notin LandingPCs
    BY DEF LandingPCs, TakingPCs, RecoveryPCs, RevertedPCs
<1>2. /\ fin'[b].pc = pc /\ fin'[b].task = fin[b].task /\ fin'[b].commit = fin[b].commit
      /\ \A c \in Brokers \ {b} : fin'[c] = fin[c]
    BY GotoMoves
<1>3. pc \notin {"moving", "writing"}
    BY DEF RecoveryPCs, RevertedPCs
<1>4. ASSUME NEW c \in Brokers \ {b}, fin'[c] = fin[c]
      PROVE  /\ fin'[c].pc \in LandingPCs =>
                  fin[c].pc \in LandingPCs /\ fin'[c].task = fin[c].task
                      /\ fin'[c].commit = fin[c].commit
             /\ fin'[c].pc \in {"moving", "writing"} =>
                  fin'[c].commit = fin[c].commit /\ fin[c].pc \in {"moving", "writing"}
             /\ fin'[c].pc \in RecoveryPCs =>
                  fin'[c].task = fin[c].task /\ fin[c].pc \in RecoveryPCs
             /\ fin'[c].pc \in ReopenedPCs => fin[c].pc \in ReopenedPCs
             /\ fin'[c].pc = "discard" => fin[c].pc = "discard"
    BY <1>4
<1> QED BY <1>1, <1>2, <1>3, <1>4 DEF PlaceStep

\* A recovery whose phase changes stays in its file.
LEMMA MarkedStays ==
    ASSUME TypeInv, NEW t \in Tasks, recovery[t] # None, NEW r \in Nat
    PROVE  /\ [recovery[t] EXCEPT !.phase = "reverted", !.revert = r] # None
           /\ [recovery[t] EXCEPT !.phase = "superseded"] # None
<1>1. recovery[t] \in Recoveries
    BY DEF TypeInv, JournalTypeOK
<1>2. [recovery[t] EXCEPT !.phase = "reverted", !.revert = r] \in Recoveries
    BY <1>1 DEF Recoveries
<1>3. [recovery[t] EXCEPT !.phase = "superseded"] \in Recoveries
    BY <1>1 DEF Recoveries
<1> QED BY <1>2, <1>3, NoneAssumption

LEMMA IntegratorTerminal ==
    ASSUME TypeInv, IntegratorNext
    PROVE  TerminalSteps
<1>0. integ \in IntegratorStates
    BY DEF TypeInv, IntegOK
<1>1. UNCHANGED <<status, recovery, fin>>
    BY DEF IntegratorNext, IntegratorContinues, Prepare, ResumeRecorded, Load, ValidateMerge,
       FailValidation, ExpireGrant, Locate, EstablishMerge, MaterializeOverlay, FenceCommit,
       CommitMerge, VerifyLanded, RecordTransaction, ArchivePreparation
<1>2. SlotStep
    <2>1. CASE UNCHANGED tx
        BY <2>1, TerminalStutter
    <2>2. CASE RecordTransaction
        <3> DEFINE x == [commit |-> integ.commit, attempt |-> integ.prep.attempt,
                         head |-> integ.prep.head, base |-> integ.prep.base,
                         phase |-> "awaiting-tracker"]
        <3>1. integ.prep \in Preparations /\ integ.commit \in Nat
            BY <1>0, <2>2 DEF RecordTransaction, TypeInv, IntegOK, IntegBound, IntegratorStates
        <3>2. x \in Transactions
            BY <3>1 DEF Transactions, Preparations, Phases
        <3>3. x # None
            BY <3>2, NoneAssumption
        <3>4. UNCHANGED tx \/ tx' = [tx EXCEPT ![integ.task] = x]
            BY <2>2 DEF RecordTransaction
        <3> HIDE DEF x
        <3> QED BY <3>3, <3>4 DEF SlotStep, TypeInv, JournalTypeOK
    <2> QED BY <2>1, <2>2 DEF IntegratorNext, IntegratorContinues, Prepare, ResumeRecorded,
            Load, ValidateMerge, FailValidation, ExpireGrant, Locate, EstablishMerge,
            MaterializeOverlay, FenceCommit, CommitMerge, VerifyLanded, ArchivePreparation
<1>3. FoundStep
    <2>1. CASE UNCHANGED integ \/ IntegratorDies
        BY <2>1, TerminalStutter DEF IntegratorDies, IntegratorIdle, FoundStep
    <2>2. ASSUME NEW t \in Tasks, Load(t) PROVE FoundStep
        BY <1>0, <2>2 DEF Load, FoundStep, IntegratorStates
    <2>3. ASSUME NEW pc, pc \notin {"landed", "verified"}, Goto(pc) PROVE FoundStep
        BY <2>3, GotoKeeps DEF FoundStep
    <2>4. CASE Locate
        <3>1. CASE AlreadyLanded(integ.prep) /\ integ' = [integ EXCEPT !.pc = "landed", !.commit = Tip]
            BY <1>0, <2>4, <3>1 DEF Locate, FoundStep, IntegratorStates
        <3> QED BY <2>1, <2>3, <2>4, <3>1 DEF Locate
    <2>5. CASE CommitMerge
        BY <1>0, <2>5 DEF CommitMerge, FoundStep, IntegratorStates
    <2>6. CASE VerifyLanded
        <3>1. CASE Goto("verified")
            BY <2>6, <3>1, GotoKeeps DEF VerifyLanded, FoundStep
        <3> QED BY <2>1, <2>6, <3>1 DEF VerifyLanded
    <2>7. CASE EstablishMerge \/ MaterializeOverlay \/ ValidateMerge \/ FenceCommit
               \/ RecordTransaction
        BY <2>1, <2>3, <2>7 DEF EstablishMerge, MaterializeOverlay, ValidateMerge, FenceCommit,
           RecordTransaction
    <2>8. CASE FailValidation \/ ExpireGrant \/ ArchivePreparation
        BY <2>1, <2>8 DEF FailValidation, ExpireGrant, ArchivePreparation
    <2>9. ASSUME NEW t \in Tasks, Prepare(t) \/ ResumeRecorded(t) PROVE FoundStep
        BY SMTT(60), <2>1, <2>9 DEF Prepare, ResumeRecorded
    <2> QED BY <2>2, <2>4, <2>5, <2>6, <2>7, <2>8, <2>9
            DEF IntegratorNext, IntegratorContinues
<1> QED BY <1>1, <1>2, <1>3, TerminalStutter DEF TerminalSteps

LEMMA PassTerminal ==
    ASSUME TypeInv, NEW b \in Brokers,
           BeginPass(b) \/ AuthorizePreparation(b) \/ ExportAndPrevalidate(b)
           \/ SortEntry(b) \/ SortDone(b)
    PROVE  TerminalSteps
<1>0. fin \in [Brokers -> BrokerStates]
    BY SMTT(60) DEF TypeInv, FinOK
<1>1. UNCHANGED <<status, recovery, tx, integ>>
    BY DEF BeginPass, AuthorizePreparation, ExportAndPrevalidate, SortEntry, SortDone
<1> SUFFICES PlaceStep
    BY <1>1, TerminalStutter DEF TerminalSteps
<1> USE DEF LandingPCs, TakingPCs, RecoveryPCs, RevertedPCs
<1>2. CASE BeginPass(b)
    <2>1. Aside(b)
        BY <1>0, <1>2 DEF BeginPass, BrokerStates, Aside
    <2> QED BY <2>1, AsidePlace
<1>3. CASE AuthorizePreparation(b)
    <2>1. PICK t \in fin[b].todo : BrokerDies(b) \/ fin' = [fin EXCEPT ![b].todo = @ \ {t}]
        BY <1>3 DEF AuthorizePreparation
    <2>2. CASE fin' = [fin EXCEPT ![b].todo = @ \ {t}]
        <3>1. Aside(b)
            BY <1>0, <1>3, <2>2 DEF AuthorizePreparation, At, BrokerStates, Aside
        <3> QED BY <3>1, AsidePlace
    <2> QED BY <2>1, <2>2, DiesAside
<1>4. CASE ExportAndPrevalidate(b)
    <2>1. CASE ~BrokerDies(b)
        <3>1. Aside(b)
            BY <1>0, <1>4, <2>1 DEF ExportAndPrevalidate, BrokerStates, Aside
        <3> QED BY <3>1, AsidePlace
    <2> QED BY <2>1, DiesAside
<1>5. CASE SortEntry(b)
    <2>1. PICK t \in fin[b].todo :
              \/ BrokerDies(b)
              \/ fin' = [fin EXCEPT ![b].pc = "journal", ![b].task = t,
                                    ![b].phase = tx[t].phase, ![b].commit = tx[t].commit,
                                    ![b].todo = @ \ {t}]
              \/ fin' = [fin EXCEPT ![b].todo = @ \ {t}, ![b].ready = @ \cup {t}]
        BY <1>5 DEF SortEntry
    <2>2. CASE fin' = [fin EXCEPT ![b].todo = @ \ {t}, ![b].ready = @ \cup {t}]
        <3>1. Aside(b)
            BY <1>0, <1>5, <2>2 DEF SortEntry, At, BrokerStates, Aside
        <3> QED BY <3>1, AsidePlace
    <2>3. CASE fin' = [fin EXCEPT ![b].pc = "journal", ![b].task = t,
                                  ![b].phase = tx[t].phase, ![b].commit = tx[t].commit,
                                  ![b].todo = @ \ {t}]
        <3>1. Aside(b)
            BY <1>0, <2>3 DEF BrokerStates, Aside
        <3> QED BY <3>1, AsidePlace
    <2> QED BY <2>1, <2>2, <2>3, DiesAside
<1>6. CASE SortDone(b)
    BY <1>6, GotoAside DEF SortDone
<1> QED BY <1>2, <1>3, <1>4, <1>5, <1>6

LEMMA SupersedeTerminal ==
    ASSUME TypeInv, NEW b \in Brokers, SupersedeNext(b)
    PROVE  TerminalSteps
<1>0. /\ fin \in [Brokers -> BrokerStates]
      /\ recovery \in [Tasks -> Recoveries \cup {None}]
      /\ tx \in [Tasks -> Transactions \cup {None}]
      /\ status \in [Tasks -> Statuses]
    BY SMTT(60) DEF TypeInv, FinOK, JournalTypeOK, TrackerTypeOK
<1>1. UNCHANGED integ
    BY DEF SupersedeNext, JournalRecovery, StageRevert, CommitRevert, AbortRevert,
       MarkReverted, ReopenTask, AnnounceSuperseded, RetireRecovery, ArchiveTransaction,
       ArchiveRecovery
<1>2. fin[b].task \in Tasks
    BY SMTT(60) DEF TypeInv, FinOK, FinBound, SupersedeNext, JournalRecovery, StageRevert,
       CommitRevert, AbortRevert, MarkReverted, ReopenTask, AnnounceSuperseded, RetireRecovery,
       ArchiveTransaction, ArchiveRecovery, At, TaskPCs, BrokerPCs
<1> USE DEF RecoveryPCs, RevertedPCs, ReopenedPCs
<1>3. CASE JournalRecovery(b)
    <2>1. UNCHANGED <<status, tx>>
        BY <1>3 DEF JournalRecovery
    <2> DEFINE r == [commit |-> fin[b].commit, txPhase |-> tx[fin[b].task].phase,
                     preHead |-> Tip, revert |-> 0, phase |-> "revert-prepared"]
    <2>2. CASE recovery[fin[b].task] = None /\ tx[fin[b].task] # None
               /\ recovery' = [recovery EXCEPT ![fin[b].task] = r] /\ BrokerGoto(b, "revert")
        <3>1. tx[fin[b].task].phase \in Phases /\ fin[b].commit \in Nat /\ Tip \in Nat
            <4>1. tx[fin[b].task] \in Transactions
                BY <1>0, <1>2, <2>2
            <4> QED BY <1>0, <4>1 DEF Transactions, BrokerStates, TypeInv, GitTypeOK, Tip
        <3>2. r \in Recoveries
            BY <3>1 DEF Recoveries
        <3>3. r # None
            BY <3>2, NoneAssumption
        <3> HIDE DEF r
        <3>4. recovery'[fin[b].task] # None /\ RecoveryStep
            BY <1>0, <1>2, <2>2, <3>3 DEF RecoveryStep
        <3>5. PlaceStep
            BY <2>2, <3>4, GotoRecovery
        <3> QED BY <1>1, <2>1, <3>4, <3>5, TerminalStutter DEF TerminalSteps
    <2>3. CASE recovery[fin[b].task] # None /\ BrokerGoto(b, "revert") /\ UNCHANGED recovery
        <3>1. PlaceStep
            BY <2>3, GotoRecovery
        <3> QED BY <1>1, <2>1, <2>3, <3>1, TerminalStutter DEF TerminalSteps
    <2>4. CASE BrokerDies(b) /\ UNCHANGED recovery
        BY <1>1, <2>1, <2>4, DiesAside, TerminalStutter DEF TerminalSteps
    <2> QED BY <1>3, <2>2, <2>3, <2>4 DEF JournalRecovery
<1>4. CASE StageRevert(b) \/ CommitRevert(b) \/ AbortRevert(b)
    <2>1. UNCHANGED <<status, recovery, tx>> /\ fin[b].pc \in RecoveryPCs
        BY <1>4 DEF StageRevert, CommitRevert, AbortRevert, At
    <2>2. BrokerDies(b) \/ BrokerGoto(b, "mark") \/ BrokerGoto(b, "staged")
        BY <1>4 DEF StageRevert, CommitRevert, AbortRevert
    <2>3. PlaceStep
        BY <2>1, <2>2, DiesAside, GotoRecovery
    <2> QED BY <1>1, <2>1, <2>3, TerminalStutter DEF TerminalSteps
<1>5. CASE MarkReverted(b)
    <2>1. UNCHANGED <<status, tx>> /\ fin[b].pc = "mark"
        BY <1>5 DEF MarkReverted, At
    <2>2. CASE BrokerDies(b) /\ UNCHANGED recovery
        BY <1>1, <2>1, <2>2, DiesAside, TerminalStutter DEF TerminalSteps
    <2>3. ASSUME NEW i \in RevertsOf(fin[b].commit), recovery[fin[b].task] # None,
                 recovery' = [recovery EXCEPT ![fin[b].task].phase = "reverted",
                                              ![fin[b].task].revert = i],
                 BrokerGoto(b, "reopen")
          PROVE  TerminalSteps
        <3>1. i \in Nat
            BY DEF RevertsOf, Tip
        <3>2. recovery'[fin[b].task] = [recovery[fin[b].task] EXCEPT !.phase = "reverted", !.revert = i]
              /\ \A t \in Tasks : t # fin[b].task => recovery'[t] = recovery[t]
            BY <1>0, <1>2, <2>3
        <3>3. RecoveryStep
            BY <1>2, <2>3, <3>1, <3>2, MarkedStays DEF RecoveryStep
        <3>4. PlaceStep
            BY <2>1, <2>3, GotoRecovery
        <3> QED BY <1>1, <2>1, <3>3, <3>4, TerminalStutter DEF TerminalSteps
    <2> QED BY <1>5, <2>2, <2>3 DEF MarkReverted, JournalOpen
<1>6. CASE ReopenTask(b)
    <2>1. UNCHANGED <<recovery, tx>> /\ fin[b].pc = "reopen"
        BY <1>6 DEF ReopenTask, At
    <2>2. CASE BrokerDies(b) /\ UNCHANGED status
        BY <1>1, <2>1, <2>2, DiesAside, TerminalStutter DEF TerminalSteps
    <2>3. CASE status' = [status EXCEPT ![fin[b].task] = "queued"] /\ BrokerGoto(b, "announce")
        <3>1. StatusStep /\ status'[fin[b].task] # "terminal"
            BY <1>0, <1>2, <2>3 DEF StatusStep
        <3>2. PlaceStep
            BY <2>1, <2>3, <3>1, GotoRecovery
        <3> QED BY <1>1, <2>1, <3>1, <3>2, TerminalStutter DEF TerminalSteps
    <2> QED BY <1>6, <2>2, <2>3 DEF ReopenTask
<1>7. CASE AnnounceSuperseded(b)
    <2>1. UNCHANGED <<status, recovery, tx>> /\ fin[b].pc = "announce"
          /\ (BrokerDies(b) \/ BrokerGoto(b, "retire"))
        BY <1>7 DEF AnnounceSuperseded, At
    <2>2. PlaceStep
        BY <2>1, DiesAside, GotoRecovery
    <2> QED BY <1>1, <2>1, <2>2, TerminalStutter DEF TerminalSteps
<1>8. CASE RetireRecovery(b)
    <2>1. UNCHANGED <<status, tx>> /\ fin[b].pc = "retire"
        BY <1>8 DEF RetireRecovery, At
    <2>2. CASE BrokerDies(b) /\ UNCHANGED recovery
        BY <1>1, <2>1, <2>2, DiesAside, TerminalStutter DEF TerminalSteps
    <2>3. CASE recovery[fin[b].task] # None /\ BrokerGoto(b, "archive")
               /\ recovery' = [recovery EXCEPT ![fin[b].task].phase = "superseded"]
        <3>1. [recovery[fin[b].task] EXCEPT !.phase = "superseded"] # None
            BY <1>2, <2>3, MarkedStays
        <3>2. RecoveryStep
            BY <1>0, <1>2, <2>3, <3>1 DEF RecoveryStep
        <3>3. PlaceStep
            BY <2>1, <2>3, GotoRecovery
        <3> QED BY <1>1, <2>1, <3>2, <3>3, TerminalStutter DEF TerminalSteps
    <2> QED BY <1>8, <2>2, <2>3 DEF RetireRecovery, JournalOpen
<1>9. CASE ArchiveTransaction(b)
    <2>1. UNCHANGED <<status, recovery>> /\ At(b, "archive")
        BY <1>9 DEF ArchiveTransaction
    <2>2. CASE BrokerDies(b) /\ UNCHANGED tx
        BY <1>1, <2>1, <2>2, DiesAside, TerminalStutter DEF TerminalSteps
    <2>3. CASE tx' = [tx EXCEPT ![fin[b].task] = None] /\ BrokerGoto(b, "discard")
        <3>1. fin'[b].pc = "discard"
            BY <2>3, GotoMoves
        <3>2. SlotStep /\ tx'[fin[b].task] = None
            BY <1>0, <1>2, <2>1, <2>3, <3>1 DEF SlotStep
        <3>3. PlaceStep
            BY <2>1, <2>3, <3>2, GotoRecovery DEF At
        <3> QED BY <1>1, <2>1, <3>2, <3>3, TerminalStutter DEF TerminalSteps
    <2> QED BY <1>9, <2>2, <2>3 DEF ArchiveTransaction
<1>10. CASE ArchiveRecovery(b)
    <2>1. UNCHANGED <<feature, status, tx>> /\ At(b, "discard")
        BY <1>10 DEF ArchiveRecovery
    <2>2. CASE BrokerDies(b) /\ UNCHANGED recovery
        BY <1>1, <2>1, <2>2, DiesAside, TerminalStutter DEF TerminalSteps
    <2>3. CASE /\ recovery' = [recovery EXCEPT ![fin[b].task] = None]
               /\ fin' = [fin EXCEPT ![b].pc = "sort", ![b].task = None,
                                     ![b].phase = "none", ![b].commit = 0]
        <3>1. fin'[b].pc = "sort" /\ \A c \in Brokers \ {b} : fin'[c] = fin[c]
            BY <1>0, <2>3 DEF BrokerStates
        <3>2. RecoveryStep
            BY <1>0, <1>2, <2>1, <2>3, <3>1 DEF RecoveryStep
        <3>3. Aside(b)
            BY <3>1 DEF Aside, LandingPCs, TakingPCs
        <3> QED BY <1>1, <2>1, <3>2, <3>3, AsidePlace, TerminalStutter DEF TerminalSteps
    <2> QED BY <1>10, <2>2, <2>3 DEF ArchiveRecovery
<1> QED BY <1>3, <1>4, <1>5, <1>6, <1>7, <1>8, <1>9, <1>10 DEF SupersedeNext

\* A phase is written into a transaction that stays in its slot.
TxKept == \A t \in Tasks : tx[t] # None => tx'[t] # None

LEMMA AdvanceKeeps ==
    ASSUME TypeInv, NEW b \in Brokers, NEW from, NEW to \in Phases, NEW next,
           AdvancePhase(b, from, to, next)
    PROVE  TxKept
<1>1. CASE UNCHANGED tx
    BY <1>1 DEF TxKept
<1>2. CASE tx[fin[b].task] # None /\ tx' = [tx EXCEPT ![fin[b].task].phase = to]
    <2>1. ASSUME NEW t \in Tasks, tx[t] # None PROVE tx'[t] # None
        <3>1. tx[t] \in Transactions
            BY <2>1 DEF TypeInv, JournalTypeOK
        <3>2. [tx[t] EXCEPT !.phase = to] \in Transactions
            BY <3>1 DEF Transactions
        <3>3. [tx[t] EXCEPT !.phase = to] # None
            BY <3>2, NoneAssumption
        <3>4. CASE t = fin[b].task
            BY <1>2, <3>3, <3>4 DEF TypeInv, JournalTypeOK
        <3>5. CASE t # fin[b].task
            BY <1>2, <2>1, <3>5 DEF TypeInv, JournalTypeOK
        <3> QED BY <3>4, <3>5
    <2> QED BY <2>1 DEF TxKept
<1> QED BY <1>1, <1>2 DEF AdvancePhase

LEMMA FinalizeTerminal ==
    ASSUME TypeInv, NEW b \in Brokers, FinalizeNext(b)
    PROVE  TerminalSteps
<1>0. /\ fin \in [Brokers -> BrokerStates]
      /\ tx \in [Tasks -> Transactions \cup {None}]
      /\ status \in [Tasks -> Statuses]
    BY SMTT(60) DEF TypeInv, FinOK, JournalTypeOK, TrackerTypeOK
<1>1. UNCHANGED <<recovery, integ>>
    BY DEF FinalizeNext, TakeTransactionLock, ContinueTaking, FinalizeDone, Revalidate,
       FenceTracker, ReadForTerminal, MoveToTerminal, CommentIntegrated, TrackerFinalized,
       FindEvent, EmitEvent, EventEmitted, CleanupWorktree, CompleteTransaction,
       ReleaseTransactionLock
<1> USE DEF LandingPCs, TakingPCs, RecoveryPCs, RevertedPCs
<1>2. CASE TakeTransactionLock(b)
    <2>1. UNCHANGED <<status, tx>> /\ At(b, "finalize") /\ fin[b].ready \subseteq Tasks
        BY <1>0, <1>2 DEF TakeTransactionLock, BrokerStates
    <2>2. PICK t \in fin[b].ready :
              \/ fin' = [fin EXCEPT ![b].ready = @ \ {t}]
              \/ BrokerDies(b)
              \/ \E pc \in {"own", "remove-owner"} :
                    \/ fin' = [fin EXCEPT ![b].pc = pc, ![b].task = t, ![b].commit = 0]
                    \/ /\ tx[t] # None
                       /\ fin' = [fin EXCEPT ![b].pc = pc, ![b].task = t,
                                             ![b].commit = tx[t].commit]
        BY ZenonT(60), <1>2 DEF TakeTransactionLock, ValidAgainst, ValidEntry
    <2>3. CASE fin' = [fin EXCEPT ![b].ready = @ \ {t}]
        <3>1. Aside(b)
            BY <1>0, <2>1, <2>3 DEF At, BrokerStates, Aside
        <3> QED BY <1>1, <2>1, <3>1, AsidePlace, TerminalStutter DEF TerminalSteps
    <2>4. ASSUME NEW pc \in {"own", "remove-owner"}, NEW c,
                 c = 0 \/ (tx[t] # None /\ c = tx[t].commit),
                 fin' = [fin EXCEPT ![b].pc = pc, ![b].task = t, ![b].commit = c]
          PROVE  TerminalSteps
        <3>1. /\ fin'[b].pc = pc /\ fin'[b].task = t /\ fin'[b].commit = c
              /\ \A d \in Brokers \ {b} : fin'[d] = fin[d]
            BY <1>0, <2>4 DEF BrokerStates
        <3>2. PlaceStep
            BY <2>1, <2>4, <3>1 DEF PlaceStep, ReopenedPCs
        <3> QED BY <1>1, <2>1, <3>2, TerminalStutter DEF TerminalSteps
    <2> QED BY SMTT(60), <1>1, <2>1, <2>2, <2>3, <2>4, DiesAside, TerminalStutter DEF TerminalSteps
<1>3. CASE ContinueTaking(b) \/ FinalizeDone(b) \/ FenceTracker(b) \/ ReadForTerminal(b)
    <2>1. UNCHANGED <<status, tx>>
        BY <1>3 DEF ContinueTaking, FinalizeDone, FenceTracker, ReadForTerminal
    <2>2. PlaceStep
        BY <1>3, DiesAside, GotoAside, GotoLanding
           DEF ContinueTaking, RemoveOwner, ChangeLock, FinalizeDone, FenceTracker,
               ReadForTerminal, At
    <2> QED BY <1>1, <2>1, <2>2, TerminalStutter DEF TerminalSteps
<1>4. CASE Revalidate(b)
    <2>1. UNCHANGED <<status, tx>> /\ fin[b].pc = "locked"
        BY <1>4 DEF Revalidate, At
    <2>2. ASSUME NEW pc \in {"release", "tracker"}, NEW x,
                 \/ fin' = [fin EXCEPT ![b].phase = x, ![b].pc = pc]
                 \/ fin' = [fin EXCEPT ![b].pc = pc, ![b].phase = x]
          PROVE  PlaceStep
        <3>1. /\ fin'[b].pc = pc /\ fin'[b].task = fin[b].task /\ fin'[b].commit = fin[b].commit
              /\ \A d \in Brokers \ {b} : fin'[d] = fin[d]
            BY <1>0, <2>2 DEF BrokerStates
        <3> QED BY <2>1, <2>2, <3>1 DEF PlaceStep, ReopenedPCs
    <2>3. PlaceStep
        BY <1>4, <2>2, DiesAside DEF Revalidate
    <2> QED BY <1>1, <2>1, <2>3, TerminalStutter DEF TerminalSteps
<1>5. CASE MoveToTerminal(b)
    <2>1. UNCHANGED <<feature, tx>> /\ At(b, "writing")
        BY <1>5 DEF MoveToTerminal
    <2>2. PlaceStep
        BY <1>5, DiesAside, GotoAside DEF MoveToTerminal
    <2>3. StatusStep
        BY <1>0, <1>1, <1>5, <2>1 DEF MoveToTerminal, StatusStep
    <2> QED BY <1>1, <2>1, <2>2, <2>3, TerminalStutter DEF TerminalSteps
<1>6. CASE CommentIntegrated(b) \/ FindEvent(b) \/ EmitEvent(b) \/ CleanupWorktree(b)
    <2>1. UNCHANGED <<status, tx>> /\ AfterEvent(b) \notin LandingPCs \cup RecoveryPCs
        BY <1>6 DEF CommentIntegrated, FindEvent, EmitEvent, CleanupWorktree, AfterEvent
    <2>2. PlaceStep
        BY <1>6, <2>1, DiesAside, GotoAside
           DEF CommentIntegrated, FindEvent, EmitEvent, CleanupWorktree
    <2> QED BY <1>1, <2>1, <2>2, TerminalStutter DEF TerminalSteps
<1>7. CASE TrackerFinalized(b) \/ EventEmitted(b) \/ CompleteTransaction(b)
    <2>1. UNCHANGED status
        BY <1>7 DEF TrackerFinalized, EventEmitted, CompleteTransaction
    <2>2. ASSUME NEW x, NEW pc \in {"event", "cleanup", "release"},
                 fin' = [fin EXCEPT ![b].phase = x, ![b].pc = pc]
          PROVE  Aside(b)
        BY <1>0, <2>2 DEF BrokerStates, Aside
    <2>3. PlaceStep
        BY <1>7, <2>2, DiesAside, AsidePlace
           DEF TrackerFinalized, EventEmitted, CompleteTransaction, AdvancePhase
    <2>4. TxKept
        BY <1>7, AdvanceKeeps DEF TrackerFinalized, EventEmitted, CompleteTransaction, Phases
    <2> QED BY <1>1, <2>1, <2>3, <2>4, TerminalStutter DEF TxKept, SlotStep, TerminalSteps
<1>8. CASE ReleaseTransactionLock(b)
    <2>1. UNCHANGED <<status, tx>>
        BY <1>8 DEF ReleaseTransactionLock
    <2>2. ASSUME fin' = [fin EXCEPT ![b].pc = "finalize", ![b].task = None,
                                    ![b].phase = "none", ![b].commit = 0,
                                    ![b].ready = @ \ {fin[b].task}]
          PROVE  Aside(b)
        BY <1>0, <2>2 DEF BrokerStates, Aside
    <2>3. PlaceStep
        BY <1>8, <2>2, GotoAside, DiesAside, AsidePlace DEF ReleaseTransactionLock, RemoveOwner
    <2> QED BY <1>1, <2>1, <2>3, TerminalStutter DEF TerminalSteps
<1> QED BY <1>2, <1>3, <1>4, <1>5, <1>6, <1>7, <1>8 DEF FinalizeNext

LEMMA NextTerminal ==
    ASSUME TypeInv, [Next]_vars
    PROVE  TerminalSteps
<1>1. ASSUME NEW b \in Brokers, BrokerNext(b) PROVE TerminalSteps
    BY <1>1, PassTerminal, SupersedeTerminal, FinalizeTerminal DEF BrokerNext
<1>2. ASSUME NEW t \in Tasks, Submit(t) \/ PostFindings(t) \/ Rework(t) \/ HumanBlocks(t)
                              \/ HumanUnblocks(t)
      PROVE  TerminalSteps
    <2>1. status' = status \/ \E s \in Statuses \ {"terminal"} : status' = [status EXCEPT ![t] = s]
        BY <1>2 DEF Submit, PostFindings, Rework, HumanBlocks, HumanUnblocks, Statuses
    <2>2. StatusStep
        BY <2>1 DEF StatusStep, TypeInv, TrackerTypeOK
    <2> QED BY <1>2, <2>2, TerminalStutter DEF Submit, PostFindings, Rework, HumanBlocks,
            HumanUnblocks, TerminalSteps
<1>3. ASSUME NEW t \in Tasks, Approve(t) \/ ProducerEdits(t) \/ SyncHold(t) PROVE TerminalSteps
    BY <1>3, TerminalStutter DEF Approve, ProducerEdits, SyncHold
<1>4. ASSUME NEW b \in Brokers, CrashBroker(b) PROVE TerminalSteps
    BY <1>4, DiesAside, TerminalStutter DEF CrashBroker, TerminalSteps
<1>5. CASE CrashIntegrator \/ FailOverlay
    BY <1>5, TerminalStutter DEF CrashIntegrator, FailOverlay, IntegratorDies, IntegratorIdle, FoundStep,
       TerminalSteps
<1>6. CASE UNCHANGED vars
    BY <1>6, TerminalStutter DEF vars
<1> QED BY <1>1, <1>2, <1>3, <1>4, <1>5, <1>6, IntegratorTerminal DEF Next, EnvironmentNext

-----------------------------------------------------------------------------
\* A broker moves to terminal the task of the transaction that it validated.
FinalizesOwn ==
    \A b \in Brokers :
        /\ fin[b].pc \in LandingPCs /\ fin[b].commit # 0 =>
              tx[fin[b].task] # None /\ tx[fin[b].task].commit = fin[b].commit
        /\ fin[b].pc \in {"moving", "writing"} => fin[b].commit # 0

\* A recovery is in its file while a broker works on it, its transaction until
\* that is archived; the task stays reopened, and a transaction that the
\* integrator records meanwhile is of another commit.
RecoveryHeld ==
    \A b \in Brokers :
        /\ fin[b].pc \in RecoveryPCs => recovery[fin[b].task] # None
        /\ fin[b].pc \in SupersedePCs =>
              tx[fin[b].task] # None /\ tx[fin[b].task].commit = fin[b].commit
        /\ fin[b].pc \in ReopenedPCs => status[fin[b].task] # "terminal"
        /\ fin[b].pc = "discard" /\ tx[fin[b].task] # None =>
              RevertsOf(tx[fin[b].task].commit) = {}

\* Only what was recorded is reverted, and what the integrator has found or
\* made is not recorded before it records it.
RevertsRecorded ==
    \A i \in 1 .. Tip : feature[i].op = "revert" =>
        feature[i].of < i /\ Recorded(feature[i].of)

FoundUnrecorded == integ.pc \in {"landed", "verified"} => ~Recorded(integ.commit)

\* A transaction outside a recovery has not been reverted.
SlotUnreverted ==
    \A t \in Tasks : tx[t] # None /\ recovery[t] = None => RevertsOf(tx[t].commit) = {}

TerminalInv ==
    /\ RevertInv /\ FinalizesOwn /\ RecoveryHeld /\ RevertsRecorded /\ FoundUnrecorded
    /\ SlotUnreverted /\ TerminalBacked

\* A broker that supersedes the integration of a task, from the revert to the
\* archive, is alone at work on that task: the brokers of the dispatcher and of
\* release-feature.py may otherwise run together.
RecoversAlone ==
    \A b, c \in Brokers : fin[b].pc \in RecoveryPCs /\ fin[c].task = fin[b].task => b = c

LEMMA RecordedMerge ==
    ASSUME RecordedOnPreparedBase, NEW i, Recorded(i)
    PROVE  i \in Merges
BY DEF RecordedOnPreparedBase, RecordsItsCommit, Recorded

\* Commit i is recorded after the step.  Only the integrator records one.
RecordedNext(i) ==
    \/ \E t \in Tasks : tx'[t] # None /\ tx'[t].commit = i
    \/ \E h \in txHistory' : h.commit = i

LEMMA RecordedBefore ==
    ASSUME TxStep, NEW i, RecordedNext(i)
    PROVE  \/ Recorded(i)
           \/ integ.pc = "verified" /\ integ'.pc = "recorded" /\ i = integ.commit
<1>1. ASSUME NEW h \in txHistory', h.commit = i PROVE Recorded(i)
    BY <1>1 DEF TxStep, Recorded
<1>2. ASSUME NEW t \in Tasks, tx'[t] # None, tx'[t].commit = i
      PROVE  \/ Recorded(i)
             \/ integ.pc = "verified" /\ integ'.pc = "recorded" /\ i = integ.commit
    BY <1>2 DEF TxStep, SameTransaction, Recorded
<1> QED BY <1>1, <1>2 DEF RecordedNext

LEMMA TerminalInit == Init => TerminalInv
BY RevertInit DEF Init, TerminalInv, FinalizesOwn, RecoveryHeld, RevertsRecorded,
   FoundUnrecorded, SlotUnreverted, TerminalBacked, Tip, IntegratorIdle, BrokerIdle, At,
   LandingPCs, TakingPCs, RecoveryPCs, SupersedePCs, RevertedPCs, ReopenedPCs

LEMMA TerminalStep ==
    ASSUME RecoversAlone, TerminalInv, [Next]_vars
    PROVE  TerminalInv'
<1>1. /\ TypeInv /\ TypeInv' /\ FeatureStep /\ TxStep /\ KeepStep /\ TerminalSteps
      /\ SupersedeStep /\ HistoryStep /\ RecordedOnPreparedBase
    BY NextSteps, NextReverts, NextRecords, NextTerminal, StepType
       DEF TerminalInv, RevertInv, JournalInv, RecordInv, Steps, RecordSteps, RevertSteps
<1>2. RevertInv'
    BY RevertStep DEF TerminalInv
<1>3. /\ 1 .. Tip \subseteq (1 .. Tip)' /\ Merges \subseteq Merges'
      /\ \A i \in 1 .. Tip : feature'[i] = feature[i]
    BY <1>1, BranchGrows
<1>4. \A i : Recorded(i) => Recorded(i)'
    BY <1>1, RecordedStays DEF TerminalInv, RevertInv, JournalInv, PreparationKept
\* A transaction in its slot stays there, but for the broker that archives it.
<1>5. ASSUME NEW t \in Tasks, tx[t] # None,
             \A b \in Brokers : ~(At(b, "archive") /\ t = fin[b].task /\ fin'[b].pc = "discard")
      PROVE  tx'[t] # None /\ tx'[t].commit = tx[t].commit
    <2>1. tx'[t] # None
        BY <1>1, <1>5 DEF TerminalSteps, SlotStep
    <2>2. ~(integ.pc = "verified" /\ t = integ.prep.task)
        BY <1>5 DEF TerminalInv, RevertInv, JournalInv, PreparationKept
    <2> QED BY <1>1, <1>5, <2>1, <2>2 DEF KeepStep, SameTransaction
\* A commit with no reverts gets one only from a broker that holds its recovery.
<1>6. ASSUME NEW c, RevertsOf(c) = {}, RevertsNext(c) # {}
      PROVE  \E b \in Brokers :
                /\ At(b, "staged") /\ fin'[b].pc = "mark" /\ c = fin[b].commit
                /\ fin[b].task \in Tasks /\ recovery[fin[b].task] # None
                /\ recovery'[fin[b].task] # None /\ Recorded(c)
                /\ c \in Merges /\ feature[c].task = fin[b].task
    <2>1. PICK b \in Brokers : /\ At(b, "staged") /\ fin'[b].pc = "mark" /\ c = fin[b].commit
        BY <1>1, <1>6, RevertsGrow
    <2>2. fin[b].task \in Tasks
        BY <1>1, <2>1 DEF At, TypeInv, FinOK, FinBound, TaskPCs, BrokerPCs
    <2>3. recovery[fin[b].task] # None
          /\ tx[fin[b].task] # None /\ tx[fin[b].task].commit = c
        BY <2>1 DEF At, TerminalInv, RecoveryHeld, RecoveryPCs, SupersedePCs
    <2>4. recovery'[fin[b].task] # None
        BY <1>1, <2>1, <2>2, <2>3 DEF RecoversAlone, RecoveryPCs, At, TerminalSteps, RecoveryStep
    <2>5. Recorded(c) /\ c \in Merges /\ feature[c].task = fin[b].task
        BY <1>1, <2>2, <2>3 DEF Recorded, RecordedOnPreparedBase, RecordsItsCommit
    <2> QED BY <2>1, <2>2, <2>3, <2>4, <2>5
<1>7. ASSUME NEW t \in Tasks, tx'[t] # None, recovery'[t] = None
      PROVE  RevertsNext(tx'[t].commit) = {}
    <2> DEFINE c == tx'[t].commit
    <2>1. CASE tx[t] # None /\ SameTransaction(tx'[t], tx[t])
        <3>1. c = tx[t].commit
            BY <2>1 DEF SameTransaction
        <3>2. RevertsOf(c) = {}
            <4>1. CASE recovery[t] = None
                BY <2>1, <3>1, <4>1 DEF TerminalInv, SlotUnreverted
            <4>2. CASE recovery[t] # None
                <5>1. PICK b \in Brokers : At(b, "discard") /\ t = fin[b].task
                    BY <1>1, <1>7, <4>2 DEF TerminalSteps, RecoveryStep
                <5> QED BY <2>1, <3>1, <5>1 DEF TerminalInv, RecoveryHeld, At
            <4> QED BY <4>1, <4>2
        <3>3. c \in Merges /\ feature[c].task = t
            BY <1>1, <2>1, <3>1 DEF RecordedOnPreparedBase, RecordsItsCommit
        <3> QED BY <1>6, <1>7, <3>2, <3>3
    <2>2. CASE integ.pc = "verified" /\ c = integ.commit
        <3>1. ~Recorded(c)
            BY <2>2 DEF TerminalInv, FoundUnrecorded
        <3>2. RevertsOf(c) = {}
            BY <3>1 DEF RevertsOf, TerminalInv, RevertsRecorded
        <3> QED BY <1>6, <3>1, <3>2
    <2> QED BY <1>1, <1>7, <2>1, <2>2 DEF TxStep
<1>8. SlotUnreverted'
    BY <1>7 DEF SlotUnreverted, RevertsOf, RevertsNext
<1>9. ASSUME NEW b \in Brokers, fin'[b].pc \in LandingPCs, fin'[b].commit # 0
      PROVE  tx'[fin'[b].task] # None /\ tx'[fin'[b].task].commit = fin'[b].commit
    <2>1. CASE /\ fin[b].pc \in LandingPCs
               /\ fin'[b].task = fin[b].task /\ fin'[b].commit = fin[b].commit
        <3>1. tx[fin[b].task] # None /\ tx[fin[b].task].commit = fin[b].commit
            BY <1>9, <2>1 DEF TerminalInv, FinalizesOwn
        <3>2. fin[b].task \in Tasks
            BY <1>1, <2>1 DEF TypeInv, FinOK, FinBound, LandingPCs, TakingPCs, TaskPCs,
               BrokerPCs, LockedPCs
        <3>3. \A c \in Brokers : ~(At(c, "archive") /\ fin[c].task = fin[b].task)
            BY <2>1 DEF RecoversAlone, RecoveryPCs, RevertedPCs, At, LandingPCs, TakingPCs
        <3> QED BY <1>5, <2>1, <3>1, <3>2, <3>3
    <2> QED BY <1>1, <1>9, <2>1 DEF TerminalSteps, PlaceStep
<1>10. FinalizesOwn'
    <2>1. ASSUME NEW b \in Brokers, fin'[b].pc \in {"moving", "writing"}
          PROVE  fin'[b].commit # 0
        BY <1>1, <2>1 DEF TerminalSteps, PlaceStep, TerminalInv, FinalizesOwn
    <2> QED BY <1>9, <2>1 DEF FinalizesOwn
<1>11. ASSUME NEW b \in Brokers, fin'[b].pc \in RecoveryPCs
       PROVE  recovery'[fin'[b].task] # None
    <2>1. fin'[b].task = fin[b].task
        BY <1>1, <1>11 DEF TerminalSteps, PlaceStep
    <2>2. CASE fin[b].pc \in RecoveryPCs
        <3>1. recovery[fin[b].task] # None
            BY <2>2 DEF TerminalInv, RecoveryHeld
        <3>2. fin[b].task \in Tasks
            BY <1>1, <2>2 DEF TypeInv, FinOK, FinBound, RecoveryPCs, RevertedPCs, TaskPCs,
               BrokerPCs
        <3>3. \A c \in Brokers : fin[c].task = fin[b].task => fin'[c].pc # "sort"
            BY <1>11, <2>2 DEF RecoversAlone, RecoveryPCs, RevertedPCs
        <3> QED BY <1>1, <2>1, <3>1, <3>2, <3>3 DEF TerminalSteps, RecoveryStep
    <2> QED BY <1>1, <1>11, <2>1, <2>2 DEF TerminalSteps, PlaceStep
<1>12. ASSUME NEW b \in Brokers, fin'[b].pc \in SupersedePCs
       PROVE  tx'[fin'[b].task] # None /\ tx'[fin'[b].task].commit = fin'[b].commit
    <2>1. CASE /\ fin[b].pc \in SupersedePCs
               /\ fin'[b].task = fin[b].task /\ fin'[b].commit = fin[b].commit
        <3>1. tx[fin[b].task] # None /\ tx[fin[b].task].commit = fin[b].commit
            BY <2>1 DEF TerminalInv, RecoveryHeld
        <3>2. fin[b].task \in Tasks
            BY <1>1, <2>1 DEF TypeInv, FinOK, FinBound, SupersedePCs, RevertedPCs, TaskPCs,
               BrokerPCs
        <3>3. \A c \in Brokers :
                 At(c, "archive") /\ fin[c].task = fin[b].task => fin'[c].pc # "discard"
            BY <1>12 DEF RecoversAlone, RecoveryPCs, At, SupersedePCs, RevertedPCs
        <3> QED BY <1>5, <2>1, <3>1, <3>2, <3>3
    <2> QED BY <1>1, <1>12, <2>1 DEF SupersedeStep
<1>13. ASSUME NEW b \in Brokers, fin'[b].pc \in ReopenedPCs
       PROVE  status'[fin'[b].task] # "terminal"
    <2>1. fin'[b].task = fin[b].task
        BY <1>1, <1>13 DEF TerminalSteps, PlaceStep, ReopenedPCs, RecoveryPCs, RevertedPCs
    <2>2. CASE fin[b].pc \in ReopenedPCs
        <3>1. status[fin[b].task] # "terminal"
            BY <2>2 DEF TerminalInv, RecoveryHeld
        <3>2. fin[b].task \in Tasks
            BY <1>1, <2>2 DEF TypeInv, FinOK, FinBound, ReopenedPCs, TaskPCs, BrokerPCs
        <3>3. \A c \in Brokers : ~(At(c, "writing") /\ fin[c].task = fin[b].task)
            BY <2>2 DEF RecoversAlone, RecoveryPCs, RevertedPCs, At, ReopenedPCs
        <3> QED BY <1>1, <2>1, <3>1, <3>2, <3>3 DEF TerminalSteps, StatusStep
    <2> QED BY <1>1, <1>13, <2>1, <2>2 DEF TerminalSteps, PlaceStep
<1>14. ASSUME NEW b \in Brokers, fin'[b].pc = "discard", tx'[fin'[b].task] # None
       PROVE  RevertsNext(tx'[fin'[b].task].commit) = {}
    <2> DEFINE t == fin[b].task
    <2> DEFINE c == tx'[t].commit
    <2>1. fin'[b].task = t /\ fin[b].pc = "discard"
        BY <1>1, <1>14 DEF TerminalSteps, PlaceStep, RecoveryPCs
    <2>2. t \in Tasks
        BY <1>1, <2>1 DEF TypeInv, FinOK, FinBound, TaskPCs, BrokerPCs
    <2>3. CASE tx[t] # None /\ SameTransaction(tx'[t], tx[t])
        <3>1. RevertsOf(c) = {}
            BY <2>1, <2>3 DEF SameTransaction, TerminalInv, RecoveryHeld
        <3>2. feature[c].task = t
            BY <1>1, <2>2, <2>3 DEF SameTransaction, RecordedOnPreparedBase
        <3>3. \A d \in Brokers : ~(At(d, "staged") /\ fin[d].task = t)
            BY <2>1 DEF RecoversAlone, RecoveryPCs, At
        <3> QED BY <1>6, <2>1, <3>1, <3>2, <3>3
    <2>4. CASE integ.pc = "verified" /\ c = integ.commit
        <3>1. RevertsOf(c) = {} /\ ~Recorded(c)
            BY <2>4 DEF RevertsOf, TerminalInv, RevertsRecorded, FoundUnrecorded
        <3> QED BY <1>6, <2>1, <3>1
    <2> QED BY <1>1, <1>14, <2>1, <2>2, <2>3, <2>4 DEF TxStep
<1>15. RecoveryHeld'
    BY <1>11, <1>12, <1>13, <1>14 DEF RecoveryHeld, RevertsOf, RevertsNext
<1>16. ASSUME NEW i \in (1 .. Tip)', feature'[i].op = "revert"
       PROVE  feature'[i].of < i /\ Recorded(feature'[i].of)
    <2> DEFINE c == feature'[i].of
    <2>1. i \in RevertsNext(c)
        BY <1>16 DEF RevertsNext
    <2>2. CASE i \in RevertsOf(c)
        <3>1. i \in 1 .. Tip /\ feature[i].op = "revert" /\ feature[i].of = c
            BY <2>2 DEF RevertsOf
        <3> QED BY <3>1 DEF TerminalInv, RevertsRecorded
    <2>3. ASSUME NEW b \in Brokers, i = Tip + 1, At(b, "staged"), c = fin[b].commit
          PROVE  c < i /\ Recorded(c)
        <3>1. tx[fin[b].task] # None /\ tx[fin[b].task].commit = c
            BY <2>3 DEF At, TerminalInv, RecoveryHeld, SupersedePCs
        <3>2. fin[b].task \in Tasks
            BY <1>1, <2>3 DEF At, TypeInv, FinOK, FinBound, TaskPCs, BrokerPCs
        <3>3. Recorded(c)
            BY <3>1, <3>2 DEF Recorded
        <3>4. c \in Merges /\ Tip \in Nat
            BY <1>1, <3>3, RecordedMerge, RevertsGrow
        <3> QED BY <2>3, <3>3, <3>4 DEF Merges
    <2> QED BY <1>1, <2>1, <2>2, <2>3, RevertsGrow
<1>17. RevertsRecorded'
    BY <1>4, <1>16 DEF RevertsRecorded, Recorded
<1>18. ASSUME integ'.pc \in {"landed", "verified"}, RecordedNext(integ'.commit)
       PROVE  FALSE
    <2> DEFINE c == integ'.commit
    <2>1. Recorded(c)
        BY <1>1, <1>18, RecordedBefore
    <2>2. c \in Merges /\ Tip \in Nat
        BY <1>1, <2>1, RecordedMerge, RevertsGrow
    <2>3. CASE integ.pc \in {"landed", "verified"} /\ c = integ.commit
        BY <2>1, <2>3 DEF TerminalInv, FoundUnrecorded
    <2>4. CASE c = Tip + 1
        BY <2>2, <2>4 DEF Merges
    <2>5. CASE integ.pc = "loaded" /\ AlreadyLanded(integ.prep) /\ c = Tip
        <3>1. feature[c].task = integ.prep.task /\ tx[integ.prep.task] = None
            BY <2>5 DEF AlreadyLanded, TerminalInv, RevertInv, JournalInv, PreparationKept
        <3>2. ASSUME NEW t \in Tasks, tx[t] # None, tx[t].commit = c PROVE FALSE
            BY <1>1, <3>1, <3>2 DEF RecordedOnPreparedBase
        <3>3. ASSUME NEW h \in txHistory, h.commit = c PROVE FALSE
            <4>1. PICK i \in 1 .. Tip : feature[i].op = "revert" /\ feature[i].of = c
                BY <3>3 DEF TerminalInv, RevertInv, RevertedOnce, RevertsOf
            <4> QED BY <2>2, <2>5, <4>1 DEF TerminalInv, RevertsRecorded
        <3> QED BY <2>1, <3>2, <3>3 DEF Recorded
    <2> QED BY <1>1, <1>18, <2>3, <2>4, <2>5 DEF TerminalSteps, FoundStep
<1>19. FoundUnrecorded'
    BY <1>18 DEF FoundUnrecorded, Recorded, RecordedNext
<1>20. ASSUME NEW t \in Tasks, status'[t] = "terminal", recovery'[t] = None
       PROVE  \E i \in Merges' : feature'[i].task = t /\ RevertsNext(i) = {}
    <2>1. CASE status[t] = "terminal"
        <3>1. recovery[t] = None
            <4>1. ASSUME recovery[t] # None PROVE FALSE
                <5>1. PICK b \in Brokers : At(b, "discard") /\ t = fin[b].task
                    BY <1>1, <1>20, <4>1 DEF TerminalSteps, RecoveryStep
                <5> QED BY <2>1, <5>1 DEF TerminalInv, RecoveryHeld, At, ReopenedPCs
            <4> QED BY <4>1
        <3>2. PICK i \in Merges : feature[i].task = t /\ RevertsOf(i) = {}
            BY <2>1, <3>1 DEF TerminalInv, TerminalBacked
        <3>3. RevertsNext(i) = {}
            BY <1>6, <1>20, <3>2
        <3> QED BY <1>3, <3>2, <3>3 DEF Merges
    <2>2. ASSUME NEW b \in Brokers, At(b, "writing"), t = fin[b].task,
                 UNCHANGED <<feature, tx, recovery>>
          PROVE  \E i \in Merges' : feature'[i].task = t /\ RevertsNext(i) = {}
        <3>1. tx[t] # None
            BY <2>2 DEF At, TerminalInv, FinalizesOwn, LandingPCs
        <3>2. tx[t].commit \in Merges /\ feature[tx[t].commit].task = t
            BY <1>1, <3>1 DEF RecordedOnPreparedBase, RecordsItsCommit
        <3>3. RevertsOf(tx[t].commit) = {}
            BY <1>20, <2>2, <3>1 DEF TerminalInv, SlotUnreverted
        <3> QED BY <2>2, <3>2, <3>3 DEF Merges, Tip, RevertsOf, RevertsNext
    <2> QED BY <1>1, <1>20, <2>1, <2>2 DEF TerminalSteps, StatusStep
<1>21. TerminalBacked'
    BY <1>20 DEF TerminalBacked, RevertsOf, RevertsNext
<1> QED BY <1>2, <1>8, <1>10, <1>15, <1>17, <1>19, <1>21 DEF TerminalInv

(* However many brokers run, the tracker says terminal only for a task whose *)
(* integration is on the branch and not reverted, or whose recovery is still *)
(* open, as long as no broker works on a task beside one that supersedes its *)
(* integration: supersede_one holds no lock.                                 *)
THEOREM TerminalStands == Spec /\ []RecoversAlone => []TerminalBacked
<1>1. TerminalInv => TerminalBacked
    BY DEF TerminalInv
<1>2. RecoversAlone /\ TerminalInv /\ [Next]_vars => TerminalInv'
    BY TerminalStep
<1> QED BY <1>1, <1>2, TerminalInit, PTL DEF Spec
=============================================================================
