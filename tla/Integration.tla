---------------------------- MODULE Integration ----------------------------
(***************************************************************************)
(* The integrator, the brokers and everything that acts around them on one *)
(* feature: producers and reviewers, the human who owns [Blocked], the     *)
(* dispatcher's hold sync and claims, and crashes.                         *)
(***************************************************************************)
EXTENDS Integrator, Finalizer

CONSTANT Releaser   \* the broker run by release-feature.py, or no broker

\* The dispatcher's own steps and its broker run in one process.
DispatcherIdle == \A b \in Brokers \ {Releaser} : At(b, "idle")

Init ==
    /\ feature = <<>> /\ checkout = Clean
    /\ branch = [t \in Tasks |-> 0] /\ worktree = [t \in Tasks |-> "clean"]
    /\ status = [t \in Tasks |-> "working"]
    /\ review = [t \in Tasks |-> NoSight.review]
    /\ approvals = [t \in Tasks |-> {}]
    /\ noted = {} /\ retracted = {}
    /\ attempt = [t \in Tasks |-> 1] /\ held = [t \in Tasks |-> FALSE]
    /\ prep = [t \in Tasks |-> None] /\ prepHistory = {}
    /\ tx = [t \in Tasks |-> None] /\ txHistory = {}
    /\ recovery = [t \in Tasks |-> None] /\ events = <<>>
    /\ lock = [t \in Tasks |-> None]
    /\ integ = IntegratorIdle /\ fin = [b \in Brokers |-> BrokerIdle]
    /\ budget = [kill |-> MaxIntegratorCrashes, brokerKill |-> MaxBrokerCrashes,
                 edit |-> MaxEdits, block |-> MaxBlocks, finding |-> MaxFindings]

Spend(what) == budget[what] > 0 /\ budget' = [budget EXCEPT ![what] = @ - 1]

-----------------------------------------------------------------------------
(* Producers, reviewers and humans, through the tracker and their worktrees *)

\* A checkpoint commit, or none, and the [review-request] for it.
Submit(t) ==
    /\ status[t] = "working" /\ Unheld(t) /\ worktree[t] = "clean"
    /\ \E h \in {branch[t], branch[t] + 1} :
          /\ h \in 1 .. MaxHead
          /\ branch' = [branch EXCEPT ![t] = h]
          /\ review' = [review EXCEPT ![t] =
                 [attempt |-> attempt[t], head |-> h, verdict |-> "requested"]]
    /\ status' = [status EXCEPT ![t] = "review"]
    /\ UNCHANGED <<feature, checkout, worktree, approvals, noted, retracted,
                   attempt, held, journalVars, integ, fin, budget>>

\* All required approvals of the current round are on the board.
Approve(t) ==
    /\ status[t] = "review" /\ review[t].verdict = "requested"
    /\ review' = [review EXCEPT ![t].verdict = "approved"]
    /\ approvals' = [approvals EXCEPT ![t] =
           @ \cup {[attempt |-> review[t].attempt, head |-> review[t].head]}]
    /\ UNCHANGED <<gitVars, status, noted, retracted, attempt, held,
                   journalVars, integ, fin, budget>>

\* [review-findings], with the move back to queued or still without it.
PostFindings(t) ==
    /\ review[t].verdict \in {"requested", "approved"}
    /\ status[t] \in {"review", "terminal"}
    /\ review' = [review EXCEPT ![t].verdict = "findings"]
    /\ \/ status[t] = "review" /\ status' = [status EXCEPT ![t] = "queued"]
       \/ UNCHANGED status
    /\ Spend("finding")
    /\ UNCHANGED <<gitVars, approvals, noted, retracted, attempt, held,
                   journalVars, integ, fin>>

\* The dispatcher claims the queued task and launches its next attempt.  In
\* --watch mode dispatch_once runs on the left of ||, so a broker that failed
\* does not end the pass before its claims.
Rework(t) ==
    /\ DispatcherIdle
    /\ status[t] = "queued" /\ Unheld(t) /\ attempt[t] < MaxAttempt
    /\ status' = [status EXCEPT ![t] = "working"]
    /\ attempt' = [attempt EXCEPT ![t] = @ + 1]
    /\ worktree' = [worktree EXCEPT ![t] = "clean"]
    /\ UNCHANGED <<feature, checkout, branch, review, approvals, noted,
                   retracted, held, journalVars, integ, fin, budget>>

\* The producer is untrusted: it may still write to its worktree and branch.
ProducerEdits(t) ==
    /\ \/ /\ worktree[t] = "clean" /\ worktree' = [worktree EXCEPT ![t] = "dirty"]
          /\ UNCHANGED branch
       \/ /\ worktree[t] = "dirty" /\ worktree' = [worktree EXCEPT ![t] = "clean"]
          /\ branch' \in {branch, [branch EXCEPT ![t] = @ + 1]}
          /\ branch'[t] <= MaxHead
    /\ Spend("edit")
    /\ UNCHANGED <<feature, checkout, trackerVars, attempt, held, journalVars,
                   integ, fin>>

HumanBlocks(t) ==
    /\ status[t] \in {"queued", "working", "review"}
    /\ status' = [status EXCEPT ![t] = "blocked"]
    /\ Spend("block")
    /\ UNCHANGED <<gitVars, review, approvals, noted, retracted, attempt, held,
                   journalVars, integ, fin>>

HumanUnblocks(t) ==
    /\ status[t] = "blocked"
    /\ \E s \in {"queued", "working", "review"} : status' = [status EXCEPT ![t] = s]
    /\ UNCHANGED <<gitVars, review, approvals, noted, retracted, attempt, held,
                   journalVars, integ, fin, budget>>

\* task-hold.py sync holds a blocked task.  What the resume review asks for before
\* it releases the hold is not modelled: it may be released once nothing is blocked.
SyncHold(t) ==
    /\ DispatcherIdle
    /\ \/ status[t] = "blocked" /\ ~held[t] /\ held' = [held EXCEPT ![t] = TRUE]
       \/ status[t] # "blocked" /\ held[t] /\ held' = [held EXCEPT ![t] = FALSE]
    /\ UNCHANGED <<gitVars, trackerVars, attempt, journalVars, integ, fin, budget>>

CrashIntegrator ==
    /\ integ.pc # "idle" /\ IntegratorDies
    /\ Spend("kill")
    /\ UNCHANGED <<gitVars, trackerVars, attempt, held, journalVars, fin>>

\* The read-tree fails and the merge is aborted: it counts as a kill.
FailOverlay ==
    /\ integ.pc = "merging" /\ checkout' = Clean /\ IntegratorDies
    /\ Spend("kill")
    /\ UNCHANGED <<feature, branch, worktree, trackerVars, attempt, held,
                   journalVars, fin>>

CrashBroker(b) ==
    /\ ~At(b, "idle") /\ BrokerDies(b)
    /\ Spend("brokerKill")
    /\ UNCHANGED <<gitVars, trackerVars, attempt, held, journalVars, integ>>

\* release-feature.py runs the broker once every task is terminal.
MayRun(b) == b = Releaser => (At(b, "idle") => \A t \in Tasks : status[t] = "terminal")

EnvironmentNext ==
    \/ \E t \in Tasks : \/ Submit(t) \/ Approve(t) \/ PostFindings(t) \/ Rework(t)
                        \/ ProducerEdits(t) \/ HumanBlocks(t) \/ HumanUnblocks(t)
                        \/ SyncHold(t)
    \/ CrashIntegrator \/ FailOverlay
    \/ \E b \in Brokers : CrashBroker(b)

Next ==
    \/ IntegratorNext
    \/ \E b \in Brokers : MayRun(b) /\ BrokerNext(b)
    \/ EnvironmentNext

Spec == Init /\ [][Next]_vars

\* dispatch.sh --watch runs a broker pass again and again, the integrator role
\* is started again while a task waits for it, and the producer and the
\* reviewers do their part.  Validation of a tree that can pass does pass, if
\* it is run often enough.
Fairness ==
    /\ \A t \in Tasks : /\ WF_vars(Submit(t)) /\ WF_vars(Approve(t))
                        /\ SF_vars(Rework(t)) /\ SF_vars(SyncHold(t))
                        /\ SF_vars(Prepare(t)) /\ SF_vars(Load(t))
    /\ WF_vars(IntegratorContinues) /\ SF_vars(ValidateMerge)
    /\ \A b \in Brokers : WF_vars(MayRun(b) /\ BrokerNext(b)) /\ SF_vars(CommitRevert(b))

FairSpec == Spec /\ Fairness

-----------------------------------------------------------------------------
(* Type invariant: every journal, tracker field and program counter keeps   *)
(* the shape its readers parse.                                             *)
GitTypeOK ==
    /\ feature \in Seq(Commits) /\ checkout \in Checkouts
    /\ branch \in [Tasks -> Nat] /\ worktree \in [Tasks -> Worktrees]

TrackerTypeOK ==
    /\ status \in [Tasks -> Statuses] /\ review \in [Tasks -> Reviews]
    /\ approvals \in [Tasks -> SUBSET [attempt : Nat, head : Nat]]
    /\ noted \subseteq Nat /\ retracted \subseteq Nat

JournalTypeOK ==
    /\ attempt \in [Tasks -> Nat] /\ held \in [Tasks -> BOOLEAN]
    /\ prep \in [Tasks -> Preparations \cup {None}] /\ prepHistory \subseteq Preparations
    /\ tx \in [Tasks -> Transactions \cup {None}] /\ txHistory \subseteq Transactions
    /\ recovery \in [Tasks -> Recoveries \cup {None}]
    /\ events \in Seq(Nat) /\ lock \in [Tasks -> Brokers \cup {None, Ownerless}]

ProcessTypeOK ==
    /\ integ \in IntegratorStates /\ fin \in [Brokers -> BrokerStates]
    /\ budget \in [kill : Nat, brokerKill : Nat, edit : Nat, block : Nat, finding : Nat]

TypeOK == GitTypeOK /\ TrackerTypeOK /\ JournalTypeOK /\ ProcessTypeOK

Merges == {i \in 1 .. Tip : feature[i].op = "merge"}

(* No integration commit is ever on the feature branch without a durable    *)
(* record that names it: its preparation while the integrator is between    *)
(* the commit and the transaction, then the transaction, then the archive.  *)
LandedIsJournaled ==
    \A i \in Merges :
        \/ \E t \in Tasks : prep[t] # None /\ PrepId(prep[t]) = PrepId(feature[i])
        \/ \E t \in Tasks : tx[t] # None /\ tx[t].commit = i
        \/ \E h \in txHistory : h.commit = i

(* A transaction, current or archived, names a two-parent commit on the     *)
(* base it was prepared against, with the round that was prepared.          *)
RecordsItsCommit(x) ==
    /\ x.commit \in Merges /\ x.commit = x.base + 1
    /\ feature[x.commit].base = x.base
    /\ feature[x.commit].attempt = x.attempt /\ feature[x.commit].head = x.head

RecordedOnPreparedBase ==
    /\ \A t \in Tasks : tx[t] # None => /\ RecordsItsCommit(tx[t])
                                        /\ feature[tx[t].commit].task = t
    /\ \A h \in txHistory : RecordsItsCommit(h)

(* Only a round whose approvals were complete lands, and only after the     *)
(* broker authorized its preparation.                                       *)
OnlyAuthorizedLands ==
    \A i \in Merges :
        /\ feature[i].grant # None
        /\ [attempt |-> feature[i].attempt, head |-> feature[i].head]
               \in approvals[feature[i].task]

(* A reviewed head of a task lands at most once, whatever crashes, resumes  *)
(* and reworks there are.                                                   *)
LandsOnce ==
    \A i, j \in Merges :
        feature[i].task = feature[j].task /\ feature[i].head = feature[j].head => i = j

(* A recovered transaction is reverted exactly once, and every archived     *)
(* transaction was reverted and announced before it left its slot.          *)
RevertedOnce ==
    /\ \A i, j \in 1 .. Tip :
          feature[i].op = "revert" /\ feature[j].op = "revert"
              /\ feature[i].of = feature[j].of => i = j
    /\ \A h \in txHistory : RevertsOf(h.commit) # {} /\ h.commit \in retracted

(* The tracker says terminal only for a task whose integration is on the    *)
(* feature branch, not reverted, or whose recovery is still open.           *)
TerminalBacked ==
    \A t \in Tasks : status[t] = "terminal" =>
        \/ recovery[t] # None
        \/ \E i \in Merges : feature[i].task = t /\ RevertsOf(i) = {}

(* Each phase of a transaction stands for an effect that happened: the      *)
(* tracker comment before tracker-finalized, the event before event-emitted.*)
PhasesEarned ==
    \A t \in Tasks : tx[t] # None =>
        /\ tx[t].phase # "awaiting-tracker" => tx[t].commit \in noted
        /\ tx[t].phase \in {"event-emitted", "completed"} =>
               tx[t].commit \in Range(events)

(* Late findings supersede: a recorded integration with findings posted     *)
(* after its request leaves its slot, with a revert on the feature branch.  *)
LateFindingsSupersede ==
    \A t \in Tasks : tx[t] # None /\ review[t].verdict = "findings"
                        ~> tx[t] = None /\ CheckoutClean

(* What else may go wrong than late findings: a kill, an edit of the worktree, a block. *)
Disturbed ==
    \/ budget.kill < MaxIntegratorCrashes \/ budget.brokerKill < MaxBrokerCrashes
    \/ budget.edit < MaxEdits \/ budget.block < MaxBlocks

(* Undisturbed, a recorded integration is completed, or superseded by findings. *)
RecordedCompletes ==
    \A t \in Tasks :
        tx[t] # None /\ EvidenceCurrent(review[t], tx[t].attempt, tx[t].head)
            ~> \/ tx[t] # None /\ tx[t].phase = "completed"
               \/ review[t].verdict # "approved" \/ Disturbed

(* An approved round of a head that has not landed yet lands, unless the    *)
(* preparation of an earlier round is still in its slot: its integration is *)
(* recorded, or findings or a new request take the approval back.           *)
LandedAt(t, h) == {i \in Merges : feature[i].task = t /\ feature[i].head = h}

MayLand(t) ==
    /\ review[t].verdict = "approved" /\ LandedAt(t, review[t].head) = {}
    /\ prep[t] # None => prep[t].attempt = review[t].attempt /\ prep[t].head = review[t].head

ApprovedLands ==
    \A t \in Tasks : MayLand(t) ~> tx[t] # None \/ review[t].verdict # "approved" \/ Disturbed

-----------------------------------------------------------------------------
(* What the documents and messages of the repository say, and the code does *)
(* not do.                                                                  *)

(* "Before any Git mutation the script durably records a prepared intent    *)
(* binding the integration parent": every integration commit has the parent *)
(* it was prepared against.                                                 *)
CommittedOnPreparedBase == \A i \in Merges : feature[i].base = i - 1

(* "task became held/Blocked during integration validation; merge safely    *)
(* aborted before commit": an integrator that stopped leaves no merge open. *)
StoppedMergeAborted == integ.pc = "idle" => checkout.op \notin {"merge-head", "merge"}

(* "Revalidate after taking the transaction lock; the producer is           *)
(* untrusted": no tracker write follows a revalidation that failed.         *)
RevalidationFences ==
    \A b \in Brokers : fin[b].pc \in {"moving", "writing", "commenting"} => fin[b].phase # "none"

(* "transaction lock is live or malformed" ends a pass: one broker at a     *)
(* time is between taking and releasing the transaction lock of a task.     *)
OneFinalizer ==
    \A b, c \in Brokers :
        /\ fin[b].pc \in LockedPCs /\ fin[c].pc \in LockedPCs
        /\ fin[b].task = fin[c].task
        => b = c

(* "Before production release, a later legitimate finding causes the        *)
(* deterministic broker to ... commit a validated revert": whatever landed  *)
(* is reverted once findings are posted for its round.                      *)
LandedFindingsReverted ==
    \A t \in Tasks, h \in 1 .. MaxHead :
        review[t].verdict = "findings" /\ review[t].head = h /\ LandedAt(t, h) # {}
            ~> \A i \in LandedAt(t, h) : RevertsOf(i) # {}
=============================================================================
