---------------------------- MODULE OutboxProofs ----------------------------
(***************************************************************************)
(* Outbox implements Publication, and its journal is true: for any set of    *)
(* brokers and entries, any bounds and any places at which brokers are       *)
(* killed.  Of the locks only the broker authority is used; the lock         *)
(* directories of entries, which two brokers may both come to own, are not.  *)
(* What a broker checked still holds when it acts on it, in two theorems as  *)
(* long as no broker runs beside it: those of the last part.                 *)
(***************************************************************************)
EXTENDS Outbox, TLAPS

\* What holds of a broker by its place: it works on an entry, it has the authority at a
\* tracker effect, no hold is in the way there, and what is behind it has happened.
AtWork(b) ==
    /\ br[b].pc \notin {"idle", "next"} => Cur(b) \in Entries
    /\ br[b].pc \in {"refresh", "prepare", "bind"} => br[b].round \in 1 .. Rounds

Authorities(b) ==
    /\ br[b].pc \in {"bind", "exists", "post", "set"} => authority = b
    /\ br[b].pc \in {"exists", "post", "set"} => ~Held(hold)
    /\ br[b].pc = "post" => comments[Cur(b)] = 0

Behind(b) ==
    /\ br[b].pc \in {"commented", "refresh-move", "move", "set", "moved", "refresh-event",
                     "event", "published"} => comments[Cur(b)] = 1
    /\ br[b].pc \in {"refresh-move", "move", "set", "moved"} => HasTarget(Cur(b))
    /\ br[b].pc \in {"moved", "refresh-event", "event", "published"} /\ HasTarget(Cur(b))
           => Cur(b) \in moved
    /\ br[b].pc = "published" => Cur(b) \in events
    /\ br[b].pc = "receipt" => delivery[Cur(b)].phase = "published"
    /\ br[b].pc = "archive" => Cur(b) \in receipts

Placed(b) == AtWork(b) /\ Authorities(b) /\ Behind(b)

IInv == JournalTruth /\ PostedOnce /\ \A b \in Brokers : Placed(b)

BrokerType == [pc : BrokerPCs, todo : SUBSET Entries, cur : Entries \cup {NoEntry},
               round : 0 .. Rounds + 1, phase : Phases]

EntryType == [state : {"unsent", "signed", "pending", "done", "failed"}, gen : Nat, attempt : Nat]
DeliveryType == [phase : Phases, body : {"none", "written", "bound"}, head : Nat]

LEMMA MarkerFacts ==
    ASSUME NEW e \in Entries
    PROVE  /\ Lane(e) \in Lanes
           /\ HasTarget(e) => Target(e) \in Statuses
BY OutboxConstants DEF Lane, Lanes, HasTarget, Target, Markers, Statuses

LEMMA InitInv == Init => IInv
BY OutboxConstants
   DEF Init, IInv, Placed, JournalTruth, PostedOnce, TypeOK, AtWork, Authorities, Behind,
       Statuses, Holds, HoldStates, Lanes, Phases, BrokerPCs, BrokerIdle, NoEntry, Nobody,
       Absent, Rounds, Cur

\* What a step may do to the brokers that do not take it.
Respects(c) ==
    /\ br'[c] = br[c]
    /\ authority = c => authority' = c /\ hold' = hold /\ comments' = comments
    /\ \A e \in Entries : comments[e] = 1 => comments'[e] = 1
    /\ moved \subseteq moved' /\ events \subseteq events' /\ receipts \subseteq receipts'
    /\ \A e \in Entries : delivery[e].phase = "published" => delivery'[e].phase = "published"

LEMMA OthersKeep ==
    ASSUME IInv, NEW c \in Brokers, Respects(c)
    PROVE  Placed(c)'
BY DEF IInv, Respects, Placed, AtWork, Authorities, Behind, Cur, HasTarget, Target

-----------------------------------------------------------------------------
(* A step of a broker that leaves the world, the queue and the effects alone. *)

Quiet(b) ==
    /\ UNCHANGED <<worldVars, queueVars, effectVars>>
    /\ lock' \in [Entries -> Brokers \cup {Absent, Ownerless, Dead}]
    /\ budget' \in [{"blocks", "heads", "outages", "crashes"} -> Nat]
    /\ \/ authority' = authority
       \/ authority = b /\ authority' = Nobody
       \/ authority = Nobody /\ authority' = b
    /\ \E r \in BrokerType : br' = [br EXCEPT ![b] = r]

LEMMA QuietKeeps ==
    ASSUME IInv, NEW b \in Brokers, Quiet(b), Placed(b)'
    PROVE  IInv'
<1>1. TypeOK'
  BY DEF IInv, JournalTruth, TypeOK, Quiet, BrokerType, worldVars, queueVars, effectVars
<1>2. JournalTruth' /\ PostedOnce'
  BY <1>1 DEF IInv, JournalTruth, PostedOnce, Quiet, worldVars, queueVars, effectVars, HasTarget,
              Target
<1>3. ASSUME NEW c \in Brokers \ {b} PROVE Respects(c)
  BY OutboxConstants
     DEF IInv, JournalTruth, TypeOK, Quiet, Respects, worldVars, queueVars, effectVars, Nobody
<1> QED BY <1>2, <1>3, OthersKeep DEF IInv

\* Where a step of broker b can leave it.
LEMMA BrokerFacts ==
    ASSUME TypeOK, NEW b \in Brokers
    PROVE  /\ br[b] \in BrokerType
           /\ BrokerIdle \in BrokerType
           /\ \A pc \in BrokerPCs : [br[b] EXCEPT !.pc = pc] \in BrokerType
           /\ [BrokerIdle EXCEPT !.pc = "next", !.todo = br[b].todo] \in BrokerType
<1>1. br[b] \in BrokerType
  BY DEF TypeOK, BrokerType
<1>2. BrokerIdle \in BrokerType
  BY DEF BrokerIdle, BrokerType, BrokerPCs, NoEntry, Phases, Rounds
<1>3. \A pc \in BrokerPCs : [br[b] EXCEPT !.pc = pc] \in BrokerType
  BY <1>1 DEF BrokerType
<1>4. "next" \in BrokerPCs /\ br[b].todo \in SUBSET Entries
  BY <1>1 DEF BrokerPCs, BrokerType
<1>5. [BrokerIdle EXCEPT !.pc = "next", !.todo = br[b].todo] \in BrokerType
  BY <1>2, <1>4 DEF BrokerType
<1> QED BY <1>1, <1>2, <1>3, <1>5

LEMMA GotoFacts ==
    ASSUME TypeOK, NEW b \in Brokers, NEW pc \in BrokerPCs, Goto(b, pc)
    PROVE  /\ \E r \in BrokerType : br' = [br EXCEPT ![b] = r]
           /\ br'[b] = [br[b] EXCEPT !.pc = pc]
           /\ br'[b].pc = pc /\ br'[b].cur = br[b].cur /\ br'[b].round = br[b].round
           /\ br'[b].phase = br[b].phase
<1>1. br' = [br EXCEPT ![b] = [br[b] EXCEPT !.pc = pc]] /\ br \in [Brokers -> BrokerType]
  BY DEF Goto, TypeOK, BrokerType
<1> QED BY <1>1, BrokerFacts DEF BrokerType

LEMMA ContinueFacts ==
    ASSUME TypeOK, NEW b \in Brokers, Continue(b)
    PROVE  (\E r \in BrokerType : br' = [br EXCEPT ![b] = r]) /\ br'[b].pc = "next"
<1>1. br \in [Brokers -> BrokerType]
  BY DEF TypeOK, BrokerType
<1>2. br' = [br EXCEPT ![b] = [BrokerIdle EXCEPT !.pc = "next", !.todo = br[b].todo]]
  BY DEF Continue
<1>3. br'[b] = [BrokerIdle EXCEPT !.pc = "next", !.todo = br[b].todo]
  BY <1>1, <1>2
<1> QED BY <1>2, <1>3, BrokerFacts DEF BrokerIdle

LEMMA DiesFacts ==
    ASSUME TypeOK, NEW b \in Brokers, Dies(b)
    PROVE  /\ \E r \in BrokerType : br' = [br EXCEPT ![b] = r]
           /\ br'[b].pc = "idle"
           /\ lock' \in [Entries -> Brokers \cup {Absent, Ownerless, Dead}]
           /\ authority' = authority \/ (authority = b /\ authority' = Nobody)
<1>1. br \in [Brokers -> BrokerType]
  BY DEF TypeOK, BrokerType
<1>2. br' = [br EXCEPT ![b] = BrokerIdle] /\ br'[b] = BrokerIdle
  BY <1>1 DEF Dies
<1>3. br'[b].pc = "idle"
  BY <1>2 DEF BrokerIdle
<1> QED BY <1>2, <1>3, BrokerFacts DEF Dies, TypeOK

\* A broker that is in no place of note needs nothing; and a rejection may end there.
LEMMA NowhereFacts ==
    ASSUME NEW b \in Brokers, br'[b].pc \in {"idle", "next"}
    PROVE  Placed(b)'
BY DEF Placed, AtWork, Authorities, Behind

LEMMA SpendFacts ==
    ASSUME TypeOK, NEW what \in {"blocks", "heads", "outages", "crashes"}, Spend(what)
    PROVE  budget' \in [{"blocks", "heads", "outages", "crashes"} -> Nat]
BY DEF TypeOK, Spend

LEMMA RejectQuiet ==
    ASSUME IInv, NEW b \in Brokers, At(b, "first") \/ Cur(b) \in Entries, Reject(b),
           UNCHANGED <<worldVars, delivery, effectVars, budget>>
    PROVE  IInv'
<1>1. TypeOK /\ (\E r \in BrokerType : br' = [br EXCEPT ![b] = r]) /\ br'[b].pc = "next"
  BY ContinueFacts DEF IInv, JournalTruth, Reject
<1>2. entry' \in [Entries -> EntryType]
      /\ \A e \in Entries : entry'[e].state = "done" => entry[e].state = "done"
  <2>1. CASE entry' = entry
    BY <1>1, <2>1 DEF TypeOK, EntryType
  <2>2. CASE entry' = [entry EXCEPT ![Cur(b)].state = "failed"]
    <3>1. \A e \in Entries : entry[e] \in EntryType /\ [entry[e] EXCEPT !.state = "failed"] \in EntryType
      BY <1>1 DEF TypeOK, EntryType
    <3>2. entry \in [Entries -> EntryType]
      BY <1>1 DEF TypeOK, EntryType
    <3>3. entry' \in [Entries -> EntryType]
      BY <2>2, <3>1, <3>2
    <3>4. \A e \in Entries : entry'[e].state \in {entry[e].state, "failed"}
      BY <2>2, <3>1, <3>2 DEF EntryType
    <3> QED BY <3>3, <3>4
  <2> QED BY <2>1, <2>2 DEF Reject, Rejected
<1>3. lock' \in [Entries -> Brokers \cup {Absent, Ownerless, Dead}]
  BY <1>1 DEF Reject, Unlocked, TypeOK
<1>4. TypeOK'
  BY <1>1, <1>2, <1>3 DEF TypeOK, EntryType, Reject, BrokerType, worldVars, effectVars
<1>5. JournalTruth' /\ PostedOnce'
  BY <1>2, <1>4 DEF IInv, JournalTruth, PostedOnce, effectVars, HasTarget, Target
<1>6. \A c \in Brokers \ {b} : Respects(c)
  BY <1>1 DEF Respects, Reject, TypeOK, worldVars, effectVars
<1> QED BY <1>1, <1>5, <1>6, OthersKeep, NowhereFacts DEF IInv

LEMMA OutageFacts ==
    ASSUME IInv, NEW b \in Brokers, Outage(b),
           UNCHANGED <<worldVars, delivery, effectVars>>
    PROVE  IInv'
<1>1. TypeOK /\ br \in [Brokers -> BrokerType]
  BY DEF IInv, JournalTruth, TypeOK, BrokerType
<1>2. br'[b].pc = "idle" /\ (\E r \in BrokerType : br' = [br EXCEPT ![b] = r])
  BY <1>1, BrokerFacts DEF Outage, BrokerIdle
<1>3. lock' \in [Entries -> Brokers \cup {Absent, Ownerless, Dead}]
  BY <1>1 DEF Outage, Unlocked, TypeOK
<1>4. Quiet(b)
  BY <1>1, <1>2, <1>3, SpendFacts DEF Quiet, Outage, queueVars
<1> QED BY <1>2, <1>4, QuietKeeps, NowhereFacts

LEMMA RefreshKeeps ==
    ASSUME IInv, NEW b \in Brokers, NEW pc, NEW next,
           <<pc, next>> \in {<<"first", "lock">>, <<"second", "stage">>, <<"refresh", "prepare">>,
                             <<"refresh-move", "move">>, <<"refresh-event", "event">>},
           Refresh(b, pc, next)
    PROVE  IInv'
<1>1. TypeOK /\ Placed(b) /\ br[b].pc = pc /\ Cur(b) \in Entries /\ next \in BrokerPCs
  BY DEF IInv, JournalTruth, Refresh, At, Placed, AtWork, BrokerPCs
<1>2. CASE Reject(b) /\ UNCHANGED <<worldVars, delivery, effectVars, budget>>
  BY <1>1, <1>2, RejectQuiet
<1>3. CASE Outage(b) /\ UNCHANGED <<worldVars, delivery, effectVars>>
  BY <1>3, OutageFacts
<1>4. CASE Goto(b, next) /\ UNCHANGED <<worldVars, queueVars, effectVars, lock, authority, budget>>
  <2>1. Quiet(b)
    BY <1>1, <1>4, GotoFacts DEF Quiet, TypeOK
  <2>2. Placed(b)'
    BY <1>1, <1>4, GotoFacts
       DEF Placed, AtWork, Authorities, Behind, Cur, effectVars, queueVars, HasTarget, Target
  <2> QED BY <2>1, <2>2, QuietKeeps
<1> QED BY <1>2, <1>3, <1>4 DEF Refresh, queueVars

LEMMA DiesKeeps ==
    ASSUME IInv, NEW b \in Brokers, Dies(b), UNCHANGED <<worldVars, queueVars, effectVars>>,
           budget' = budget \/ (\E what \in {"outages", "crashes"} : Spend(what))
    PROVE  IInv'
<1>1. TypeOK
  BY DEF IInv, JournalTruth
<1>2. budget' \in [{"blocks", "heads", "outages", "crashes"} -> Nat]
  BY <1>1, SpendFacts DEF TypeOK
<1> QED BY <1>1, <1>2, DiesFacts, NowhereFacts, QuietKeeps DEF Quiet

\* A step that only moves the broker, or takes or gives a lock.
LEMMA GotoKeeps ==
    ASSUME IInv, NEW b \in Brokers, NEW pc \in BrokerPCs, Goto(b, pc), Placed(b)',
           UNCHANGED <<worldVars, queueVars, effectVars, budget>>,
           lock' = lock \/ (\E l \in {Absent, Ownerless, b} : lock' = [lock EXCEPT ![Cur(b)] = l]),
           \/ authority' = authority
           \/ authority = b /\ authority' = Nobody
           \/ authority = Nobody /\ authority' = b
    PROVE  IInv'
<1>1. TypeOK
  BY DEF IInv, JournalTruth
<1>2. lock' \in [Entries -> Brokers \cup {Absent, Ownerless, Dead}]
  BY <1>1 DEF TypeOK
<1> QED BY <1>1, <1>2, GotoFacts, QuietKeeps DEF Quiet, TypeOK

LEMMA ContinueKeeps ==
    ASSUME IInv, NEW b \in Brokers, Continue(b),
           UNCHANGED <<worldVars, queueVars, effectVars, authority, budget>>,
           lock' = lock \/ lock' = Unlocked(Cur(b))
    PROVE  IInv'
<1>1. TypeOK
  BY DEF IInv, JournalTruth
<1>2. lock' \in [Entries -> Brokers \cup {Absent, Ownerless, Dead}]
  BY <1>1 DEF TypeOK, Unlocked
<1> QED BY <1>1, <1>2, ContinueFacts, NowhereFacts, QuietKeeps DEF Quiet, TypeOK

LEMMA LockKeeps ==
    ASSUME IInv, NEW b \in Brokers,
           TakeLock(b) \/ RemoveOwner(b) \/ RemoveLock(b) \/ RetakeLock(b) \/ OwnLock(b)
           \/ ReleaseLock(b)
    PROVE  IInv'
<1> USE DEF At
<1>1. TypeOK /\ AtWork(b)
  BY DEF IInv, JournalTruth, Placed
<1>2. ASSUME NEW pc \in {"own", "rm-owner", "rmdir", "mkdir", "second"}, Goto(b, pc),
             Cur(b) \in Entries
      PROVE  Placed(b)' /\ pc \in BrokerPCs
  BY <1>1, <1>2, GotoFacts DEF Placed, AtWork, Authorities, Behind, Cur, BrokerPCs
<1>3. CASE TakeLock(b)
  BY <1>1, <1>2, <1>3, GotoKeeps, ContinueKeeps DEF TakeLock, AtWork
<1>4. CASE RemoveOwner(b)
  BY <1>1, <1>2, <1>4, GotoKeeps DEF RemoveOwner, AtWork, TypeOK
<1>5. CASE RemoveLock(b)
  BY <1>1, <1>2, <1>5, GotoKeeps, ContinueKeeps DEF RemoveLock, AtWork, Unlocked
<1>6. CASE RetakeLock(b)
  BY <1>1, <1>2, <1>6, GotoKeeps, ContinueKeeps DEF RetakeLock, AtWork
<1>7. CASE OwnLock(b)
  BY <1>1, <1>2, <1>7, GotoKeeps, ContinueKeeps, DiesKeeps DEF OwnLock, AtWork
<1>8. CASE ReleaseLock(b)
  BY <1>8, ContinueKeeps DEF ReleaseLock
<1> QED BY <1>3, <1>4, <1>5, <1>6, <1>7, <1>8

LEMMA BeginKeeps ==
    ASSUME IInv, NEW b \in Brokers, Begin(b) \/ NextEntry(b)
    PROVE  IInv'
<1>1. TypeOK /\ br \in [Brokers -> BrokerType] /\ br[b] \in BrokerType
  BY SMTT(60) DEF IInv, JournalTruth, TypeOK, BrokerType
<1>2. CASE Begin(b)
  <2>0. PICK todo \in SUBSET Entries : br' = [br EXCEPT ![b].pc = "next", ![b].todo = todo]
    <3>1. PICK glob \in IF b \in Direct THEN {{e} : e \in Entries} ELSE {Entries} :
            LET todo == {e \in glob : entry[e].state = "pending"} IN
            br' = [br EXCEPT ![b].pc = "next", ![b].todo = todo]
      BY <1>2 DEF Begin
    <3>2. glob \subseteq Entries
      BY <3>1
    <3> QED BY <3>1, <3>2
  <2>1. br' = [br EXCEPT ![b] = [br[b] EXCEPT !.pc = "next", !.todo = todo]]
    BY <1>1, <2>0
  <2>2. [br[b] EXCEPT !.pc = "next", !.todo = todo] \in BrokerType
    BY <1>1 DEF BrokerType, BrokerPCs
  <2>3. br'[b].pc = "next"
    BY <1>1, <2>1 DEF BrokerType
  <2> QED BY <1>1, <1>2, <2>1, <2>2, <2>3, QuietKeeps, NowhereFacts DEF Begin, Quiet, TypeOK
<1>3. CASE NextEntry(b)
  <2>1. CASE br' = [br EXCEPT ![b] = BrokerIdle]
    <3>1. br'[b].pc = "idle"
      BY <1>1, <2>1 DEF BrokerIdle
    <3> QED BY <1>1, <1>3, <2>1, <3>1, BrokerFacts, QuietKeeps, NowhereFacts
            DEF NextEntry, Quiet, TypeOK
  <2>2. ASSUME NEW e \in br[b].todo,
               br' = [br EXCEPT ![b].todo = @ \ {e},
                        ![b].cur = IF entry[e].state = "pending" THEN e ELSE NoEntry,
                        ![b].pc = IF entry[e].state = "pending" THEN "first" ELSE "next"]
        PROVE  IInv'
    <3> DEFINE r == [br[b] EXCEPT !.todo = @ \ {e},
                        !.cur = IF entry[e].state = "pending" THEN e ELSE NoEntry,
                        !.pc = IF entry[e].state = "pending" THEN "first" ELSE "next"]
    <3>1. br' = [br EXCEPT ![b] = r]
      BY <1>1, <2>2 DEF BrokerType
    <3>2. r \in BrokerType /\ br'[b] = r /\ r.pc \in {"first", "next"}
          /\ (r.pc = "first" => r.cur \in Entries)
      BY <1>1, <2>2, <3>1 DEF BrokerType, BrokerPCs
    <3>3. Placed(b)'
      BY <3>2 DEF Placed, AtWork, Authorities, Behind, Cur
    <3> QED BY <1>1, <1>3, <3>1, <3>2, <3>3, QuietKeeps DEF NextEntry, Quiet, TypeOK
  <2> QED BY <1>3, <2>1, <2>2 DEF NextEntry
<1> QED BY <1>2, <1>3

LEMMA TakeAuthorityKeeps ==
    ASSUME IInv, NEW b \in Brokers, BeginComment(b) \/ BeginMove(b)
    PROVE  IInv'
<1>1. TypeOK /\ Placed(b) /\ Cur(b) \in Entries
  BY DEF IInv, JournalTruth, Placed, AtWork, BeginComment, BeginMove, TakeAuthority, At
<1>2. CASE Dies(b) /\ UNCHANGED <<worldVars, queueVars, effectVars, budget>>
  BY <1>2, DiesKeeps
<1>3. ASSUME NEW pc \in {"exists", "set"}, Goto(b, pc), authority' = b, ~Held(hold),
             UNCHANGED <<worldVars, queueVars, effectVars>>,
             pc = "set" => br[b].pc = "move"
      PROVE  Placed(b)' /\ pc \in BrokerPCs
  BY <1>1, <1>3, GotoFacts DEF Placed, AtWork, Authorities, Behind, Cur, BrokerPCs,
     worldVars, effectVars, HasTarget, Target
<1> QED BY <1>2, <1>3, GotoKeeps DEF BeginComment, BeginMove, TakeAuthority, At

LEMMA CommentExistsKeeps ==
    ASSUME IInv, NEW b \in Brokers, CommentExists(b)
    PROVE  IInv'
<1>1. TypeOK /\ Placed(b) /\ Cur(b) \in Entries /\ br[b].pc = "exists"
  BY DEF IInv, JournalTruth, Placed, AtWork, CommentExists, At
<1>2. authority = b /\ ~Held(hold)
  BY <1>1 DEF Placed, Authorities
<1>3. CASE comments[Cur(b)] > 0 /\ authority' = Nobody /\ Goto(b, "commented")
  <2>1. comments[Cur(b)] = 1
    BY <1>1, <1>3 DEF IInv, PostedOnce, TypeOK
  <2>2. "commented" \in BrokerPCs
    BY DEF BrokerPCs
  <2>3. Placed(b)'
    BY <1>1, <1>3, <2>1, <2>2, GotoFacts
       DEF Placed, AtWork, Authorities, Behind, Cur, CommentExists, effectVars
  <2> QED BY <1>2, <1>3, <2>2, <2>3, GotoKeeps DEF CommentExists
<1>4. CASE ~(comments[Cur(b)] > 0) /\ authority' = authority /\ Goto(b, "post")
  <2>1. comments[Cur(b)] = 0
    BY <1>1, <1>4 DEF TypeOK
  <2>2. "post" \in BrokerPCs
    BY DEF BrokerPCs
  <2>3. Placed(b)'
    BY <1>1, <1>2, <1>4, <2>1, <2>2, GotoFacts
       DEF Placed, AtWork, Authorities, Behind, Cur, CommentExists, worldVars, effectVars
  <2> QED BY <1>4, <2>2, <2>3, GotoKeeps DEF CommentExists
<1> QED BY <1>3, <1>4 DEF CommentExists

-----------------------------------------------------------------------------
(* The steps that change the queue, the journal or an effect.                *)

\* What such a step leaves alone of the types.
LEMMA StepType ==
    ASSUME TypeOK, NEW b \in Brokers, \E r \in BrokerType : br' = [br EXCEPT ![b] = r]
    PROVE  /\ br' \in [Brokers -> BrokerType]
           /\ \A c \in Brokers \ {b} : br'[c] = br[c]
BY DEF TypeOK, BrokerType

LEMMA ActiveKeeps ==
    ASSUME IInv, NEW b \in Brokers, JournalTruth', PostedOnce', Placed(b)',
           \A c \in Brokers \ {b} : Respects(c)
    PROVE  IInv'
BY OthersKeep DEF IInv

LEMMA ArchiveKeeps ==
    ASSUME IInv, NEW b \in Brokers, ArchiveEntry(b)
    PROVE  IInv'
<1>1. TypeOK /\ Placed(b) /\ Cur(b) \in Entries /\ Cur(b) \in receipts
  BY DEF IInv, JournalTruth, Placed, AtWork, Behind, ArchiveEntry, At
<1>2. "release" \in BrokerPCs /\ Goto(b, "release")
  BY DEF BrokerPCs, ArchiveEntry
<1>3. entry' \in [Entries -> EntryType]
      /\ \A e \in Entries : entry'[e].state = "done" => entry[e].state = "done" \/ e = Cur(b)
  <2>1. CASE entry' = entry
    BY <1>1, <2>1 DEF TypeOK, EntryType
  <2>2. CASE entry' = [entry EXCEPT ![Cur(b)].state = "done"]
    BY SMTT(60), <1>1, <2>2 DEF TypeOK, EntryType
  <2> QED BY <2>1, <2>2 DEF ArchiveEntry
<1>4. TypeOK'
  BY <1>1, <1>2, <1>3, GotoFacts, StepType DEF TypeOK, EntryType, BrokerType,
         ArchiveEntry, worldVars, effectVars
<1>5. JournalTruth' /\ PostedOnce'
  BY <1>1, <1>3, <1>4 DEF IInv, JournalTruth, PostedOnce, ArchiveEntry, effectVars, HasTarget, Target
<1>6. \A c \in Brokers \ {b} : Respects(c)
  BY <1>1, <1>2, GotoFacts, StepType DEF Respects, ArchiveEntry, TypeOK, worldVars, effectVars
<1>7. Placed(b)'
  BY <1>1, <1>2, GotoFacts DEF Placed, AtWork, Authorities, Behind, Cur
<1> QED BY <1>5, <1>6, <1>7, ActiveKeeps

LEMMA PostKeeps ==
    ASSUME IInv, NEW b \in Brokers, PostComment(b)
    PROVE  /\ IInv'
           /\ ~Held(hold) /\ comments[Cur(b)] = 0 /\ Cur(b) \in Entries
<1>1. TypeOK /\ Placed(b) /\ Cur(b) \in Entries /\ authority = b /\ ~Held(hold)
      /\ comments[Cur(b)] = 0
  BY DEF IInv, JournalTruth, Placed, AtWork, Authorities, PostComment, At
<1>2. "commented" \in BrokerPCs /\ Goto(b, "commented")
  BY DEF BrokerPCs, PostComment
<1>3. comments' \in [Entries -> Nat] /\ comments'[Cur(b)] = 1
      /\ \A e \in Entries : comments'[e] = comments[e] \/ e = Cur(b)
  BY <1>1 DEF PostComment, TypeOK
<1>4. request' \in Nat
  BY <1>1 DEF PostComment, TypeOK
<1>5. TypeOK'
  BY <1>1, <1>2, <1>3, <1>4, GotoFacts, StepType
     DEF TypeOK, BrokerType, PostComment, worldVars, queueVars
<1>6. JournalTruth'
  <2>1. \A e \in Entries : comments[e] > 0 => comments'[e] > 0
    BY <1>3
  <2>2. entry' = entry /\ delivery' = delivery /\ moved' = moved /\ events' = events
        /\ receipts' = receipts
    BY DEF PostComment, queueVars
  <2> QED BY <1>5, <2>1, <2>2 DEF IInv, JournalTruth, HasTarget, Target
<1>7. PostedOnce'
  BY <1>3 DEF IInv, PostedOnce
<1>8. \A c \in Brokers \ {b} : Respects(c)
  BY ZenonT(60), <1>1, <1>2, <1>3, GotoFacts, StepType
     DEF Respects, PostComment, TypeOK, worldVars, queueVars
<1>9. Placed(b)'
  BY ZenonT(60), <1>1, <1>2, <1>3, GotoFacts DEF Placed, AtWork, Authorities, Behind, Cur
<1> QED BY <1>1, <1>6, <1>7, <1>8, <1>9, ActiveKeeps

LEMMA MoveKeeps ==
    ASSUME IInv, NEW b \in Brokers, MoveTask(b)
    PROVE  /\ IInv'
           /\ ~Held(hold) /\ comments[Cur(b)] = 1 /\ HasTarget(Cur(b)) /\ Cur(b) \in Entries
           /\ moved' \in {moved, moved \cup {Cur(b)}}
<1>1. TypeOK /\ Placed(b) /\ Cur(b) \in Entries /\ authority = b /\ ~Held(hold)
      /\ comments[Cur(b)] = 1 /\ HasTarget(Cur(b))
  BY DEF IInv, JournalTruth, Placed, AtWork, Authorities, Behind, MoveTask, At
<1>2. CASE Dies(b) /\ UNCHANGED <<status, moved>>
  BY <1>1, <1>2, DiesKeeps DEF MoveTask, worldVars, effectVars
<1>3. CASE /\ status' = Target(Cur(b)) /\ moved' = moved \cup {Cur(b)}
           /\ authority' = Nobody /\ Goto(b, "moved") /\ UNCHANGED lock
  <2>1. "moved" \in BrokerPCs
    BY DEF BrokerPCs
  <2>2. status' \in Statuses
    BY <1>1, <1>3, MarkerFacts
  <2>3. TypeOK'
    BY <1>1, <1>3, <2>1, <2>2, GotoFacts, StepType DEF TypeOK, BrokerType, MoveTask, queueVars
  <2>4. JournalTruth' /\ PostedOnce'
    BY <1>1, <1>3, <2>3
       DEF IInv, JournalTruth, PostedOnce, MoveTask, queueVars, HasTarget, Target
  <2>5. \A c \in Brokers \ {b} : Respects(c)
    BY <1>1, <1>3, <2>1, GotoFacts, StepType DEF Respects, MoveTask, TypeOK, queueVars
  <2>6. Placed(b)'
    BY <1>1, <1>3, <2>1, GotoFacts
       DEF Placed, AtWork, Authorities, Behind, Cur, MoveTask, HasTarget, Target
  <2> QED BY <1>1, <1>3, <2>4, <2>5, <2>6, ActiveKeeps
<1> QED BY <1>2, <1>3 DEF MoveTask

LEMMA EmitKeeps ==
    ASSUME IInv, NEW b \in Brokers, EmitPublished(b)
    PROVE  /\ IInv'
           /\ comments[Cur(b)] = 1 /\ (HasTarget(Cur(b)) => Cur(b) \in moved) /\ Cur(b) \in Entries
<1>1. TypeOK /\ Placed(b) /\ Cur(b) \in Entries /\ comments[Cur(b)] = 1
      /\ (HasTarget(Cur(b)) => Cur(b) \in moved)
  BY DEF IInv, JournalTruth, Placed, AtWork, Behind, EmitPublished, At
<1>2. "published" \in BrokerPCs /\ Goto(b, "published")
  BY DEF BrokerPCs, EmitPublished
<1>3. TypeOK'
  BY <1>1, <1>2, GotoFacts, StepType DEF TypeOK, BrokerType, EmitPublished, worldVars, queueVars
<1>4. JournalTruth' /\ PostedOnce'
  BY <1>1, <1>3 DEF IInv, JournalTruth, PostedOnce, EmitPublished, queueVars, HasTarget, Target
<1>5. \A c \in Brokers \ {b} : Respects(c)
  BY <1>1, <1>2, GotoFacts, StepType DEF Respects, EmitPublished, TypeOK, worldVars, queueVars
<1>6. Placed(b)'
  BY <1>1, <1>2, GotoFacts
     DEF Placed, AtWork, Authorities, Behind, Cur, EmitPublished, HasTarget, Target
<1> QED BY <1>1, <1>4, <1>5, <1>6, ActiveKeeps

LEMMA ReceiptKeeps ==
    ASSUME IInv, NEW b \in Brokers, WriteReceipt(b)
    PROVE  /\ IInv'
           /\ Cur(b) \in events /\ Cur(b) \in Entries
<1>1. TypeOK /\ Placed(b) /\ Cur(b) \in Entries /\ delivery[Cur(b)].phase = "published"
      /\ Cur(b) \in events
  BY DEF IInv, JournalTruth, Placed, AtWork, Behind, WriteReceipt, At
<1>2. "archive" \in BrokerPCs /\ Goto(b, "archive")
  BY DEF BrokerPCs, WriteReceipt
<1>3. TypeOK'
  BY <1>1, <1>2, GotoFacts, StepType DEF TypeOK, BrokerType, WriteReceipt, worldVars, queueVars
<1>4. JournalTruth' /\ PostedOnce'
  BY <1>1, <1>3 DEF IInv, JournalTruth, PostedOnce, WriteReceipt, queueVars, HasTarget, Target
<1>5. \A c \in Brokers \ {b} : Respects(c)
  BY <1>1, <1>2, GotoFacts, StepType DEF Respects, WriteReceipt, TypeOK, worldVars, queueVars
<1>6. Placed(b)'
  BY <1>1, <1>2, GotoFacts
     DEF Placed, AtWork, Authorities, Behind, Cur, WriteReceipt, HasTarget, Target
<1> QED BY <1>1, <1>4, <1>5, <1>6, ActiveKeeps

\* A place a delivery in some phase goes on from, when the phase tells the truth.
LEMMA ResumeFacts ==
    ASSUME NEW e \in Entries, NEW phase \in Phases \ {"none"}
    PROVE  /\ Resume(e, phase) \in {"refresh", "refresh-move", "refresh-event", "receipt"}
           /\ Resume(e, phase) \in BrokerPCs
           /\ Resume(e, phase) = "refresh" => phase = "pending"
           /\ Resume(e, phase) = "receipt" => phase = "published"
           /\ Resume(e, phase) = "refresh-move" => phase = "commented" /\ HasTarget(e)
           /\ Resume(e, phase) = "refresh-event"
                  => phase = "transitioned" \/ (phase = "commented" /\ ~HasTarget(e))
<1>1. CASE phase = "pending"
  BY <1>1 DEF Resume, BrokerPCs
<1>2. CASE phase = "commented" /\ HasTarget(e)
  BY <1>2 DEF Resume, BrokerPCs
<1>3. CASE phase = "commented" /\ ~HasTarget(e)
  BY <1>3 DEF Resume, BrokerPCs
<1>4. CASE phase = "transitioned"
  BY <1>4 DEF Resume, BrokerPCs
<1>5. CASE phase = "published"
  BY <1>5 DEF Resume, BrokerPCs
<1> QED BY <1>1, <1>2, <1>3, <1>4, <1>5 DEF Phases

LEMMA ResumedFacts ==
    ASSUME NEW b \in Brokers, NEW e \in Entries, br'[b].cur = e,
           br'[b].pc \in {"refresh", "refresh-move", "refresh-event", "receipt"},
           br'[b].pc = "refresh" => br'[b].round = 1,
           br'[b].pc \in {"refresh-move", "refresh-event"} => comments'[e] = 1,
           br'[b].pc = "refresh-move" => HasTarget(e),
           br'[b].pc = "refresh-event" => (HasTarget(e) => e \in moved'),
           br'[b].pc = "receipt" => delivery'[e].phase = "published"
    PROVE  Placed(b)'
<1>1. AtWork(b)'
  BY DEF AtWork, Cur, Rounds
<1>2. Authorities(b)'
  BY DEF Authorities
<1>3. Behind(b)'
  BY DEF Behind, Cur, HasTarget, Target
<1> QED BY <1>1, <1>2, <1>3 DEF Placed

\* What naming another phase makes of the delivery records.
LEMMA PhaseFacts ==
    ASSUME TypeOK, NEW e \in Entries, NEW phase \in Phases,
           delivery' = [delivery EXCEPT ![e].phase = phase]
    PROVE  /\ delivery' \in [Entries -> DeliveryType]
           /\ delivery'[e].phase = phase
           /\ \A f \in Entries : f # e => delivery'[f] = delivery[f]
<1>1. delivery \in [Entries -> DeliveryType]
  BY DEF TypeOK, DeliveryType
<1>2. /\ [delivery[e] EXCEPT !.phase = phase] \in DeliveryType
      /\ [delivery[e] EXCEPT !.phase = phase].phase = phase
  BY <1>1 DEF DeliveryType
<1>3. delivery' = [delivery EXCEPT ![e] = [delivery[e] EXCEPT !.phase = phase]]
  BY <1>1 DEF DeliveryType
<1> QED BY <1>1, <1>2, <1>3

\* A truthful phase, with nothing else about the journal or the effects changed.
LEMMA TruthKept ==
    ASSUME IInv, TypeOK', NEW e \in Entries, NEW phase \in Phases,
           UNCHANGED <<entry, effectVars>>,
           delivery'[e].phase = phase,
           \A f \in Entries : f # e => delivery'[f] = delivery[f],
           delivery[e].phase = "published" => phase = "published",
           phase \in {"commented", "transitioned", "published"} => comments[e] > 0,
           phase \in {"transitioned", "published"} /\ HasTarget(e) => e \in moved,
           phase = "published" => e \in events
    PROVE  JournalTruth' /\ PostedOnce'
<1>1. PostedOnce'
  BY DEF IInv, PostedOnce, effectVars
<1>2. ASSUME NEW f \in Entries
      PROVE  /\ delivery'[f].phase \in {"commented", "transitioned", "published"} => comments'[f] > 0
             /\ delivery'[f].phase \in {"transitioned", "published"} /\ HasTarget(f) => f \in moved'
             /\ delivery'[f].phase = "published" => f \in events'
             /\ f \in receipts' => delivery'[f].phase = "published"
             /\ entry'[f].state = "done" => f \in receipts'
  <2>1. CASE f = e
    BY <2>1 DEF IInv, JournalTruth, effectVars
  <2>2. CASE f # e
    BY <2>2 DEF IInv, JournalTruth, effectVars
  <2> QED BY <2>1, <2>2
<1> QED BY <1>1, <1>2 DEF JournalTruth, HasTarget, Target

LEMMA StageKeeps ==
    ASSUME IInv, NEW b \in Brokers, Stage(b)
    PROVE  IInv'
<1>1. TypeOK /\ Cur(b) \in Entries /\ br \in [Brokers -> BrokerType] /\ br[b] \in BrokerType
  BY DEF IInv, JournalTruth, Placed, AtWork, Stage, At, TypeOK, BrokerType
<1>2. CASE Reject(b) /\ UNCHANGED <<worldVars, delivery, effectVars, budget>>
  BY <1>1, <1>2, RejectQuiet
<1> DEFINE e == Cur(b)
           phase == IF delivery[e].phase = "none" THEN "pending" ELSE delivery[e].phase
           r == [br[b] EXCEPT !.pc = Resume(e, phase), !.phase = phase, !.round = 1]
<1>3. CASE /\ delivery' = [delivery EXCEPT ![e].phase = phase]
           /\ br' = [br EXCEPT ![b].pc = Resume(e, phase), ![b].phase = phase, ![b].round = 1]
           /\ UNCHANGED <<entry, lock, authority>>
           /\ UNCHANGED <<worldVars, effectVars, budget>>
  <2>1. phase \in Phases \ {"none"}
    BY <1>1 DEF TypeOK, Phases
  <2>2. 1 \in 0 .. Rounds + 1
    BY DEF Rounds
  <2>3. r \in BrokerType /\ br' = [br EXCEPT ![b] = r]
    BY <1>1, <1>3, <2>1, <2>2, ResumeFacts DEF BrokerType
  <2>4. br'[b].pc = Resume(e, phase) /\ br'[b].round = 1 /\ br'[b].cur = e
    BY <1>1, <2>3 DEF BrokerType, Cur
  <2>5. /\ delivery' \in [Entries -> DeliveryType]
        /\ delivery'[e].phase = phase
        /\ \A f \in Entries : f # e => delivery'[f] = delivery[f]
    BY <1>1, <1>3, <2>1, PhaseFacts
  <2> HIDE DEF r, phase
  <2>6. TypeOK'
    <3>1. br' \in [Brokers -> BrokerType]
      BY <1>1, <2>3, StepType
    <3> QED BY <1>1, <1>3, <2>5, <3>1 DEF TypeOK, BrokerType, DeliveryType, worldVars, effectVars
  <2>7. /\ phase \in {"commented", "transitioned", "published"} => comments[e] = 1
        /\ phase \in {"transitioned", "published"} /\ HasTarget(e) => e \in moved
        /\ phase = "published" => e \in events
        /\ delivery[e].phase = "published" => phase = "published"
    BY <1>1 DEF IInv, JournalTruth, PostedOnce, TypeOK, phase
  <2>8. JournalTruth' /\ PostedOnce'
    BY <1>1, <1>3, <2>1, <2>5, <2>6, <2>7, TruthKept
  <2>9. \A c \in Brokers \ {b} : Respects(c)
    BY <1>1, <1>3, <2>3, <2>5, <2>7, StepType DEF Respects, worldVars, effectVars
  <2>10. Placed(b)'
    BY <1>1, <1>3, <2>1, <2>4, <2>5, <2>7, ResumeFacts, ResumedFacts DEF effectVars
  <2> QED BY <2>8, <2>9, <2>10, ActiveKeeps
<1> QED BY <1>2, <1>3 DEF Stage

LEMMA AdvanceKeeps ==
    ASSUME IInv, NEW b \in Brokers,
           AdvanceCommented(b) \/ AdvanceTransitioned(b) \/ AdvancePublished(b)
    PROVE  IInv'
<1>1. TypeOK /\ br \in [Brokers -> BrokerType] /\ br[b] \in BrokerType /\ Placed(b)
      /\ Cur(b) \in Entries
  BY DEF IInv, JournalTruth, Placed, AtWork, AdvanceCommented, AdvanceTransitioned,
         AdvancePublished, Advance, At, TypeOK, BrokerType
<1>2. CASE Dies(b) /\ UNCHANGED <<worldVars, queueVars, effectVars, budget>>
  BY <1>2, DiesKeeps
<1>3. ASSUME NEW phase \in {"commented", "transitioned", "published"}, NEW next \in BrokerPCs,
             \/ delivery[Cur(b)].phase # "published"
             \/ phase = "published",
             delivery' = [delivery EXCEPT ![Cur(b)].phase = phase],
             br' = [br EXCEPT ![b].pc = next, ![b].phase = phase],
             UNCHANGED <<lock, authority>>, UNCHANGED <<worldVars, entry, effectVars, budget>>,
             comments[Cur(b)] = 1,
             phase # "commented" /\ HasTarget(Cur(b)) => Cur(b) \in moved,
             phase = "published" => Cur(b) \in events,
             next \in {"refresh-move", "refresh-event", "receipt"},
             next = "refresh-move" => HasTarget(Cur(b)),
             next = "refresh-event" => (HasTarget(Cur(b)) => Cur(b) \in moved),
             next = "receipt" => phase = "published"
      PROVE  IInv'
  <2> DEFINE r == [br[b] EXCEPT !.pc = next, !.phase = phase]
  <2>1. r \in BrokerType
    BY <1>1, <1>3 DEF BrokerType, Phases
  <2>2. br' = [br EXCEPT ![b] = r]
    BY <1>1, <1>3 DEF BrokerType
  <2>3. br'[b].pc = next /\ br'[b].cur = Cur(b)
    BY <1>1, <2>2 DEF BrokerType, Cur
  <2>4. /\ delivery' \in [Entries -> DeliveryType]
        /\ delivery'[Cur(b)].phase = phase
        /\ \A f \in Entries : f # Cur(b) => delivery'[f] = delivery[f]
    BY <1>1, <1>3, PhaseFacts DEF Phases
  <2>5. TypeOK'
    BY <1>1, <1>3, <2>1, <2>2, <2>4, StepType
       DEF TypeOK, BrokerType, DeliveryType, worldVars, effectVars
  <2>6. JournalTruth' /\ PostedOnce'
    BY <1>1, <1>3, <2>4, <2>5, TruthKept DEF Phases
  <2>7. \A c \in Brokers \ {b} : Respects(c)
    BY <1>1, <1>3, <2>1, <2>2, <2>4, StepType DEF Respects, worldVars, effectVars
  <2>8. Placed(b)'
    BY <1>1, <1>3, <2>3, <2>4, ResumedFacts DEF effectVars
  <2> QED BY <2>6, <2>7, <2>8, ActiveKeeps
<1>4. CASE AdvanceCommented(b)
  BY <1>1, <1>2, <1>3, <1>4, ResumeFacts
     DEF AdvanceCommented, Advance, At, Placed, Behind, Phases, queueVars
<1>5. CASE AdvanceTransitioned(b)
  BY <1>1, <1>2, <1>3, <1>5
     DEF AdvanceTransitioned, Advance, At, Placed, Behind, BrokerPCs, queueVars
<1>6. CASE AdvancePublished(b)
  BY <1>1, <1>2, <1>3, <1>6
     DEF AdvancePublished, Advance, At, Placed, Behind, BrokerPCs, queueVars
<1> QED BY <1>4, <1>5, <1>6

LEMMA PrepareKeeps ==
    ASSUME IInv, NEW b \in Brokers, PreparePublishBody(b) \/ BindPublishBody(b)
    PROVE  IInv'
<1>1. TypeOK /\ br \in [Brokers -> BrokerType] /\ br[b] \in BrokerType /\ Placed(b)
      /\ Cur(b) \in Entries /\ br[b].round \in 1 .. Rounds
  BY DEF IInv, JournalTruth, Placed, AtWork, PreparePublishBody, BindPublishBody, At, TypeOK,
         BrokerType
<1> DEFINE r == [br[b] EXCEPT !.round = @ + 1,
                     !.pc = IF br[b].round < Rounds THEN "refresh" ELSE "comment"]
<1>2. ASSUME NextRound(b)
      PROVE  /\ r \in BrokerType /\ br' = [br EXCEPT ![b] = r]
             /\ Placed(b)'
  <2>0. br[b].round + 1 \in 0 .. Rounds + 1 /\ {"refresh", "comment"} \subseteq BrokerPCs
    BY <1>1 DEF BrokerPCs, Rounds
  <2>1. r \in BrokerType
    BY <1>1, <2>0 DEF BrokerType
  <2>2. br' = [br EXCEPT ![b] = r]
    BY <1>1, <1>2 DEF NextRound, BrokerType
  <2>3. /\ br'[b].pc \in {"refresh", "comment"} /\ br'[b].cur = Cur(b)
        /\ br'[b].pc = "refresh" => br'[b].round \in 1 .. Rounds
    BY <1>1, <2>2 DEF BrokerType, Cur, Rounds
  <2>4. Placed(b)'
    BY <1>1, <2>3 DEF Placed, AtWork, Authorities, Behind, Cur
  <2> QED BY <2>1, <2>2, <2>4
<1> HIDE DEF r
<1>3. ASSUME UNCHANGED <<worldVars, entry, effectVars, lock, budget>>,
             \/ authority = b /\ authority' = Nobody
             \/ authority = Nobody /\ authority' = b,
             \E q \in BrokerType : br' = [br EXCEPT ![b] = q],
             Placed(b)',
             NEW h \in Nat, NEW body \in {"written", "bound"},
             \/ delivery' = [delivery EXCEPT ![Cur(b)].body = body, ![Cur(b)].head = h]
             \/ delivery' = [delivery EXCEPT ![Cur(b)].body = body]
      PROVE  IInv'
  <2>1. /\ delivery' \in [Entries -> DeliveryType]
        /\ \A f \in Entries : delivery'[f].phase = delivery[f].phase
    <3>1. delivery \in [Entries -> DeliveryType]
      BY <1>1 DEF TypeOK, DeliveryType
    <3>0. delivery[Cur(b)] \in DeliveryType /\ h \in Nat /\ body \in {"written", "bound"}
      BY <1>1, <1>3, <3>1
    <3>2. CASE delivery' = [delivery EXCEPT ![Cur(b)].body = body, ![Cur(b)].head = h]
      <4> DEFINE d == [delivery[Cur(b)] EXCEPT !.body = body, !.head = h]
      <4>1. d \in DeliveryType /\ d.phase = delivery[Cur(b)].phase
        BY <3>0 DEF DeliveryType
      <4>2. delivery' = [delivery EXCEPT ![Cur(b)] = d]
        BY <1>1, <3>1, <3>2 DEF DeliveryType
      <4> HIDE DEF d
      <4> QED BY <1>1, <3>1, <4>1, <4>2
    <3>3. CASE delivery' = [delivery EXCEPT ![Cur(b)].body = body]
      <4> DEFINE d == [delivery[Cur(b)] EXCEPT !.body = body]
      <4>1. d \in DeliveryType /\ d.phase = delivery[Cur(b)].phase
        BY <3>0 DEF DeliveryType
      <4>2. delivery' = [delivery EXCEPT ![Cur(b)] = d]
        BY <1>1, <3>1, <3>3 DEF DeliveryType
      <4> HIDE DEF d
      <4> QED BY <1>1, <3>1, <4>1, <4>2
    <3> QED BY <1>3, <3>2, <3>3
  <2>2. TypeOK'
    <3>1. br' \in [Brokers -> BrokerType]
      BY <1>1, <1>3, StepType
    <3> QED BY <1>1, <1>3, <2>1, <3>1 DEF TypeOK, BrokerType, DeliveryType, worldVars, effectVars
  <2>3. JournalTruth' /\ PostedOnce'
    BY <1>3, <2>1, <2>2 DEF IInv, JournalTruth, PostedOnce, effectVars, HasTarget, Target
  <2>4. \A c \in Brokers \ {b} : Respects(c)
    BY <1>1, <1>3, <2>1, StepType, OutboxConstants DEF Respects, worldVars, effectVars, Nobody
  <2> QED BY <1>3, <2>3, <2>4, ActiveKeeps
<1>4. CASE PreparePublishBody(b)
  <2>1. CASE Reject(b) /\ UNCHANGED <<worldVars, delivery, effectVars, budget>>
    BY <1>1, <2>1, RejectQuiet
  <2>2. CASE NextRound(b) /\ UNCHANGED <<worldVars, queueVars, effectVars, lock, authority, budget>>
    BY <1>1, <1>2, <2>2, QuietKeeps DEF Quiet, TypeOK
  <2>3. CASE /\ delivery' = [delivery EXCEPT ![Cur(b)].body = "written",
                                             ![Cur(b)].head = Candidate(Cur(b))]
             /\ authority = Nobody /\ authority' = b /\ Goto(b, "bind")
             /\ UNCHANGED <<worldVars, entry, effectVars, lock, budget>>
    <3>1. Candidate(Cur(b)) \in Nat
      BY <1>1 DEF Candidate, TypeOK
    <3>2. "bind" \in BrokerPCs
      BY DEF BrokerPCs
    <3>3. Placed(b)'
      BY <1>1, <2>3, <3>2, GotoFacts DEF Placed, AtWork, Authorities, Behind, Cur
    <3> QED BY <1>1, <1>3, <2>3, <3>1, <3>2, <3>3, GotoFacts
  <2> QED BY <1>4, <2>1, <2>2, <2>3 DEF PreparePublishBody, queueVars
<1>5. CASE BindPublishBody(b)
  <2>1. authority = b
    BY <1>1, <1>5 DEF Placed, Authorities, BindPublishBody, At
  <2> QED BY <1>2, <1>3, <1>5, <2>1 DEF BindPublishBody
<1> QED BY <1>4, <1>5

-----------------------------------------------------------------------------
(* The producers and their world.                                           *)

LEMMA WorldKeeps ==
    ASSUME IInv, World
    PROVE  /\ IInv' /\ UNCHANGED <<comments, moved, events, receipts>>
           /\ \A e \in Entries : \/ entry'[e].state = entry[e].state
                                 \/ {entry[e].state, entry'[e].state} \cap {"done", "failed"} = {}
<1>1. TypeOK /\ br' = br /\ lock' = lock /\ authority' = authority
      /\ delivery' = delivery
      /\ UNCHANGED <<comments, moved, events, receipts, request>>
  BY DEF IInv, JournalTruth, World, Sign, Enqueue, LaunchGate, Retire, Claim, Commit, Block,
         Unblock, SyncHolds, queueVars, effectVars, brokerVars, worldVars
<1>2. authority = Nobody \/ hold' = hold
  BY DEF World, Sign, Enqueue, LaunchGate, Retire, Claim, Commit, Block, Unblock, SyncHolds, worldVars
<1>3. /\ entry' \in [Entries -> EntryType]
      /\ \A e \in Entries :
             \/ entry'[e].state = entry[e].state
             \/ /\ entry[e].state \in {"unsent", "signed"}
                /\ entry'[e].state \in {"signed", "pending"}
  <2>0. entry \in [Entries -> EntryType] /\ attempt \in Nat
    BY <1>1 DEF TypeOK, EntryType
  <2>1. CASE entry' = entry
    BY <1>1, <2>0, <2>1
  <2>2. ASSUME NEW e \in Entries, Sign(e)
        PROVE  \E t \in EntryType : entry' = [entry EXCEPT ![e] = t] /\ t.state = "signed"
                                    /\ entry[e].state = "unsent"
    <3> DEFINE t == [state |-> "signed", gen |-> cap[Lane(e)].gen,
                     attempt |-> IF Lane(e) = "task" THEN cap["task"].gen ELSE request]
    <3>1. cap[Lane(e)].gen \in Nat /\ cap["task"].gen \in Nat /\ request \in Nat
      BY <1>1, MarkerFacts DEF TypeOK, Lanes
    <3>2. t \in EntryType /\ t.state = "signed"
      BY <3>1 DEF EntryType
    <3>3. entry' = [entry EXCEPT ![e] = t] /\ entry[e].state = "unsent"
      BY <2>2 DEF Sign
    <3> HIDE DEF t
    <3> QED BY <3>2, <3>3
  <2>3. ASSUME NEW e \in Entries, Enqueue(e)
        PROVE  \E t \in EntryType : entry' = [entry EXCEPT ![e] = t] /\ t.state = "pending"
                                    /\ entry[e].state = "signed"
    <3> DEFINE t == [entry[e] EXCEPT !.state = "pending"]
    <3>1. t \in EntryType /\ t.state = "pending"
      BY <2>0 DEF EntryType
    <3>2. entry' = [entry EXCEPT ![e] = t] /\ entry[e].state = "signed"
      BY <2>0, <2>3 DEF Enqueue, EntryType
    <3> HIDE DEF t
    <3> QED BY <3>1, <3>2
  <2>4. CASE \E e \in Entries : Sign(e) \/ Enqueue(e)
    BY <2>0, <2>2, <2>3, <2>4
  <2> QED BY <2>1, <2>4 DEF World, LaunchGate, Retire, Claim, Commit, Block, Unblock, SyncHolds,
                            queueVars
<1>4. status' \in Statuses /\ attempt' \in Nat /\ head' \in Nat /\ hold' \in Holds
  BY <1>1 DEF World, Sign, Enqueue, LaunchGate, Retire, Claim, Commit, Block, Unblock, SyncHolds,
              worldVars, TypeOK, Statuses, AfterSync, Released, Holds, HoldStates
<1>5. cap' \in [Lanes -> [gen : Nat, live : BOOLEAN]]
  <2> DEFINE K == [gen : Nat, live : BOOLEAN]
  <2>1. cap \in [Lanes -> K] /\ "gate" \in Lanes /\ "task" \in Lanes /\ attempt \in Nat
    BY <1>1 DEF TypeOK, Lanes
  <2>2. CASE cap' = cap
    BY <2>1, <2>2
  <2>3. CASE LaunchGate \/ Claim
    <3>1. \A l \in Lanes : cap[l].gen \in Nat
      BY <2>1
    <3>2. \A n \in Nat : [gen |-> n, live |-> TRUE] \in K
      OBVIOUS
    <3>3. PICK l \in Lanes, n \in Nat : cap' = [cap EXCEPT ![l] = [gen |-> n, live |-> TRUE]]
      BY <2>1, <2>3, <3>1 DEF LaunchGate, Claim
    <3> QED BY <2>1, <3>2, <3>3
  <2>4. CASE \E l \in Lanes : Retire(l)
    BY <2>1, <2>4 DEF Retire
  <2>5. CASE SyncHolds
    BY <2>1, <2>5 DEF SyncHolds
  <2> QED BY <2>2, <2>3, <2>4, <2>5
          DEF World, Sign, Enqueue, Commit, Block, Unblock, worldVars
<1>6. budget' \in [{"blocks", "heads", "outages", "crashes"} -> Nat]
  BY <1>1, SpendFacts DEF World, Sign, Enqueue, LaunchGate, Retire, Claim, Commit, Block, Unblock,
                          SyncHolds, TypeOK
<1>7. TypeOK'
  BY <1>1, <1>3, <1>4, <1>5, <1>6 DEF TypeOK, EntryType
<1>8. JournalTruth' /\ PostedOnce'
  BY <1>1, <1>3, <1>7 DEF IInv, JournalTruth, PostedOnce, HasTarget, Target
<1>9. ASSUME NEW c \in Brokers PROVE Respects(c)
  BY <1>1, <1>2, OutboxConstants DEF Respects, Nobody
<1> QED BY <1>1, <1>3, <1>8, <1>9, OthersKeep DEF IInv

-----------------------------------------------------------------------------
(* Every step keeps the invariant.                                          *)

LEMMA BrokerKeeps ==
    ASSUME IInv, NEW b \in Brokers, BrokerStep(b) \/ BrokerInterrupted(b)
    PROVE  IInv'
<1>1. CASE Begin(b) \/ NextEntry(b)
  BY <1>1, BeginKeeps
<1>2. CASE \/ FirstRefresh(b) \/ SecondRefresh(b) \/ RefreshAuthority(b) \/ RefreshMove(b)
           \/ RefreshEvent(b)
  BY <1>2, RefreshKeeps DEF FirstRefresh, SecondRefresh, RefreshAuthority, RefreshMove, RefreshEvent
<1>3. CASE \/ TakeLock(b) \/ RemoveOwner(b) \/ RemoveLock(b) \/ RetakeLock(b) \/ OwnLock(b)
           \/ ReleaseLock(b)
  BY <1>3, LockKeeps
<1>4. CASE Stage(b)
  BY <1>4, StageKeeps
<1>5. CASE PreparePublishBody(b) \/ BindPublishBody(b)
  BY <1>5, PrepareKeeps
<1>6. CASE BeginComment(b) \/ BeginMove(b)
  BY <1>6, TakeAuthorityKeeps
<1>7. CASE CommentExists(b)
  BY <1>7, CommentExistsKeeps
<1>8. CASE PostComment(b) \/ MoveTask(b) \/ EmitPublished(b) \/ WriteReceipt(b)
  BY <1>8, PostKeeps, MoveKeeps, EmitKeeps, ReceiptKeeps
<1>9. CASE AdvanceCommented(b) \/ AdvanceTransitioned(b) \/ AdvancePublished(b)
  BY <1>9, AdvanceKeeps
<1>10. CASE ArchiveEntry(b)
  BY <1>10, ArchiveKeeps
<1>11. CASE BrokerInterrupted(b)
  BY <1>11, DiesKeeps DEF BrokerInterrupted, Crash, EffectUnavailable
<1> QED BY <1>1, <1>2, <1>3, <1>4, <1>5, <1>6, <1>7, <1>8, <1>9, <1>10, <1>11 DEF BrokerStep

LEMMA NextInv == IInv /\ [Next]_vars => IInv'
<1> SUFFICES ASSUME IInv, [Next]_vars PROVE IInv'
  OBVIOUS
<1>1. CASE World
  BY <1>1, WorldKeeps
<1>2. CASE \E b \in Brokers : BrokerStep(b) \/ BrokerInterrupted(b)
  BY <1>2, BrokerKeeps
<1>3. CASE UNCHANGED vars
  <2>1. TypeOK'
    BY <1>3 DEF IInv, JournalTruth, TypeOK, vars, worldVars, queueVars, effectVars, brokerVars
  <2>2. JournalTruth' /\ PostedOnce'
    BY <1>3, <2>1 DEF IInv, JournalTruth, PostedOnce, vars, worldVars, queueVars, effectVars,
                      brokerVars, HasTarget, Target
  <2>3. \A c \in Brokers : Respects(c)
    BY <1>3 DEF Respects, vars, worldVars, queueVars, effectVars, brokerVars
  <2> QED BY <2>2, <2>3, OthersKeep DEF IInv
<1> QED BY <1>1, <1>2, <1>3 DEF Next

LEMMA Invariance == Spec => []IInv
<1> QED BY InitInv, NextInv, PTL DEF Spec

(* Whatever phase a restarted broker finds in a protected record, what the   *)
(* phase says has happened has happened, and a receipt or an archived entry  *)
(* stands for a published delivery.                                          *)
THEOREM JournalIsTrue == Spec => []JournalTruth
BY Invariance, PTL DEF IInv

-----------------------------------------------------------------------------
(* What a step does to the tracker, the event log and the receipts.          *)

\* The steps that change none of them; at most they reject an entry.
Silent ==
    /\ UNCHANGED <<hold, comments, moved, events, receipts>>
    /\ \/ \A e \in Entries : \/ entry'[e].state = entry[e].state
                             \/ {entry[e].state, entry'[e].state} \cap {"done", "failed"} = {}
       \/ \E e \in Entries : /\ entry[e].state = "pending"
                             /\ entry' = [entry EXCEPT ![e].state = "failed"]

LEMMA RejectSilent ==
    ASSUME NEW b \in Brokers, Reject(b), Cur(b) \in Entries,
           UNCHANGED <<hold, comments, moved, events, receipts>>
    PROVE  Silent
BY DEF Reject, Rejected, Silent

LEMMA RefreshSilent ==
    ASSUME IInv, NEW b \in Brokers, NEW pc \in BrokerPCs \ {"idle", "next"}, NEW next,
           Refresh(b, pc, next)
    PROVE  Silent
<1>1. Cur(b) \in Entries /\ UNCHANGED <<hold, comments, moved, events, receipts>>
  BY DEF IInv, Placed, AtWork, Refresh, At, worldVars, effectVars
<1>2. CASE Reject(b)
  BY <1>1, <1>2, RejectSilent
<1>3. CASE UNCHANGED entry
  BY <1>1, <1>3 DEF Silent
<1> QED BY <1>2, <1>3 DEF Refresh, Outage

LEMMA BrokerSilent ==
    ASSUME IInv, NEW b \in Brokers, BrokerStep(b) \/ BrokerInterrupted(b)
    PROVE  \/ Silent \/ PostComment(b) \/ MoveTask(b) \/ EmitPublished(b) \/ WriteReceipt(b)
           \/ ArchiveEntry(b)
<1>1. CASE \/ FirstRefresh(b) \/ SecondRefresh(b) \/ RefreshAuthority(b) \/ RefreshMove(b)
           \/ RefreshEvent(b)
  BY <1>1, RefreshSilent
     DEF FirstRefresh, SecondRefresh, RefreshAuthority, RefreshMove, RefreshEvent, BrokerPCs
<1>2. CASE Stage(b) \/ PreparePublishBody(b)
  <2>1. Cur(b) \in Entries /\ UNCHANGED <<hold, comments, moved, events, receipts>>
    BY <1>2 DEF IInv, Placed, AtWork, Stage, PreparePublishBody, At, worldVars, effectVars,
                queueVars
  <2>2. CASE Reject(b)
    BY <2>1, <2>2, RejectSilent
  <2>3. CASE UNCHANGED entry
    BY <2>1, <2>3 DEF Silent
  <2> QED BY <1>2, <2>2, <2>3 DEF Stage, PreparePublishBody, queueVars
<1>3. CASE UNCHANGED <<hold, comments, moved, events, receipts, entry>>
  BY SMTT(60), <1>3 DEF Silent
<1>4. CASE \/ Begin(b) \/ NextEntry(b) \/ TakeLock(b) \/ RemoveOwner(b) \/ RemoveLock(b)
           \/ RetakeLock(b) \/ OwnLock(b) \/ BindPublishBody(b) \/ BeginComment(b)
           \/ CommentExists(b) \/ AdvanceCommented(b) \/ BeginMove(b) \/ AdvanceTransitioned(b)
           \/ AdvancePublished(b) \/ ReleaseLock(b) \/ BrokerInterrupted(b)
  BY <1>3, <1>4
     DEF Begin, NextEntry, TakeLock, RemoveOwner, RemoveLock, RetakeLock, OwnLock,
         BindPublishBody, BeginComment, CommentExists, AdvanceCommented, BeginMove,
         AdvanceTransitioned, AdvancePublished, ReleaseLock, BrokerInterrupted, Advance,
         TakeAuthority, Crash, EffectUnavailable, worldVars, queueVars, effectVars
<1> QED BY <1>1, <1>2, <1>4 DEF BrokerStep

(* A hold that arrives between a broker's check and its effect waits for the *)
(* authority, so no step changes the comments or the moves under a hold.     *)
THEOREM NoEffectUnderHold == Spec => EffectsUnheld
<1>1. IInv /\ [Next]_vars => [comments' # comments \/ moved' # moved => ~Held(hold)]_vars
  <2> SUFFICES ASSUME IInv, Next, comments' # comments \/ moved' # moved PROVE ~Held(hold)
    OBVIOUS
  <2>1. ~World
    BY WorldKeeps
  <2>2. PICK b \in Brokers : BrokerStep(b) \/ BrokerInterrupted(b)
    BY <2>1 DEF Next
  <2>3. CASE PostComment(b) \/ MoveTask(b)
    BY <2>3, PostKeeps, MoveKeeps
  <2>4. ~Silent /\ ~EmitPublished(b) /\ ~WriteReceipt(b) /\ ~ArchiveEntry(b)
    BY DEF Silent, EmitPublished, WriteReceipt, ArchiveEntry, effectVars
  <2> QED BY <2>2, <2>3, <2>4, BrokerSilent
<1> QED BY <1>1, Invariance, PTL DEF Spec, EffectsUnheld

-----------------------------------------------------------------------------
(* The refinement.                                                          *)

LEMMA InitMaps == Init => Promise!Init
BY DEF Init, Promise!Init, Held, HoldStates

Maps == [Promise!Next]_(Promise!vars)

LEMMA SilentMaps ==
    ASSUME TypeOK, TypeOK', Silent PROVE Maps
<1>1. CASE \A e \in Entries : \/ entry'[e].state = entry[e].state
                              \/ {entry[e].state, entry'[e].state} \cap {"done", "failed"} = {}
  BY <1>1 DEF Maps, Silent, Promise!vars, Promise!effects
<1>2. CASE \E e \in Entries : /\ entry[e].state = "pending"
                              /\ entry' = [entry EXCEPT ![e].state = "failed"]
  <2>1. PICK e \in Entries : /\ entry[e].state = "pending"
                             /\ entry' = [entry EXCEPT ![e].state = "failed"]
    BY <1>2
  <2>2. entry'[e].state = "failed" /\ \A f \in Entries \ {e} : entry'[f] = entry[f]
    BY <2>1 DEF TypeOK
  <2>3. Promise!Settle(e)
    BY ZenonT(60), <2>1, <2>2 DEF Silent, Promise!Settle, Promise!effects
  <2> QED BY <2>3 DEF Maps, Promise!Next
<1> QED BY <1>1, <1>2 DEF Silent

LEMMA PostMaps ==
    ASSUME IInv, NEW b \in Brokers, PostComment(b) PROVE Maps
<1>1. ~Held(hold) /\ comments[Cur(b)] = 0 /\ Cur(b) \in Entries /\ comments \in [Entries -> Nat]
  BY PostKeeps DEF IInv, JournalTruth, TypeOK
<1>2. comments' = [comments EXCEPT ![Cur(b)] = 1]
  BY <1>1 DEF PostComment
<1>3. Promise!Post(Cur(b))
  BY <1>1, <1>2 DEF PostComment, Promise!Post, worldVars, queueVars
<1> QED BY <1>1, <1>3 DEF Maps, Promise!Next

LEMMA MoveMaps ==
    ASSUME IInv, NEW b \in Brokers, MoveTask(b) PROVE Maps
<1>1. /\ ~Held(hold) /\ comments[Cur(b)] = 1 /\ HasTarget(Cur(b)) /\ Cur(b) \in Entries
      /\ moved' \in {moved, moved \cup {Cur(b)}}
  BY MoveKeeps
<1>2. UNCHANGED <<hold, comments, events, receipts, entry>>
  BY DEF MoveTask, queueVars
<1>3. CASE moved' = moved
  BY <1>2, <1>3 DEF Maps, Promise!vars, Promise!effects
<1>4. CASE moved' = moved \cup {Cur(b)}
  <2>1. Promise!Reach(Cur(b))
    BY <1>1, <1>2, <1>4 DEF Promise!Reach
  <2> QED BY <1>1, <2>1 DEF Maps, Promise!Next
<1> QED BY <1>1, <1>3, <1>4

LEMMA AnnounceMaps ==
    ASSUME IInv, NEW b \in Brokers, EmitPublished(b) \/ WriteReceipt(b) PROVE Maps
<1>1. UNCHANGED <<hold, comments, moved, entry>> /\ Cur(b) \in Entries
  BY EmitKeeps, ReceiptKeeps DEF EmitPublished, WriteReceipt, worldVars, queueVars
<1>2. CASE EmitPublished(b)
  <2>1. Promise!Announce(Cur(b))
    BY <1>1, <1>2, EmitKeeps DEF EmitPublished, Promise!Announce
  <2> QED BY <1>1, <2>1 DEF Maps, Promise!Next
<1>3. CASE WriteReceipt(b)
  <2>1. Promise!Certify(Cur(b))
    BY <1>1, <1>3, ReceiptKeeps DEF WriteReceipt, Promise!Certify
  <2> QED BY <1>1, <2>1 DEF Maps, Promise!Next
<1> QED BY <1>2, <1>3

LEMMA ArchiveMaps ==
    ASSUME IInv, TypeOK', NEW b \in Brokers, ArchiveEntry(b) PROVE Maps
<1>1. Cur(b) \in Entries /\ Cur(b) \in receipts /\ TypeOK
  BY DEF IInv, JournalTruth, Placed, AtWork, Behind, ArchiveEntry, At
<1>2. CASE entry' = entry
  BY <1>2, SilentMaps, <1>1 DEF Silent, ArchiveEntry, worldVars, effectVars
<1>3. CASE entry[Cur(b)].state = "pending" /\ entry' = [entry EXCEPT ![Cur(b)].state = "done"]
  <2>1. PICK e \in Entries : e = Cur(b)
    BY <1>1
  <2>2. /\ entry[e].state = "pending" /\ e \in receipts
        /\ entry'[e].state = "done" /\ \A f \in Entries \ {e} : entry'[f] = entry[f]
    BY <1>1, <1>3, <2>1 DEF TypeOK
  <2>3. Promise!Settle(e)
    BY <2>2 DEF ArchiveEntry, Promise!Settle, Promise!effects, worldVars, effectVars
  <2> QED BY <2>3 DEF Maps, Promise!Next
<1>4. \/ entry' = entry
      \/ entry[Cur(b)].state = "pending" /\ entry' = [entry EXCEPT ![Cur(b)].state = "done"]
  BY DEF ArchiveEntry
<1> QED BY <1>2, <1>3, <1>4

LEMMA WorldMaps ==
    ASSUME IInv, World PROVE Maps
<1>1. UNCHANGED <<comments, moved, events, receipts>>
      /\ \A e \in Entries : \/ entry'[e].state = entry[e].state
                            \/ {entry[e].state, entry'[e].state} \cap {"done", "failed"} = {}
  BY WorldKeeps
<1>2. Held(hold)' \in BOOLEAN
  BY DEF Held
<1>3. Promise!Hold
  BY <1>1, <1>2 DEF Promise!Hold, Promise!effects
<1> QED BY <1>3 DEF Maps, Promise!Next

(* Any number of brokers, killed anywhere and taking one another's locks, do  *)
(* to the tracker, the event log and the receipts what Publication allows.    *)
THEOREM PublicationRefined == Spec => RefinesPublication
<1>1. IInv /\ IInv' /\ [Next]_vars => Maps
  <2> SUFFICES ASSUME IInv, IInv', [Next]_vars PROVE Maps
    OBVIOUS
  <2>1. TypeOK /\ TypeOK'
    BY DEF IInv, JournalTruth
  <2>2. CASE World
    BY <2>2, WorldMaps
  <2>3. ASSUME NEW b \in Brokers, BrokerStep(b) \/ BrokerInterrupted(b)
        PROVE  Maps
    BY <2>1, <2>3, BrokerSilent, SilentMaps, PostMaps, MoveMaps, AnnounceMaps, ArchiveMaps
  <2>4. CASE UNCHANGED vars
    BY <2>4 DEF Maps, vars, worldVars, queueVars, effectVars, brokerVars, Promise!vars,
                Promise!effects
  <2> QED BY <2>2, <2>3, <2>4 DEF Next
<1> QED BY <1>1, InitMaps, Invariance, PTL DEF Spec, Maps, RefinesPublication, Promise!Spec

-----------------------------------------------------------------------------
(* What a broker has made sure of when it acts.  A request's attempt and an  *)
(* approval's request can change under it where another broker runs beside   *)
(* it, and TLC finds both properties violated there.                         *)

\* No submit-artifact.sh runs process-outbox.sh beside the dispatcher.
NoDirect == Direct = {}
\* One run of process-outbox.sh at a time.
OneBroker == \A b, c \in Brokers : b = c

Sent == {"pending", "done", "failed"}

Submitted ==
    /\ \A b \in Brokers : br[b].pc \notin {"idle", "next"} => entry[Cur(b)].state \in Sent
    /\ \A e \in Entries : entry[e].state \notin Sent => delivery[e].phase = "none"

\* What a step of broker b does to its place and to what it has read.
Moves(b) ==
    /\ UNCHANGED attempt
    /\ \A e \in Entries :
           /\ entry'[e].attempt = entry[e].attempt
           /\ \/ entry'[e].state = entry[e].state
              \/ entry[e].state = "pending" /\ entry'[e].state \in {"done", "failed"}
    /\ \A c \in Brokers \ {b} : br'[c] = br[c]
    /\ \/ br'[b].pc \in {"idle", "next"}
       \/ br[b].pc \notin {"idle", "next"} /\ br'[b].cur = br[b].cur
       \/ br'[b].pc = "first" /\ br'[b].cur \in Entries /\ entry[br'[b].cur].state = "pending"
    /\ br'[b].pc = "move" => Authorized(Cur(b))
    /\ br'[b].pc = "set" => br[b].pc = "move"
    /\ br'[b].pc = "bind" => Preparable(Cur(b))
    /\ br'[b].pc = "comment" => br[b].pc = "bind" \/ Preparable(Cur(b))
    /\ br'[b].pc = "exists" => br[b].pc = "comment"
    /\ br'[b].pc = "post" => br[b].pc = "exists"
    /\ request' = request \/ br'[b].pc = "commented"

LEMMA IdleMoves ==
    ASSUME IInv, NEW b \in Brokers, UNCHANGED <<attempt, request>>,
           entry' = entry \/ (Cur(b) \in Entries /\ entry' = Rejected(Cur(b))),
           \A c \in Brokers \ {b} : br'[c] = br[c], br'[b].pc \in {"idle", "next"}
    PROVE  Moves(b)
<1>1. entry \in [Entries -> EntryType]
  BY DEF IInv, JournalTruth, TypeOK, EntryType
<1>2. \A e \in Entries :
           /\ entry'[e].attempt = entry[e].attempt
           /\ \/ entry'[e].state = entry[e].state
              \/ entry[e].state = "pending" /\ entry'[e].state \in {"done", "failed"}
  <2>1. CASE entry' = entry
    BY <2>1
  <2>2. CASE entry[Cur(b)].state = "pending" /\ entry' = [entry EXCEPT ![Cur(b)].state = "failed"]
    BY <1>1, <2>2 DEF EntryType
  <2> QED BY <2>1, <2>2 DEF Rejected
<1> QED BY <1>2 DEF Moves

LEMMA DiesMoves ==
    ASSUME IInv, NEW b \in Brokers, Dies(b), UNCHANGED <<attempt, request, entry>>
    PROVE  Moves(b)
<1>1. TypeOK
  BY DEF IInv, JournalTruth
<1> QED BY <1>1, DiesFacts, StepType, IdleMoves

LEMMA ContinueMoves ==
    ASSUME IInv, NEW b \in Brokers, Continue(b), UNCHANGED <<attempt, request>>,
           entry' = entry \/ (Cur(b) \in Entries /\ entry' = Rejected(Cur(b)))
    PROVE  Moves(b)
<1>1. TypeOK
  BY DEF IInv, JournalTruth
<1> QED BY <1>1, ContinueFacts, StepType, IdleMoves

LEMMA GotoMoves ==
    ASSUME IInv, NEW b \in Brokers, NEW pc \in BrokerPCs, Goto(b, pc), Cur(b) \in Entries,
           br[b].pc \notin {"idle", "next"}, UNCHANGED <<attempt, entry>>,
           request' = request \/ pc = "commented",
           pc = "move" => Authorized(Cur(b)), pc = "set" => br[b].pc = "move",
           pc = "bind" => Preparable(Cur(b)), pc # "comment",
           pc = "exists" => br[b].pc = "comment", pc = "post" => br[b].pc = "exists"
    PROVE  Moves(b)
<1>1. TypeOK
  BY DEF IInv, JournalTruth
<1>2. br'[b].pc = pc /\ br'[b].cur = br[b].cur /\ \A c \in Brokers \ {b} : br'[c] = br[c]
  BY <1>1, GotoFacts, StepType
<1> QED BY <1>2 DEF Moves

LEMMA RefreshMoves ==
    ASSUME IInv, NEW b \in Brokers, NEW pc \in BrokerPCs \ {"idle", "next"},
           NEW next \in {"lock", "stage", "prepare", "move", "event"}, Refresh(b, pc, next)
    PROVE  Moves(b)
<1>1. TypeOK /\ Cur(b) \in Entries /\ br[b].pc = pc /\ UNCHANGED <<attempt, request>>
      /\ next \in BrokerPCs
  BY DEF IInv, JournalTruth, Placed, AtWork, Refresh, At, worldVars, effectVars, BrokerPCs
<1>2. CASE Authorized(Cur(b)) /\ Goto(b, next) /\ UNCHANGED entry
  BY <1>1, <1>2, GotoMoves
<1>3. CASE Reject(b)
  BY <1>1, <1>3, ContinueMoves DEF Reject
<1>4. CASE Outage(b)
  <2>1. br'[b].pc = "idle" /\ \A c \in Brokers \ {b} : br'[c] = br[c]
    BY <1>1, <1>4 DEF Outage, TypeOK, BrokerIdle
  <2> QED BY <1>1, <1>4, <2>1, IdleMoves DEF Outage
<1> QED BY <1>2, <1>3, <1>4 DEF Refresh

\* A step that sets more than the place of the broker.
LEMMA JumpMoves ==
    ASSUME IInv, NEW b \in Brokers, UNCHANGED <<attempt, request, entry>>,
           br[b].pc \notin {"idle", "next"}, br'[b].cur = br[b].cur,
           \A c \in Brokers \ {b} : br'[c] = br[c],
           br'[b].pc \notin {"move", "set", "bind", "exists", "post"},
           br'[b].pc = "comment" => br[b].pc = "bind" \/ Preparable(Cur(b))
    PROVE  Moves(b)
BY DEF Moves

LEMMA NextRoundFacts ==
    ASSUME IInv, NEW b \in Brokers, NextRound(b)
    PROVE  /\ br'[b].pc \in {"refresh", "comment"} /\ br'[b].cur = br[b].cur
           /\ \A c \in Brokers \ {b} : br'[c] = br[c]
BY DEF IInv, JournalTruth, TypeOK, NextRound

LEMMA BrokerMoves ==
    ASSUME IInv, NEW b \in Brokers, BrokerStep(b) \/ BrokerInterrupted(b)
    PROVE  Moves(b)
<1>t. TypeOK /\ (br[b].pc \notin {"idle", "next"} => Cur(b) \in Entries)
  BY DEF IInv, JournalTruth, Placed, AtWork
<1>p. {"own", "rm-owner", "rmdir", "mkdir", "second", "set", "exists", "post", "commented",
       "moved", "published", "archive", "release", "bind"} \subseteq BrokerPCs
  BY DEF BrokerPCs
<1> USE DEF At
<1>1. CASE Begin(b)
  <2>1. br'[b].pc = "next" /\ \A c \in Brokers \ {b} : br'[c] = br[c]
    BY <1>t, <1>1 DEF Begin, TypeOK
  <2> QED BY <1>1, <2>1, IdleMoves DEF Begin, worldVars, queueVars, effectVars
<1>2. CASE NextEntry(b)
  <2>1. /\ br'[b].pc \in {"idle", "next"} \/ (br'[b].pc = "first" /\ br'[b].cur \in Entries
                                                /\ entry[br'[b].cur].state = "pending")
        /\ \A c \in Brokers \ {b} : br'[c] = br[c]
    <3>1. CASE br' = [br EXCEPT ![b] = BrokerIdle]
      BY <1>t, <3>1 DEF TypeOK, BrokerIdle
    <3>2. ASSUME NEW e \in br[b].todo,
                 br' = [br EXCEPT ![b].todo = @ \ {e},
                        ![b].cur = IF entry[e].state = "pending" THEN e ELSE NoEntry,
                        ![b].pc = IF entry[e].state = "pending" THEN "first" ELSE "next"]
          PROVE  /\ br'[b].pc = "next" \/ (br'[b].pc = "first" /\ br'[b].cur \in Entries
                                                /\ entry[br'[b].cur].state = "pending")
                 /\ \A c \in Brokers \ {b} : br'[c] = br[c]
      BY <1>t, <3>2 DEF TypeOK
    <3> QED BY <1>2, <3>1, <3>2 DEF NextEntry
  <2>2. UNCHANGED <<attempt, request, entry>>
    BY <1>2 DEF NextEntry, worldVars, queueVars, effectVars
  <2> QED BY <2>1, <2>2 DEF Moves
<1>3. CASE \/ FirstRefresh(b) \/ SecondRefresh(b) \/ RefreshAuthority(b) \/ RefreshMove(b)
           \/ RefreshEvent(b)
  BY <1>3, RefreshMoves
     DEF FirstRefresh, SecondRefresh, RefreshAuthority, RefreshMove, RefreshEvent, BrokerPCs
<1>4. CASE \/ TakeLock(b) \/ RemoveOwner(b) \/ RemoveLock(b) \/ RetakeLock(b) \/ OwnLock(b)
           \/ ReleaseLock(b)
  <2>1. UNCHANGED <<attempt, request, entry>> /\ br[b].pc \notin {"idle", "next"}
    BY <1>4 DEF TakeLock, RemoveOwner, RemoveLock, RetakeLock, OwnLock, ReleaseLock,
                worldVars, queueVars, effectVars
  <2>2. \/ Dies(b) \/ Continue(b)
        \/ \E pc \in {"own", "rm-owner", "rmdir", "mkdir", "second"} : Goto(b, pc)
    BY <1>4 DEF TakeLock, RemoveOwner, RemoveLock, RetakeLock, OwnLock, ReleaseLock
  <2> QED BY <1>t, <1>p, <2>1, <2>2, DiesMoves, ContinueMoves, GotoMoves
<1>5. CASE Stage(b)
  <2>1. UNCHANGED <<attempt, request>> /\ br[b].pc \notin {"idle", "next"} /\ Cur(b) \in Entries
    BY <1>t, <1>5 DEF Stage, worldVars, effectVars
  <2>2. CASE Reject(b)
    BY <2>1, <2>2, ContinueMoves DEF Reject
  <2>3. ASSUME NEW phase \in Phases \ {"none"}, UNCHANGED entry,
               br' = [br EXCEPT ![b].pc = Resume(Cur(b), phase), ![b].phase = phase, ![b].round = 1]
        PROVE  Moves(b)
    <3>1. /\ br'[b].pc = Resume(Cur(b), phase) /\ br'[b].cur = br[b].cur
          /\ \A c \in Brokers \ {b} : br'[c] = br[c]
      BY <1>t, <2>3 DEF TypeOK
    <3>2. Resume(Cur(b), phase) \in {"refresh", "refresh-move", "receipt", "refresh-event"}
      BY <2>3 DEF Resume
    <3> QED BY <2>1, <2>3, <3>1, <3>2, JumpMoves
  <2>4. delivery[Cur(b)].phase \in Phases
    BY <1>t, <2>1 DEF TypeOK
  <2>5. (IF delivery[Cur(b)].phase = "none" THEN "pending" ELSE delivery[Cur(b)].phase)
            \in Phases \ {"none"}
    BY <2>4 DEF Phases
  <2> QED BY <1>5, <2>2, <2>3, <2>5 DEF Stage
<1>6. CASE PreparePublishBody(b)
  <2>1. UNCHANGED <<attempt, request>> /\ br[b].pc \notin {"idle", "next"} /\ Cur(b) \in Entries
    BY <1>t, <1>6 DEF PreparePublishBody, worldVars, effectVars
  <2>2. CASE Preparable(Cur(b)) /\ Goto(b, "bind") /\ UNCHANGED entry
    BY <1>p, <2>1, <2>2, GotoMoves
  <2>3. CASE Preparable(Cur(b)) /\ NextRound(b) /\ UNCHANGED entry
    BY <2>1, <2>3, JumpMoves, NextRoundFacts
  <2>4. CASE Reject(b)
    BY <2>1, <2>4, ContinueMoves DEF Reject
  <2> QED BY <1>6, <2>2, <2>3, <2>4 DEF PreparePublishBody, queueVars
<1>7. CASE BindPublishBody(b)
  BY <1>7, JumpMoves, NextRoundFacts DEF BindPublishBody, worldVars, effectVars
<1>8. CASE BeginComment(b) \/ BeginMove(b)
  <2>1. UNCHANGED <<attempt, request, entry>> /\ br[b].pc \notin {"idle", "next"}
    BY <1>8 DEF BeginComment, BeginMove, TakeAuthority, worldVars, queueVars, effectVars
  <2>2. \/ Dies(b)
        \/ br[b].pc = "comment" /\ Goto(b, "exists")
        \/ br[b].pc = "move" /\ Goto(b, "set")
    BY <1>8 DEF BeginComment, BeginMove, TakeAuthority
  <2> QED BY <1>t, <1>p, <2>1, <2>2, DiesMoves, GotoMoves
<1>9. CASE CommentExists(b)
  BY <1>t, <1>p, <1>9, GotoMoves DEF CommentExists, worldVars, queueVars, effectVars
<1>10. CASE PostComment(b)
  BY <1>t, <1>p, <1>10, GotoMoves DEF PostComment, worldVars, queueVars
<1>11. CASE AdvanceCommented(b) \/ AdvanceTransitioned(b) \/ AdvancePublished(b)
  <2>1. UNCHANGED <<attempt, request, entry>> /\ br[b].pc \notin {"idle", "next"}
    BY <1>11 DEF AdvanceCommented, AdvanceTransitioned, AdvancePublished, Advance, worldVars, effectVars
  <2>2. Resume(Cur(b), "commented") \in {"refresh-move", "refresh-event"}
    BY DEF Resume
  <2>3. ASSUME NEW pc, NEW expected, NEW phase, NEW next \in {"refresh-move", "refresh-event", "receipt"},
               Advance(b, pc, expected, phase, next)
        PROVE  Moves(b)
    <3>1. CASE Dies(b)
      BY <2>1, <3>1, DiesMoves
    <3>2. CASE br' = [br EXCEPT ![b].pc = next, ![b].phase = phase]
      <4>1. br'[b].pc = next /\ br'[b].cur = br[b].cur /\ \A c \in Brokers \ {b} : br'[c] = br[c]
        BY <1>t, <3>2 DEF TypeOK
      <4> QED BY <2>1, <4>1, JumpMoves
    <3> QED BY <2>3, <3>1, <3>2 DEF Advance
  <2> QED BY <1>11, <2>2, <2>3 DEF AdvanceCommented, AdvanceTransitioned, AdvancePublished
<1>12. CASE MoveTask(b)
  BY <1>t, <1>p, <1>12, DiesMoves, GotoMoves DEF MoveTask, queueVars
<1>13. CASE EmitPublished(b) \/ WriteReceipt(b)
  BY <1>t, <1>p, <1>13, GotoMoves DEF EmitPublished, WriteReceipt, worldVars, queueVars
<1>14. CASE ArchiveEntry(b)
  <2>1. UNCHANGED <<attempt, request>> /\ Cur(b) \in Entries
    BY <1>t, <1>14 DEF ArchiveEntry, worldVars, effectVars
  <2>2. br'[b].pc = "release" /\ br'[b].cur = br[b].cur /\ \A c \in Brokers \ {b} : br'[c] = br[c]
    BY <1>t, <1>p, <1>14, GotoFacts, StepType DEF ArchiveEntry
  <2>3. entry \in [Entries -> EntryType]
    BY <1>t DEF TypeOK, EntryType
  <2>4. \A e \in Entries :
           /\ entry'[e].attempt = entry[e].attempt
           /\ \/ entry'[e].state = entry[e].state
              \/ entry[e].state = "pending" /\ entry'[e].state \in {"done", "failed"}
    <3>1. CASE entry' = entry
      BY <3>1
    <3>2. CASE entry[Cur(b)].state = "pending" /\ entry' = [entry EXCEPT ![Cur(b)].state = "done"]
      BY <2>1, <2>3, <3>2 DEF EntryType
    <3> QED BY <1>14, <3>1, <3>2 DEF ArchiveEntry
  <2> QED BY <1>14, <2>1, <2>2, <2>4 DEF ArchiveEntry, Moves
<1>15. CASE BrokerInterrupted(b)
  BY <1>15, DiesMoves DEF BrokerInterrupted, Crash, EffectUnavailable, worldVars, queueVars, effectVars
<1> QED BY <1>1, <1>2, <1>3, <1>4, <1>5, <1>6, <1>7, <1>8, <1>9, <1>10, <1>11, <1>12, <1>13,
           <1>14, <1>15 DEF BrokerStep

\* And to the journal.
Journals(b) ==
    /\ \A e \in Entries :
           /\ delivery'[e].phase # delivery[e].phase =>
                 e = Cur(b) /\ br[b].pc \notin {"idle", "next"}
           /\ delivery'[e].phase = "published" =>
                 \/ delivery[e].phase = "published"
                 \/ br'[b].pc = "receipt" /\ br'[b].cur = e
           /\ delivery'[e].body = "written" =>
                 \/ delivery[e].body = "written"
                 \/ br'[b].pc = "bind" /\ br'[b].cur = e
    /\ ~Crash(b) /\ br[b].pc = "bind" => delivery'[Cur(b)].body # "written"
    /\ ~Crash(b) /\ br[b].pc \in {"receipt", "archive"} =>
           \/ br'[b].pc = "archive" /\ br'[b].cur = br[b].cur
           \/ entry'[Cur(b)].state # "pending"

LEMMA SilentJournals ==
    ASSUME NEW b \in Brokers, UNCHANGED delivery, br[b].pc \notin {"bind", "receipt", "archive"}
    PROVE  Journals(b)
BY DEF Journals

LEMMA BrokerJournals ==
    ASSUME IInv, NEW b \in Brokers, BrokerStep(b) \/ BrokerInterrupted(b)
    PROVE  Journals(b)
<1>t. TypeOK /\ (br[b].pc \notin {"idle", "next"} => Cur(b) \in Entries)
  BY DEF IInv, JournalTruth, Placed, AtWork
<1>d. delivery \in [Entries -> DeliveryType]
  BY <1>t DEF TypeOK, DeliveryType
<1> USE DEF At
<1>1. CASE \/ Begin(b) \/ NextEntry(b) \/ FirstRefresh(b) \/ SecondRefresh(b) \/ RefreshAuthority(b)
           \/ RefreshMove(b) \/ RefreshEvent(b) \/ TakeLock(b) \/ RemoveOwner(b) \/ RemoveLock(b)
           \/ RetakeLock(b) \/ OwnLock(b) \/ ReleaseLock(b)
  BY <1>1, SilentJournals
     DEF Begin, NextEntry, FirstRefresh, SecondRefresh, RefreshAuthority, RefreshMove, RefreshEvent,
         Refresh, TakeLock, RemoveOwner, RemoveLock, RetakeLock, OwnLock, ReleaseLock, queueVars
<1>2. CASE \/ BeginComment(b) \/ BeginMove(b) \/ CommentExists(b) \/ PostComment(b) \/ MoveTask(b)
           \/ EmitPublished(b) \/ EffectUnavailable(b, {"exists", "post", "set"})
  BY <1>2, SilentJournals
     DEF BeginComment, BeginMove, TakeAuthority, CommentExists, PostComment, MoveTask, EmitPublished,
         EffectUnavailable, queueVars
<1>3. ASSUME NEW phase \in Phases, br[b].pc \notin {"idle", "next", "bind", "receipt", "archive"},
             delivery' = [delivery EXCEPT ![Cur(b)].phase = phase],
             phase = "published" /\ delivery[Cur(b)].phase # "published" =>
                 br'[b].pc = "receipt" /\ br'[b].cur = br[b].cur
      PROVE  Journals(b)
  <2>1. \A e \in Entries : /\ delivery'[e].body = delivery[e].body
                           /\ delivery'[e].phase = IF e = Cur(b) THEN phase ELSE delivery[e].phase
    BY <1>d, <1>3 DEF DeliveryType
  <2> QED BY <1>3, <2>1 DEF Journals, Cur
<1>4. CASE Stage(b)
  <2>1. CASE UNCHANGED delivery
    BY <1>4, <2>1, SilentJournals DEF Stage
  <2>2. ASSUME NEW phase \in Phases, phase = "published" => delivery[Cur(b)].phase = "published",
               delivery' = [delivery EXCEPT ![Cur(b)].phase = phase]
        PROVE  Journals(b)
    BY <1>3, <1>4, <2>2 DEF Stage
  <2> DEFINE phase == IF delivery[Cur(b)].phase = "none" THEN "pending" ELSE delivery[Cur(b)].phase
  <2>3. phase \in Phases /\ (phase = "published" => delivery[Cur(b)].phase = "published")
    BY <1>d, <1>t, <1>4 DEF Stage, DeliveryType, Phases
  <2>4. UNCHANGED delivery \/ delivery' = [delivery EXCEPT ![Cur(b)].phase = phase]
    BY <1>4 DEF Stage
  <2> HIDE DEF phase
  <2> QED BY <2>1, <2>2, <2>3, <2>4
<1>5. CASE AdvanceCommented(b) \/ AdvanceTransitioned(b) \/ AdvancePublished(b)
  <2>1. ASSUME NEW pc \in {"commented", "moved", "published"}, NEW expected,
               NEW phase \in {"commented", "transitioned", "published"}, NEW next,
               phase = "published" => next = "receipt", Advance(b, pc, expected, phase, next)
        PROVE  Journals(b)
    <3>1. CASE UNCHANGED delivery
      BY <2>1, <3>1, SilentJournals DEF Advance
    <3>2. CASE /\ delivery' = [delivery EXCEPT ![Cur(b)].phase = phase]
               /\ br' = [br EXCEPT ![b].pc = next, ![b].phase = phase]
      <4>1. br'[b].pc = next /\ br'[b].cur = br[b].cur
        BY <1>t, <3>2 DEF TypeOK
      <4> QED BY <1>3, <2>1, <3>2, <4>1 DEF Advance, Phases
    <3> QED BY <2>1, <3>1, <3>2 DEF Advance
  <2> QED BY <1>5, <2>1 DEF AdvanceCommented, AdvanceTransitioned, AdvancePublished
<1>6. CASE PreparePublishBody(b)
  <2>1. CASE UNCHANGED delivery
    BY <1>6, <2>1, SilentJournals DEF PreparePublishBody
  <2>2. CASE /\ delivery' = [delivery EXCEPT ![Cur(b)].body = "written",
                                             ![Cur(b)].head = Candidate(Cur(b))]
             /\ Goto(b, "bind")
    <3>1. br'[b].pc = "bind" /\ br'[b].cur = br[b].cur
      BY <1>t, <2>2, GotoFacts DEF BrokerPCs
    <3>2. \A e \in Entries : /\ delivery'[e].phase = delivery[e].phase
                             /\ e # Cur(b) => delivery'[e] = delivery[e]
      BY <1>d, <2>2 DEF DeliveryType
    <3> QED BY <1>6, <3>1, <3>2 DEF PreparePublishBody, Journals, Cur
  <2> QED BY <1>6, <2>1, <2>2 DEF PreparePublishBody, queueVars
<1>7. CASE BindPublishBody(b)
  <2>1. \A e \in Entries : /\ delivery'[e].phase = delivery[e].phase
                           /\ delivery'[e].body = IF e = Cur(b) THEN "bound" ELSE delivery[e].body
    BY <1>d, <1>7 DEF BindPublishBody, DeliveryType
  <2> QED BY <1>t, <1>7, <2>1 DEF BindPublishBody, Journals
<1>8. CASE WriteReceipt(b)
  <2>1. br'[b].pc = "archive" /\ br'[b].cur = br[b].cur
    BY <1>t, <1>8, GotoFacts DEF WriteReceipt, BrokerPCs
  <2> QED BY <1>8, <2>1 DEF WriteReceipt, queueVars, Journals
<1>9. CASE ArchiveEntry(b)
  <2>1. entry'[Cur(b)].state # "pending"
    BY <1>t, <1>9 DEF ArchiveEntry, TypeOK
  <2> QED BY <1>9, <2>1 DEF ArchiveEntry, Journals
<1>10. CASE Crash(b)
  BY <1>10 DEF Crash, queueVars, Journals
<1> QED BY <1>1, <1>2, <1>4, <1>5, <1>6, <1>7, <1>8, <1>9, <1>10 DEF BrokerStep, BrokerInterrupted

\* The world moves no broker, and leaves alone what has been sent; the dispatcher claims
\* between two runs of its brokers.
LEMMA WorldMoves ==
    ASSUME IInv, World
    PROVE  /\ UNCHANGED <<br, delivery, request, comments, moved>>
           /\ \A e \in Entries : entry[e].state \in Sent => entry'[e] = entry[e]
           /\ \A e \in Entries : entry[e].state \notin Sent => entry'[e].state \notin {"done", "failed"}
           /\ attempt' = attempt \/ DispatcherIdle
<1>1. /\ UNCHANGED <<br, delivery, request, comments, moved>>
      /\ attempt' = attempt \/ DispatcherIdle
  BY DEF World, Sign, Enqueue, LaunchGate, Retire, Claim, Commit, Block, Unblock, SyncHolds,
         worldVars, queueVars, effectVars, brokerVars
<1>2. entry \in [Entries -> EntryType]
  BY DEF IInv, JournalTruth, TypeOK, EntryType
<1>3. \A e \in Entries :
          \/ entry'[e] = entry[e]
          \/ entry[e].state \notin Sent /\ entry'[e].state \in {"signed", "pending"}
  <2>1. CASE entry' = entry
    BY <2>1
  <2>2. ASSUME NEW e \in Entries, Sign(e) \/ Enqueue(e)
        PROVE  \A f \in Entries :
                 \/ entry'[f] = entry[f]
                 \/ entry[f].state \notin Sent /\ entry'[f].state \in {"signed", "pending"}
    BY <1>2, <2>2 DEF Sign, Enqueue, Sent, EntryType
  <2> QED BY <2>1, <2>2 DEF World, LaunchGate, Retire, Claim, Commit, Block, Unblock, SyncHolds,
                            queueVars
<1> QED BY <1>1, <1>3 DEF Sent

LEMMA SubmittedKept == IInv /\ Submitted /\ [Next]_vars => Submitted'
<1> SUFFICES ASSUME IInv, Submitted, [Next]_vars PROVE Submitted'
  OBVIOUS
<1>w. \A c \in Brokers : br[c].pc \notin {"idle", "next"} => Cur(c) \in Entries
  BY DEF IInv, Placed, AtWork
<1>1. CASE World
  BY <1>w, <1>1, WorldMoves DEF Submitted, Cur
<1>2. ASSUME NEW b \in Brokers, BrokerStep(b) \/ BrokerInterrupted(b) PROVE Submitted'
  <2>1. Moves(b) /\ Journals(b)
    BY <1>2, BrokerMoves, BrokerJournals
  <2>2. \A e \in Entries : entry[e].state \in Sent <=> entry'[e].state \in Sent
    BY <2>1 DEF Moves, Sent
  <2>3. ASSUME NEW c \in Brokers, br'[c].pc \notin {"idle", "next"}
        PROVE  entry'[br'[c].cur].state \in Sent
    <3>1. CASE br'[c].cur = br[c].cur /\ br[c].pc \notin {"idle", "next"}
      BY <1>w, <2>2, <3>1 DEF Submitted, Cur
    <3>2. CASE br'[c].cur \in Entries /\ entry[br'[c].cur].state = "pending"
      BY <2>2, <3>2 DEF Sent
    <3> QED BY <2>1, <2>3, <3>1, <3>2 DEF Moves
  <2>4. ASSUME NEW e \in Entries, entry'[e].state \notin Sent PROVE delivery'[e].phase = "none"
    BY <1>w, <2>1, <2>2, <2>4 DEF Submitted, Journals
  <2> QED BY <2>3, <2>4 DEF Submitted, Cur
<1>3. CASE UNCHANGED vars
  BY <1>3 DEF Submitted, Cur, vars, queueVars, brokerVars
<1> QED BY <1>1, <1>2, <1>3 DEF Next

LEMMA SubmittedHolds == Spec => []Submitted
<1>1. Init => Submitted
  BY DEF Init, Submitted, BrokerIdle
<1> QED BY <1>1, SubmittedKept, Invariance, PTL DEF Spec

-----------------------------------------------------------------------------
(* The three properties of what a broker acts on.                            *)

\* A request whose move is under way is the current attempt's.
Moving == \A b \in Brokers :
    br[b].pc \in {"move", "set"} /\ Lane(Cur(b)) = "task" => entry[Cur(b)].attempt = attempt

LEMMA MovingKept == NoDirect /\ IInv /\ Submitted /\ Moving /\ [Next]_vars => Moving'
<1> SUFFICES ASSUME NoDirect, IInv, Submitted, Moving, [Next]_vars PROVE Moving'
  OBVIOUS
<1>w. \A c \in Brokers : br[c].pc \notin {"idle", "next"} =>
          Cur(c) \in Entries /\ entry[Cur(c)].state \in Sent
  BY DEF IInv, Placed, AtWork, Submitted
<1>1. CASE World
  <2>1. CASE attempt' = attempt
    BY <1>w, <1>1, <2>1, WorldMoves DEF Moving, Cur, Lane
  <2>2. CASE DispatcherIdle
    BY <1>1, <2>2, WorldMoves DEF Moving, DispatcherIdle, NoDirect
  <2> QED BY <1>1, <2>1, <2>2, WorldMoves
<1>2. ASSUME NEW b \in Brokers, BrokerStep(b) \/ BrokerInterrupted(b) PROVE Moving'
  <2>1. Moves(b)
    BY <1>2, BrokerMoves
  <2>2. ASSUME NEW c \in Brokers \ {b}, br'[c].pc \in {"move", "set"}, Lane(br'[c].cur) = "task"
        PROVE  entry'[br'[c].cur].attempt = attempt'
    BY <1>w, <2>1, <2>2 DEF Moves, Moving, Cur
  <2>3. ASSUME br'[b].pc \in {"move", "set"}, Lane(br'[b].cur) = "task"
        PROVE  entry'[br'[b].cur].attempt = attempt'
    <3>1. br[b].pc \notin {"idle", "next"} /\ br'[b].cur = br[b].cur /\ Cur(b) \in Entries
      BY <1>w, <2>1, <2>3 DEF Moves
    <3>2. entry[Cur(b)].attempt = attempt
      BY <2>1, <2>3, <3>1 DEF Moves, Moving, Authorized, Cur
    <3> QED BY <2>1, <3>1, <3>2 DEF Moves, Cur
  <2> QED BY <2>2, <2>3 DEF Moving, Cur, Lane
<1>3. CASE UNCHANGED vars
  BY <1>3 DEF Moving, Cur, Lane, vars, worldVars, queueVars, brokerVars
<1> QED BY <1>1, <1>2, <1>3 DEF Next

\* Of several dispatchers' brokers, each sees the attempt it checked until it is done: a
\* request moves the task only for the current attempt (process-outbox.sh:1508-1523).
THEOREM RequestsMoveTheirs == NoDirect => (Spec => RequestsMoveTheirAttempt)
<1> SUFFICES ASSUME NoDirect PROVE Spec => RequestsMoveTheirAttempt
  OBVIOUS
<1>1. Init => Moving
  BY DEF Init, Moving, BrokerIdle
<1>2. IInv /\ Moving /\ [Next]_vars
        => [\A e \in moved' \ moved : Lane(e) = "task" => entry[e].attempt = attempt]_vars
  <2> SUFFICES ASSUME IInv, Moving, Next, NEW e \in moved' \ moved, Lane(e) = "task"
               PROVE  entry[e].attempt = attempt
    OBVIOUS
  <2>1. PICK b \in Brokers : BrokerStep(b) \/ BrokerInterrupted(b)
    BY WorldMoves DEF Next
  <2>2. MoveTask(b)
    BY <2>1, BrokerSilent DEF Silent, PostComment, EmitPublished, WriteReceipt, ArchiveEntry, effectVars
  <2>3. e = Cur(b) /\ br[b].pc = "set"
    BY <2>2 DEF MoveTask, At
  <2> QED BY <2>3 DEF Moving
<1> QED BY <1>1, <1>2, MovingKept, SubmittedHolds, Invariance, PTL DEF Spec, RequestsMoveTheirAttempt

\* From the last look at an approval on, the request it is for is the one shown.
Approving == \A b \in Brokers :
    br[b].pc \in {"bind", "comment", "exists", "post"} /\ Marker[Cur(b)] = "approval"
        => entry[Cur(b)].attempt = request

LEMMA ApprovingKept == OneBroker /\ IInv /\ Submitted /\ Approving /\ [Next]_vars => Approving'
<1> SUFFICES ASSUME OneBroker, IInv, Submitted, Approving, [Next]_vars PROVE Approving'
  OBVIOUS
<1>w. \A c \in Brokers : br[c].pc \notin {"idle", "next"} =>
          Cur(c) \in Entries /\ entry[Cur(c)].state \in Sent
  BY DEF IInv, Placed, AtWork, Submitted
<1>1. CASE World
  BY <1>w, <1>1, WorldMoves DEF Approving, Cur
<1>2. ASSUME NEW b \in Brokers, BrokerStep(b) \/ BrokerInterrupted(b) PROVE Approving'
  <2>1. Moves(b) /\ \A c \in Brokers : c = b
    BY <1>2, BrokerMoves DEF OneBroker
  <2>2. ASSUME br'[b].pc \in {"bind", "comment", "exists", "post"}, Marker[br'[b].cur] = "approval"
        PROVE  entry'[br'[b].cur].attempt = request'
    <3>1. /\ br[b].pc \notin {"idle", "next"} /\ br'[b].cur = br[b].cur /\ Cur(b) \in Entries
          /\ request' = request
      BY <1>w, <2>1, <2>2 DEF Moves
    <3>2. entry[Cur(b)].attempt = request
      BY <2>1, <2>2, <3>1 DEF Moves, Approving, Preparable, Cur
    <3> QED BY <2>1, <3>1, <3>2 DEF Moves, Cur
  <2> QED BY <2>1, <2>2 DEF Approving, Cur
<1>3. CASE UNCHANGED vars
  BY <1>3 DEF Approving, Cur, vars, queueVars, effectVars, brokerVars
<1> QED BY <1>1, <1>2, <1>3 DEF Next

\* Between the broker's comparison of an approval with the request shown and its comment
\* lie a written file, three more looks and the tracker's search; with one broker none of
\* them lets a newer request in (process-outbox.sh:1316-1325, 1503).
THEOREM ApprovalsStayCurrent == OneBroker => (Spec => ApprovalsAreCurrent)
<1> SUFFICES ASSUME OneBroker PROVE Spec => ApprovalsAreCurrent
  OBVIOUS
<1>1. Init => Approving
  BY DEF Init, Approving, BrokerIdle
<1>2. IInv /\ Approving /\ [Next]_vars
        => [\A e \in Entries : Marker[e] = "approval" /\ comments'[e] # comments[e]
                                   => entry[e].attempt = request]_vars
  <2> SUFFICES ASSUME IInv, Approving, Next, NEW e \in Entries, Marker[e] = "approval",
                      comments'[e] # comments[e]
               PROVE  entry[e].attempt = request
    OBVIOUS
  <2>1. PICK b \in Brokers : BrokerStep(b) \/ BrokerInterrupted(b)
    BY WorldMoves DEF Next
  <2>2. PostComment(b)
    BY <2>1, BrokerSilent DEF Silent, MoveTask, EmitPublished, WriteReceipt, ArchiveEntry, effectVars
  <2>3. e = Cur(b) /\ br[b].pc = "post"
    BY <2>2 DEF PostComment, At, IInv, JournalTruth, TypeOK
  <2> QED BY <2>3 DEF Approving
<1> QED BY <1>1, <1>2, ApprovingKept, SubmittedHolds, Invariance, PTL DEF Spec, ApprovalsAreCurrent

\* A kill is spent, and no kill is given back.
Killed == budget.crashes \in Nat /\ budget.crashes < MaxCrashes
CrashesLeft == budget.crashes \in Nat /\ (~Killed => budget.crashes = MaxCrashes)

LEMMA KillsCount ==
    ASSUME TypeOK, CrashesLeft, [Next]_vars
    PROVE  /\ CrashesLeft' /\ (Killed => Killed')
           /\ ~Killed' => \A b \in Brokers : ~Crash(b)
<1>1. MaxCrashes \in Nat /\ budget \in [{"blocks", "heads", "outages", "crashes"} -> Nat]
  BY OutboxConstants DEF TypeOK
<1>2. ASSUME NEW what \in {"blocks", "heads", "outages"}, Spend(what)
      PROVE  budget'.crashes = budget.crashes
  BY <1>1, <1>2 DEF Spend
<1>3. ASSUME NEW b \in Brokers, Crash(b)
      PROVE  budget'.crashes = budget.crashes - 1 /\ budget.crashes > 0
  BY <1>1, <1>3 DEF Crash, Spend
<1>4. budget'.crashes = budget.crashes \/ \E b \in Brokers : Crash(b)
  <2>1. CASE World
    BY <2>1, <1>2 DEF World, Sign, Enqueue, LaunchGate, Retire, Claim, Commit, Block, Unblock, SyncHolds
  <2>2. ASSUME NEW b \in Brokers, NEW pc, NEW next, Refresh(b, pc, next)
        PROVE  budget'.crashes = budget.crashes
    BY <2>2, <1>2 DEF Refresh, Outage
  <2>3. ASSUME NEW b \in Brokers, BrokerStep(b) PROVE budget'.crashes = budget.crashes
    BY <2>3, <2>2 DEF BrokerStep, Begin, NextEntry, FirstRefresh, TakeLock, RemoveOwner, RemoveLock,
       RetakeLock, OwnLock, SecondRefresh, Stage, RefreshAuthority, PreparePublishBody,
       BindPublishBody, BeginComment, CommentExists, PostComment, AdvanceCommented, RefreshMove,
       BeginMove, MoveTask, AdvanceTransitioned, RefreshEvent, EmitPublished, AdvancePublished,
       WriteReceipt, ArchiveEntry, ReleaseLock, Advance, TakeAuthority
  <2>4. ASSUME NEW b \in Brokers, EffectUnavailable(b, {"exists", "post", "set"})
        PROVE  budget'.crashes = budget.crashes
    BY <2>4, <1>2 DEF EffectUnavailable
  <2> QED BY <2>1, <2>3, <2>4 DEF Next, BrokerInterrupted, vars
<1> QED BY <1>1, <1>3, <1>4 DEF Killed, CrashesLeft

\* What is begun and cannot be begun again is in the hands of a broker, unless one was killed.
InHand ==
    /\ CrashesLeft
    /\ ~Killed => \A e \in Entries :
          /\ delivery[e].body = "written" => \E b \in Brokers : br[b].pc = "bind" /\ Cur(b) = e
          /\ entry[e].state = "pending" /\ delivery[e].phase = "published" =>
                 \E b \in Brokers : br[b].pc \in {"receipt", "archive"} /\ Cur(b) = e

LEMMA InHandKept == IInv /\ Submitted /\ InHand /\ [Next]_vars => InHand'
<1> SUFFICES ASSUME IInv, Submitted, InHand, [Next]_vars, ~Killed' PROVE InHand'
  BY KillsCount DEF InHand, IInv, JournalTruth
<1>k. ~Killed /\ CrashesLeft' /\ \A b \in Brokers : ~Crash(b)
  BY KillsCount DEF InHand, IInv, JournalTruth
<1>1. CASE World
  <2>1. UNCHANGED <<br, delivery>>
    BY <1>1, WorldMoves
  <2>2. \A e \in Entries : delivery[e].phase = "published" => entry'[e] = entry[e]
    BY <1>1, WorldMoves DEF Submitted
  <2> QED BY <1>k, <2>1, <2>2 DEF InHand, Cur
<1>2. ASSUME NEW b \in Brokers, BrokerStep(b) \/ BrokerInterrupted(b) PROVE InHand'
  <2>1. Moves(b) /\ Journals(b)
    BY <1>2, BrokerMoves, BrokerJournals
  <2>2. ASSUME NEW e \in Entries, delivery'[e].body = "written"
        PROVE  \E c \in Brokers : br'[c].pc = "bind" /\ br'[c].cur = e
    <3>1. CASE br'[b].pc = "bind" /\ br'[b].cur = e
      BY <3>1
    <3>2. CASE delivery[e].body = "written"
      <4>1. PICK c \in Brokers : br[c].pc = "bind" /\ Cur(c) = e
        BY <1>k, <3>2 DEF InHand
      <4>2. c # b
        BY <1>k, <2>1, <2>2, <4>1 DEF Journals
      <4> QED BY <2>1, <4>1, <4>2 DEF Moves, Cur
    <3> QED BY <2>1, <2>2, <3>1, <3>2 DEF Journals
  <2>3. ASSUME NEW e \in Entries, entry'[e].state = "pending", delivery'[e].phase = "published"
        PROVE  \E c \in Brokers : br'[c].pc \in {"receipt", "archive"} /\ br'[c].cur = e
    <3>1. CASE br'[b].pc = "receipt" /\ br'[b].cur = e
      BY <3>1
    <3>2. CASE delivery[e].phase = "published"
      <4>0. entry[e].state = "pending"
        BY <2>1, <2>3 DEF Moves
      <4>1. PICK c \in Brokers : br[c].pc \in {"receipt", "archive"} /\ Cur(c) = e
        BY <1>k, <3>2, <4>0 DEF InHand
      <4>2. CASE c = b
        BY <1>k, <2>1, <2>3, <4>1, <4>2 DEF Journals, Cur
      <4>3. CASE c # b
        BY <2>1, <4>1, <4>3 DEF Moves, Cur
      <4> QED BY <4>2, <4>3
    <3> QED BY <2>1, <2>3, <3>1, <3>2 DEF Journals
  <2> QED BY <1>k, <2>2, <2>3 DEF InHand, Cur
<1>3. CASE UNCHANGED vars
  BY <1>k, <1>3 DEF InHand, Cur, vars, queueVars, brokerVars
<1> QED BY <1>1, <1>2, <1>3 DEF Next

\* What a broker gives up: the entry it has, at a look that fails.
LEMMA GivesUp ==
    ASSUME IInv, NEW b \in Brokers, BrokerStep(b) \/ BrokerInterrupted(b), NEW e \in Entries,
           entry[e].state = "pending", entry'[e].state = "failed"
    PROVE  /\ e = Cur(b)
           /\ \/ ~Authorized(e)
              \/ Stage(b) /\ Consumed(e)
              \/ PreparePublishBody(b) /\ (\/ ~Preparable(e)
                                           \/ delivery[e].body = "written"
                                           \/ delivery[e].body = "bound" /\ delivery[e].head # Candidate(e))
<1>t. entry \in [Entries -> EntryType]
  BY DEF IInv, JournalTruth, TypeOK, EntryType
<1>r. Reject(b) => e = Cur(b)
  BY <1>t DEF Reject, Rejected, EntryType
<1>1. CASE \/ FirstRefresh(b) \/ SecondRefresh(b) \/ RefreshAuthority(b) \/ RefreshMove(b)
           \/ RefreshEvent(b)
  BY <1>1, <1>r
     DEF FirstRefresh, SecondRefresh, RefreshAuthority, RefreshMove, RefreshEvent, Refresh, Outage
<1>2. CASE Stage(b)
  BY <1>2, <1>r DEF Stage
<1>3. CASE PreparePublishBody(b)
  BY <1>3, <1>r DEF PreparePublishBody, queueVars
<1>4. CASE ArchiveEntry(b)
  BY <1>4, <1>t DEF ArchiveEntry, EntryType
<1>5. CASE \/ Begin(b) \/ NextEntry(b) \/ TakeLock(b) \/ RemoveOwner(b) \/ RemoveLock(b)
           \/ RetakeLock(b) \/ OwnLock(b) \/ BindPublishBody(b) \/ BeginComment(b)
           \/ CommentExists(b) \/ PostComment(b) \/ AdvanceCommented(b) \/ BeginMove(b)
           \/ MoveTask(b) \/ AdvanceTransitioned(b) \/ EmitPublished(b) \/ AdvancePublished(b)
           \/ WriteReceipt(b) \/ ReleaseLock(b) \/ BrokerInterrupted(b)
  BY <1>5
     DEF Begin, NextEntry, TakeLock, RemoveOwner, RemoveLock, RetakeLock, OwnLock, BindPublishBody,
         BeginComment, CommentExists, PostComment, AdvanceCommented, BeginMove, MoveTask,
         AdvanceTransitioned, EmitPublished, AdvancePublished, WriteReceipt, ReleaseLock,
         BrokerInterrupted, Advance, TakeAuthority, Crash, EffectUnavailable, queueVars
<1> QED BY <1>1, <1>2, <1>3, <1>4, <1>5 DEF BrokerStep

\* However many brokers run and wherever they are killed, what is rejected is stopped, of an
\* attempt that is over, no longer current, or was left half done by a kill or is being
\* finished by another broker (process-outbox.sh:1081, 1183).
THEOREM RejectionsHaveCause == Spec => RejectedForCause
<1>1. Init => InHand
  BY OutboxConstants DEF Init, InHand, Killed, CrashesLeft
<1>2. IInv /\ InHand /\ [Next]_vars
        => [\A e \in Entries : entry[e].state = "pending" /\ entry'[e].state = "failed" =>
              \/ ~Authorized(e) \/ ~Preparable(e)
              \/ delivery[e].body # "none" /\ delivery[e].head # Candidate(e)
              \/ HalfDone(e)]_vars
  <2> SUFFICES ASSUME IInv, InHand, Next, NEW e \in Entries, entry[e].state = "pending",
                      entry'[e].state = "failed"
               PROVE  \/ ~Authorized(e) \/ ~Preparable(e)
                      \/ delivery[e].body # "none" /\ delivery[e].head # Candidate(e)
                      \/ HalfDone(e)
    OBVIOUS
  <2>1. PICK b \in Brokers : BrokerStep(b) \/ BrokerInterrupted(b)
    BY WorldMoves DEF Next, Sent
  <2>2. CASE Stage(b) /\ Consumed(e)
    BY <2>2 DEF Consumed, InHand, Killed, HalfDone
  <2>3. CASE PreparePublishBody(b) /\ delivery[e].body = "written"
    <3>1. CASE Killed
      BY <2>3, <3>1 DEF Killed, HalfDone
    <3>2. CASE ~Killed
      <4>1. PICK c \in Brokers : br[c].pc = "bind"
        BY <2>3, <3>2 DEF InHand
      <4> QED BY <2>3, <4>1, OutboxConstants DEF PreparePublishBody, IInv, Placed, Authorities, Nobody
    <3> QED BY <3>1, <3>2
  <2> QED BY <2>1, <2>2, <2>3, GivesUp
<1> QED BY <1>1, <1>2, InHandKept, SubmittedHolds, Invariance, PTL DEF Spec, RejectedForCause
=============================================================================
