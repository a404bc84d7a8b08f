------------------------------- MODULE Outbox -------------------------------
(***************************************************************************)
(* The durable outbox.  bin/submit-artifact.sh has a launched role's        *)
(* artifact signed and admitted, and puts it in outbox/pending;             *)
(* bin/process-outbox.sh takes it through a protected delivery: comment     *)
(* once, move the task, emit, receipt.  Every pc of br[b] is a place        *)
(* between two durable effects of broker b, or between a check and the      *)
(* effect it guards.  Mint, revoke, sign, stage and hold sync take the       *)
(* broker authority lock for one step each; a tracker effect holds it across *)
(* its hold check and the tracker's answer.                                  *)
(***************************************************************************)
EXTENDS TaskHold, Naturals, FiniteSets

CONSTANTS Entries,      \* submissions, in the order of their file names
          Marker,         \* what each of them is
          Brokers,        \* runs of process-outbox.sh
          Direct,         \* the ones that submit-artifact.sh starts on one entry
          CrashAt,        \* pcs at which a broker may be killed
          MaxAttempts, MaxGates, MaxBlocks, MaxHeads, MaxOutages, MaxCrashes

Markers == {"review-request", "review-findings", "approval"}
Lanes == {"task", "gate"}

ASSUME OutboxConstants ==
    /\ Entries \subseteq Nat /\ IsFiniteSet(Entries)
    /\ Marker \in [Entries -> Markers]
    /\ Direct \subseteq Brokers
    /\ {MaxAttempts, MaxGates, MaxBlocks, MaxHeads, MaxOutages, MaxCrashes} \subseteq Nat
    /\ Brokers \cap {"absent", "ownerless", "dead", "nobody"} = {}

VARIABLES
    status,    \* of the task in the tracker
    attempt,   \* of the canonical execution record
    head,      \* of the task branch
    hold,      \* the task's entry in the protected hold registry
    cap,       \* the newest capability of each lane, and whether it is active
    request,   \* the attempt whose review request the tracker shows last
    entry,     \* what outbox/pending, done and failed hold
    delivery,  \* the protected delivery record and its publish body
    comments,  \* how often each artifact was posted
    moved,     \* entries whose requested status was reached
    events,    \* entries with an artifact.published event
    receipts,  \* entries with a protected receipt
    lock,      \* outbox/locks
    authority, \* the broker inside locked_tracker_effect
    br,        \* the brokers
    budget     \* how often the environment may still interfere

worldVars == <<status, attempt, head, hold, cap>>
queueVars == <<entry, delivery>>
effectVars == <<request, comments, moved, events, receipts>>
brokerVars == <<lock, authority, br>>
vars == <<worldVars, queueVars, effectVars, brokerVars, budget>>

Phases == {"none", "pending", "commented", "transitioned", "published"}

\* targetStatus; an approval is comment-only.
Target(e) == CASE Marker[e] = "review-request" -> "Review"
               [] Marker[e] = "review-findings" -> "Planned"
               [] Marker[e] = "approval" -> "-"
HasTarget(e) == Target(e) # "-"
Lane(e) == IF Marker[e] = "review-request" THEN "task" ELSE "gate"

\* The transitions of config/statuses.config.json.
Transitions == {<<"Planned", "Active">>, <<"Planned", "Blocked">>,
                <<"Active", "Review">>, <<"Active", "Blocked">>,
                <<"Review", "Planned">>, <<"Review", "Blocked">>,
                <<"Blocked", "Planned">>, <<"Blocked", "Active">>, <<"Blocked", "Review">>}

\* A lock directory is absent, without an owner file, or names a process.
Absent == "absent"
Ownerless == "ownerless"
Dead == "dead"

BrokerPCs == {"idle", "next", "first", "lock", "rm-owner", "rmdir", "mkdir", "own",
              "second", "stage", "refresh", "prepare", "bind", "comment", "exists", "post", "commented",
              "refresh-move", "move", "set", "moved", "refresh-event", "event", "published",
              "receipt", "archive", "release"}

NoEntry == 0
Nobody == "nobody"
BrokerIdle == [pc |-> "idle", todo |-> {}, cur |-> NoEntry, round |-> 0, phase |-> "none"]

Rounds == 4

Init ==
    /\ status = "Active" /\ attempt = 1 /\ head = 0 /\ hold = "none"
    /\ cap = [l \in Lanes |-> [gen |-> IF l = "task" THEN 1 ELSE 0, live |-> l = "task"]]
    /\ request = 0
    /\ entry = [e \in Entries |-> [state |-> "unsent", gen |-> 0, attempt |-> 0]]
    /\ delivery = [e \in Entries |-> [phase |-> "none", body |-> "none", head |-> 0]]
    /\ comments = [e \in Entries |-> 0]
    /\ moved = {} /\ events = {} /\ receipts = {}
    /\ lock = [e \in Entries |-> Absent] /\ authority = Nobody
    /\ br = [b \in Brokers |-> BrokerIdle]
    /\ budget = [blocks |-> MaxBlocks, heads |-> MaxHeads,
                 outages |-> MaxOutages, crashes |-> MaxCrashes]

Spend(what) == /\ budget[what] > 0
               /\ budget' = [budget EXCEPT ![what] = @ - 1]

DispatcherIdle == \A b \in Brokers \ Direct : br[b].pc = "idle"

-----------------------------------------------------------------------------
(* The producers and their world.                                           *)

\* A worker's or reviewer's current generation is active in its lane.
Active(l) == cap[l].live
Current(e) == Active(Lane(e)) /\ cap[Lane(e)].gen = entry[e].gen

(* sign_active_entry: signed and durably admitted while the generation is   *)
(* active.  A reviewer's artifact is about the request it was shown.        *)
Sign(e) ==
    /\ authority = Nobody
    /\ entry[e].state = "unsent" /\ Active(Lane(e))
    /\ Lane(e) = "gate" => request > 0
    /\ entry' = [entry EXCEPT ![e] =
         [state |-> "signed", gen |-> cap[Lane(e)].gen,
          attempt |-> IF Lane(e) = "task" THEN cap["task"].gen ELSE request]]
    /\ UNCHANGED <<worldVars, delivery, effectVars, brokerVars, budget>>

\* os.replace puts the signed entry in outbox/pending, whoever was fenced since.
Enqueue(e) ==
    /\ entry[e].state = "signed"
    /\ entry' = [entry EXCEPT ![e].state = "pending"]
    /\ UNCHANGED <<worldVars, delivery, effectVars, brokerVars, budget>>

\* A gate role is launched for a task in review; mint supersedes the lane.
LaunchGate ==
    /\ authority = Nobody
    /\ status = "Review" /\ cap["gate"].gen < MaxGates
    /\ cap' = [cap EXCEPT !["gate"] = [gen |-> @.gen + 1, live |-> TRUE]]
    /\ UNCHANGED <<status, attempt, head, hold, queueVars, effectVars, brokerVars, budget>>

\* The publication supervisor of an exiting role revokes its generation.
Retire(l) ==
    /\ authority = Nobody /\ Active(l)
    /\ cap' = [cap EXCEPT ![l].live = FALSE]
    /\ UNCHANGED <<status, attempt, head, hold, queueVars, effectVars, brokerVars, budget>>

\* The dispatcher claims a queued task between two runs of its brokers.
Claim ==
    /\ DispatcherIdle /\ authority = Nobody
    /\ status = "Planned" /\ ~Held(hold) /\ attempt < MaxAttempts
    /\ status' = "Active" /\ attempt' = attempt + 1
    /\ cap' = [cap EXCEPT !["task"] = [gen |-> attempt + 1, live |-> TRUE]]
    /\ UNCHANGED <<head, hold, queueVars, effectVars, brokerVars, budget>>

\* The task's worker commits once more.
Commit ==
    /\ Active("task") /\ Spend("heads")
    /\ head' = head + 1
    /\ UNCHANGED <<status, attempt, hold, cap, queueVars, effectVars, brokerVars>>

\* A human blocks the task, or takes the block away.
Block ==
    /\ status # "Blocked" /\ Spend("blocks")
    /\ status' = "Blocked"
    /\ UNCHANGED <<attempt, head, hold, cap, queueVars, effectVars, brokerVars>>

Unblock ==
    /\ status = "Blocked"
    /\ \E s \in Statuses : <<"Blocked", s>> \in Transitions /\ status' = s
    /\ UNCHANGED <<attempt, head, hold, cap, queueVars, effectVars, brokerVars, budget>>

(* A reconcile syncs the registry with the tracker and stops the worker of  *)
(* a blocked task.                                                          *)
SyncHolds ==
    /\ authority = Nobody
    /\ \E cleared \in BOOLEAN : hold' = AfterSync(hold, status, cleared)
    /\ hold' # hold
    /\ cap' = IF status = "Blocked" THEN [cap EXCEPT !["task"].live = FALSE] ELSE cap
    /\ UNCHANGED <<status, attempt, head, queueVars, effectVars, brokerVars, budget>>

-----------------------------------------------------------------------------
(* process-outbox.sh.  "continue" goes to the next entry of the glob; under  *)
(* set -e a failing command ends the run with its lock in place; reject      *)
(* releases the lock and moves the entry to outbox/failed.                   *)

At(b, pc) == br[b].pc = pc
Goto(b, pc) == br' = [br EXCEPT ![b].pc = pc]
Cur(b) == br[b].cur

Continue(b) == br' = [br EXCEPT ![b] = [BrokerIdle EXCEPT !.pc = "next", !.todo = br[b].todo]]

\* Mutant: the lock of a dead process still counts as owned.
Dies_StillOwned(b) ==
    /\ br' = [br EXCEPT ![b] = BrokerIdle] /\ UNCHANGED lock
    /\ authority' = IF authority = b THEN Nobody ELSE authority

Dies(b) ==
    /\ br' = [br EXCEPT ![b] = BrokerIdle]
    /\ lock' = [e \in Entries |-> IF lock[e] = b THEN Dead ELSE lock[e]]
    /\ authority' = IF authority = b THEN Nobody ELSE authority

Unlocked(e) == [lock EXCEPT ![e] = Absent]

Rejected(e) == IF entry[e].state = "pending"
               THEN [entry EXCEPT ![e].state = "failed"] ELSE entry

Reject(b) ==
    /\ entry' = Rejected(Cur(b))
    /\ lock' = IF br[b].pc = "first" THEN lock ELSE Unlocked(Cur(b))
    /\ Continue(b)
    /\ UNCHANGED authority

Outage(b) ==
    /\ Spend("outages")
    /\ br' = [br EXCEPT ![b] = BrokerIdle]
    /\ lock' = IF br[b].pc = "first" THEN lock ELSE Unlocked(Cur(b))
    /\ UNCHANGED <<entry, authority>>

(* refresh_authority: a fresh export, the hold, and for a task-role artifact *)
(* the canonical execution record.  Of the markers modelled none may pass    *)
(* a resume barrier.  An admitted package needs no active capability.        *)
\* Mutant: the execution record is not consulted.
Authorized_AnyAttempt(e) == status # "Blocked" /\ ~Held(hold)

Authorized(e) ==
    /\ status # "Blocked" /\ ~Held(hold)
    /\ Lane(e) = "task" => entry[e].attempt = attempt

Refresh(b, pc, next) ==
    /\ At(b, pc)
    /\ \/ Authorized(Cur(b)) /\ Goto(b, next) /\ UNCHANGED <<entry, lock, authority, budget>>
       \/ ~Authorized(Cur(b)) /\ Reject(b) /\ UNCHANGED budget
       \/ Outage(b)
    /\ UNCHANGED <<worldVars, delivery, effectVars>>

Begin(b) ==
    /\ At(b, "idle")
    /\ \E glob \in IF b \in Direct THEN {{e} : e \in Entries} ELSE {Entries} :
          LET todo == {e \in glob : entry[e].state = "pending"} IN
          /\ todo # {}
          /\ br' = [br EXCEPT ![b].pc = "next", ![b].todo = todo]
    /\ UNCHANGED <<worldVars, queueVars, effectVars, lock, authority, budget>>

NextEntry(b) ==
    /\ At(b, "next")
    /\ \/ br[b].todo = {} /\ br' = [br EXCEPT ![b] = BrokerIdle]
       \/ \E e \in br[b].todo :
             /\ \A f \in br[b].todo : e <= f
             /\ br' = [br EXCEPT ![b].todo = @ \ {e},
                        ![b].cur = IF entry[e].state = "pending" THEN e ELSE NoEntry,
                        ![b].pc = IF entry[e].state = "pending" THEN "first" ELSE "next"]
    /\ UNCHANGED <<worldVars, queueVars, effectVars, lock, authority, budget>>

FirstRefresh(b) == Refresh(b, "first", "lock")

(* The lock directory, and the takeover of one whose owner is dead: mkdir,   *)
(* or read the owner and rm, rmdir and mkdir again.                          *)
TakeLock(b) ==
    /\ At(b, "lock")
    /\ LET l == lock[Cur(b)] IN
       IF l = Absent THEN lock' = [lock EXCEPT ![Cur(b)] = Ownerless] /\ Goto(b, "own")
       ELSE /\ UNCHANGED lock
            /\ IF l = Dead THEN Goto(b, "rm-owner") ELSE Continue(b)
    /\ UNCHANGED <<worldVars, queueVars, effectVars, authority, budget>>

RemoveOwner(b) ==
    /\ At(b, "rm-owner")
    /\ lock' = [lock EXCEPT ![Cur(b)] = IF @ = Absent THEN Absent ELSE Ownerless]
    /\ Goto(b, "rmdir")
    /\ UNCHANGED <<worldVars, queueVars, effectVars, authority, budget>>

RemoveLock(b) ==
    /\ At(b, "rmdir")
    /\ IF lock[Cur(b)] = Ownerless THEN lock' = Unlocked(Cur(b)) /\ Goto(b, "mkdir")
       ELSE Continue(b) /\ UNCHANGED lock
    /\ UNCHANGED <<worldVars, queueVars, effectVars, authority, budget>>

RetakeLock(b) ==
    /\ At(b, "mkdir")
    /\ IF lock[Cur(b)] = Absent
       THEN lock' = [lock EXCEPT ![Cur(b)] = Ownerless] /\ Goto(b, "own")
       ELSE Continue(b) /\ UNCHANGED lock
    /\ UNCHANGED <<worldVars, queueVars, effectVars, authority, budget>>

\* The owner file, and whether the entry is still there.
OwnLock(b) ==
    /\ At(b, "own")
    /\ IF lock[Cur(b)] = Absent THEN Dies(b)
       ELSE /\ UNCHANGED authority
            /\ IF entry[Cur(b)].state # "pending"
               THEN lock' = Unlocked(Cur(b)) /\ Continue(b)
               ELSE lock' = [lock EXCEPT ![Cur(b)] = b] /\ Goto(b, "second")
    /\ UNCHANGED <<worldVars, queueVars, effectVars, budget>>

SecondRefresh(b) == Refresh(b, "second", "stage")

\* Where a delivery in this phase goes on.
Resume(e, phase) == CASE phase = "pending" -> "refresh"
                      [] phase = "commented" /\ HasTarget(e) -> "refresh-move"
                      [] phase = "published" -> "receipt"
                      [] OTHER -> "refresh-event"

\* A fenced generation cannot consume its admission again.
\* Mutant: an admission cannot be consumed by a fenced generation at all.
Consumed_BeforePublished(e) == ~Current(e)
Consumed(e) == delivery[e].phase = "published" /\ ~Current(e)

(* broker_stage: the delivery identity is the digest of the producer's       *)
(* package, so a restart finds the record it left.                           *)
Stage(b) ==
    /\ At(b, "stage") /\ authority = Nobody
    /\ LET e == Cur(b)
           phase == IF delivery[e].phase = "none" THEN "pending" ELSE delivery[e].phase IN
       IF entry[e].state # "pending" \/ Consumed(e)
       THEN Reject(b) /\ UNCHANGED delivery
       ELSE /\ delivery' = [delivery EXCEPT ![e].phase = phase]
            /\ br' = [br EXCEPT ![b].pc = Resume(e, phase), ![b].phase = phase, ![b].round = 1]
            /\ UNCHANGED <<entry, lock, authority>>
    /\ UNCHANGED <<worldVars, effectVars, budget>>

RefreshAuthority(b) == Refresh(b, "refresh", "prepare")

\* The bytes an artifact is published with: a request's name the branch head.
Candidate(e) == IF Marker[e] = "review-request" THEN head ELSE 0

\* finalize-approval: an approval is for the request the tracker shows.
\* Mutant: the request is not compared.
Preparable_Any(e) == TRUE
Preparable(e) == Marker[e] = "approval" => entry[e].attempt = request

NextRound(b) ==
    br' = [br EXCEPT ![b].round = @ + 1,
                     ![b].pc = IF br[b].round < Rounds THEN "refresh" ELSE "comment"]

(* prepare_publish_body and commit_publish_body: the publish body is created *)
(* exclusively, and only then named by the record.                           *)
PreparePublishBody(b) ==
    /\ At(b, "prepare") /\ authority = Nobody
    /\ LET e == Cur(b) IN
       \/ /\ Preparable(e) /\ delivery[e].body = "none"
          /\ delivery' = [delivery EXCEPT ![e].body = "written", ![e].head = Candidate(e)]
          /\ authority' = b /\ Goto(b, "bind") /\ UNCHANGED <<entry, lock>>
       \/ /\ Preparable(e) /\ delivery[e].body = "bound" /\ delivery[e].head = Candidate(e)
          /\ NextRound(b) /\ UNCHANGED <<queueVars, lock, authority>>
       \/ /\ \/ ~Preparable(e)
             \/ delivery[e].body = "written"
             \/ delivery[e].body = "bound" /\ delivery[e].head # Candidate(e)
          /\ Reject(b) /\ UNCHANGED delivery
    /\ UNCHANGED <<worldVars, effectVars, budget>>

BindPublishBody(b) ==
    /\ At(b, "bind")
    /\ delivery' = [delivery EXCEPT ![Cur(b)].body = "bound"]
    /\ authority' = Nobody /\ NextRound(b)
    /\ UNCHANGED <<worldVars, entry, effectVars, lock, budget>>

(* locked_tracker_effect: the hold is checked again under the lock that      *)
(* every hold mutation takes; then the tracker is asked, and answers or is   *)
(* unavailable.  A failing effect ends the run.                              *)
\* Mutant: the hold is not checked again.
TakeAuthority_Unchecked(b, pc, next) ==
    /\ At(b, pc) /\ authority = Nobody
    /\ authority' = b /\ Goto(b, next)
    /\ UNCHANGED <<worldVars, queueVars, effectVars, lock, budget>>

TakeAuthority(b, pc, next) ==
    /\ At(b, pc) /\ authority = Nobody
    /\ IF Held(hold) THEN Dies(b)
       ELSE authority' = b /\ Goto(b, next) /\ UNCHANGED lock
    /\ UNCHANGED <<worldVars, queueVars, effectVars, budget>>

EffectUnavailable(b, pcs) ==
    /\ br[b].pc \in pcs /\ Spend("outages")
    /\ Dies(b)
    /\ UNCHANGED <<worldVars, queueVars, effectVars>>

\* Mutant: the search and the post are not one locked effect.
BeginComment_Unlocked(b) ==
    /\ At(b, "comment") /\ ~Held(hold) /\ Goto(b, "exists")
    /\ UNCHANGED <<worldVars, queueVars, effectVars, lock, authority, budget>>
BeginComment(b) == TakeAuthority(b, "comment", "exists")

\* comment-once: the tracker is searched for the delivery id before it is posted.
CommentExists(b) ==
    /\ At(b, "exists")
    /\ IF comments[Cur(b)] > 0 THEN authority' = Nobody /\ Goto(b, "commented")
       ELSE UNCHANGED authority /\ Goto(b, "post")
    /\ UNCHANGED <<worldVars, queueVars, effectVars, lock, budget>>

PostComment(b) ==
    /\ At(b, "post")
    /\ LET e == Cur(b) IN
       /\ comments' = [comments EXCEPT ![e] = @ + 1]
       /\ request' = IF Marker[e] = "review-request" THEN entry[e].attempt ELSE request
    /\ authority' = Nobody /\ Goto(b, "commented")
    /\ UNCHANGED <<worldVars, queueVars, moved, events, receipts, lock, budget>>

\* advance_delivery, and then the shell's own phase.
Advance(b, pc, expected, phase, next) ==
    /\ At(b, pc) /\ authority = Nobody
    /\ IF delivery[Cur(b)].phase = expected
       THEN /\ delivery' = [delivery EXCEPT ![Cur(b)].phase = phase]
            /\ br' = [br EXCEPT ![b].pc = next, ![b].phase = phase]
            /\ UNCHANGED <<lock, authority>>
       ELSE Dies(b) /\ UNCHANGED delivery
    /\ UNCHANGED <<worldVars, entry, effectVars, budget>>

AdvanceCommented(b) ==
    Advance(b, "commented", "pending", "commented", Resume(Cur(b), "commented"))

RefreshMove(b) == Refresh(b, "refresh-move", "move")

BeginMove(b) == TakeAuthority(b, "move", "set")

\* op_state: the same status is fine, an illegal transition is an andon.
MoveTask(b) ==
    /\ At(b, "set")
    /\ LET e == Cur(b) IN
       IF /\ status # "Blocked"
          /\ status = Target(e) \/ <<status, Target(e)>> \in Transitions
       THEN /\ status' = Target(e) /\ moved' = moved \cup {e}
            /\ authority' = Nobody /\ Goto(b, "moved")
            /\ UNCHANGED lock
       ELSE Dies(b) /\ UNCHANGED <<status, moved>>
    /\ UNCHANGED <<attempt, head, hold, cap, queueVars,
                   request, comments, events, receipts, budget>>

AdvanceTransitioned(b) ==
    Advance(b, "moved", "commented", "transitioned", "refresh-event")

RefreshEvent(b) == Refresh(b, "refresh-event", "event")

\* Mutant: the receipt comes first.
EmitPublished_ReceiptFirst(b) ==
    /\ At(b, "event")
    /\ events' = events \cup {Cur(b)}
    /\ Goto(b, "receipt")
    /\ UNCHANGED <<worldVars, queueVars, request, comments, moved, receipts,
                   lock, authority, budget>>

EmitPublished(b) ==
    /\ At(b, "event")
    /\ events' = events \cup {Cur(b)}
    /\ Goto(b, "published")
    /\ UNCHANGED <<worldVars, queueVars, request, comments, moved, receipts,
                   lock, authority, budget>>

AdvancePublished(b) == Advance(b, "published", br[b].phase, "published", "receipt")

\* broker_evidence.py, after the delivery is published.
WriteReceipt(b) ==
    /\ At(b, "receipt")
    /\ receipts' = receipts \cup {Cur(b)}
    /\ Goto(b, "archive")
    /\ UNCHANGED <<worldVars, queueVars, request, comments, moved, events,
                   lock, authority, budget>>

ArchiveEntry(b) ==
    /\ At(b, "archive")
    /\ entry' = IF entry[Cur(b)].state = "pending"
                THEN [entry EXCEPT ![Cur(b)].state = "done"] ELSE entry
    /\ Goto(b, "release")
    /\ UNCHANGED <<worldVars, delivery, effectVars, lock, authority, budget>>

ReleaseLock(b) ==
    /\ At(b, "release")
    /\ lock' = Unlocked(Cur(b))
    /\ Continue(b)
    /\ UNCHANGED <<worldVars, queueVars, effectVars, authority, budget>>

Crash(b) ==
    /\ br[b].pc \in CrashAt /\ Spend("crashes")
    /\ Dies(b)
    /\ UNCHANGED <<worldVars, queueVars, effectVars>>

-----------------------------------------------------------------------------
BrokerStep(b) ==
    \/ Begin(b) \/ NextEntry(b) \/ FirstRefresh(b)
    \/ TakeLock(b) \/ RemoveOwner(b) \/ RemoveLock(b) \/ RetakeLock(b) \/ OwnLock(b)
    \/ SecondRefresh(b) \/ Stage(b)
    \/ RefreshAuthority(b) \/ PreparePublishBody(b) \/ BindPublishBody(b)
    \/ BeginComment(b) \/ CommentExists(b) \/ PostComment(b) \/ AdvanceCommented(b)
    \/ RefreshMove(b) \/ BeginMove(b) \/ MoveTask(b) \/ AdvanceTransitioned(b)
    \/ RefreshEvent(b) \/ EmitPublished(b) \/ AdvancePublished(b)
    \/ WriteReceipt(b) \/ ArchiveEntry(b) \/ ReleaseLock(b)

BrokerInterrupted(b) == Crash(b) \/ EffectUnavailable(b, {"exists", "post", "set"})

World ==
    \/ \E e \in Entries : Sign(e) \/ Enqueue(e)
    \/ LaunchGate \/ (\E l \in Lanes : Retire(l))
    \/ Claim \/ Commit \/ Block \/ Unblock \/ SyncHolds

Next == World \/ \E b \in Brokers : BrokerStep(b) \/ BrokerInterrupted(b)

Spec == Init /\ [][Next]_vars

\* The dispatcher runs pass after pass, and a broker that has begun runs until it ends or is
\* killed; nobody has to publish.
FairSpec == Spec /\ \A b \in Brokers : WF_vars(BrokerStep(b) /\ (b \in Direct => br[b].pc # "idle"))

-----------------------------------------------------------------------------
TypeOK ==
    /\ status \in Statuses /\ attempt \in Nat /\ head \in Nat /\ hold \in Holds
    /\ cap \in [Lanes -> [gen : Nat, live : BOOLEAN]]
    /\ request \in Nat
    /\ entry \in [Entries -> [state : {"unsent", "signed", "pending", "done", "failed"},
                              gen : Nat, attempt : Nat]]
    /\ delivery \in [Entries -> [phase : Phases, body : {"none", "written", "bound"},
                                 head : Nat]]
    /\ comments \in [Entries -> Nat]
    /\ moved \subseteq Entries /\ events \subseteq Entries /\ receipts \subseteq Entries
    /\ lock \in [Entries -> Brokers \cup {Absent, Ownerless, Dead}]
    /\ authority \in Brokers \cup {Nobody}
    /\ br \in [Brokers -> [pc : BrokerPCs, todo : SUBSET Entries, cur : Entries \cup {NoEntry},
                           round : 0 .. Rounds + 1, phase : Phases]]
    /\ budget \in [{"blocks", "heads", "outages", "crashes"} -> Nat]

(* What the brokers make of the tracker, the event log and the receipts is   *)
(* what Publication promises, however often they die and whatever becomes of *)
(* an entry's lock directory.                                                *)
Promise == INSTANCE Publication WITH
    Artifacts <- Entries, Moves <- {e \in Entries : HasTarget(e)},
    posted <- comments, reached <- moved, announced <- events, receipted <- receipts,
    outcome <- [e \in Entries |-> IF entry[e].state \in {"done", "failed"}
                                  THEN entry[e].state ELSE "open"],
    held <- Held(hold)

RefinesPublication == Promise!Spec

(* An artifact is posted at most once.                                       *)
PostedOnce == \A e \in Entries : comments[e] <= 1

(* The phase of a delivery tells a restart the truth: a comment, a move or   *)
(* an event that it says is behind it has happened.                          *)
JournalTruth ==
    /\ TypeOK
    /\ \A e \in Entries :
           LET phase == delivery[e].phase IN
           /\ phase \in {"commented", "transitioned", "published"} => comments[e] > 0
           /\ phase \in {"transitioned", "published"} /\ HasTarget(e) => e \in moved
           /\ phase = "published" => e \in events
           /\ e \in receipts => phase = "published"
           /\ entry[e].state = "done" => e \in receipts

(* No agent comment and no agent move reaches the tracker while the task's   *)
(* hold is recorded, the hold's arrival between check and effect included.   *)
EffectsUnheld == [][comments' # comments \/ moved' # moved => ~Held(hold)]_vars

(* Only the current attempt's review request moves the task to review.       *)
RequestsMoveTheirAttempt ==
    [][\A e \in moved' \ moved : Lane(e) = "task" => entry[e].attempt = attempt]_vars

(* An approval is posted for the request the tracker shows.                  *)
ApprovalsAreCurrent ==
    [][\A e \in Entries : Marker[e] = "approval" /\ comments'[e] # comments[e]
                              => entry[e].attempt = request]_vars

\* Every queued artifact is published or rejected in the end.
Drains == \A e \in Entries :
    entry[e].state = "pending" ~> entry[e].state \in {"done", "failed"}

\* What a kill leaves half done, and what another broker is about to finish: a publish body
\* that no record names, a published delivery whose receipt or archival is missing.
HalfDone(e) ==
    \/ /\ budget.crashes < MaxCrashes
       /\ delivery[e].body = "written" \/ delivery[e].phase = "published"
    \/ /\ delivery[e].phase = "published"
       /\ \E b \in Brokers : br[b].pc \in {"receipt", "archive"} /\ Cur(b) = e

(* An entry is rejected for a cause outside the brokers: the task is stopped, *)
(* the attempt is over, what was to be published is no longer current; or it  *)
(* is found half done.                                                        *)
RejectedForCause ==
    [][\A e \in Entries : entry[e].state = "pending" /\ entry'[e].state = "failed" =>
          \/ ~Authorized(e) \/ ~Preparable(e)
          \/ delivery[e].body # "none" /\ delivery[e].head # Candidate(e)
          \/ HalfDone(e)]_vars

\* A published delivery gets its receipt: its entry is never given up before.
PublishedNotRejected == \A e \in Entries :
    entry[e].state = "failed" => delivery[e].phase # "published"

\* An artifact that has been posted is not given up halfway.
PostedNotRejected == \A e \in Entries : entry[e].state = "failed" => comments[e] = 0
=============================================================================
