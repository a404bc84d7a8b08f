------------------------------ MODULE Attempts ------------------------------
(***************************************************************************)
(* The attempts at one task.  A pass of bin/dispatch.sh reads the tracker, *)
(* keeps the human holds (bin/task-hold.py), plans (bin/dispatch-plan.py), *)
(* claims the task with a durable record and a tracker receipt             *)
(* (bin/runtime-state.py, bin/tracker-ops.sh), and has bin/launch-team.sh  *)
(* start the worker of an attempt, or replace a dead one.  A launch        *)
(* retires the worktree of the attempt before: a clean one is removed, a   *)
(* dirty one quarantined (bin/quarantine-attempt.py).                      *)
(*                                                                         *)
(* An action is the code between two durable effects.  A pass may be       *)
(* killed alone: its launcher goes on, beside the one of the next pass.    *)
(* The claim and packet transactions hold the authority lock of the        *)
(* repository, stop-task the launch lane of the task: one step each, or    *)
(* one for each durable effect.  An operation that refuses ends its        *)
(* launcher; it ends a pass too, but for what --watch, where errexit is    *)
(* off, passes over.                                                       *)
(***************************************************************************)
EXTENDS Naturals, FiniteSets

CONSTANTS MaxAttempt,     \* bound: attempts; the budgets of a run let none exceed it
          MaxAutomatic,   \* MAX_AUTOMATIC_RESTARTS
          MaxAuthorized,  \* MAX_AUTHORIZED_RESTARTS
          KeepsAssignee,  \* whether the tracker adapter has set_assignee
          Launchers,      \* bound: launch-team.sh processes alive at a time
          Budgets         \* the scenarios: how often each event strikes

Attempts == 1 .. MaxAttempt

ASSUME AttemptsAssumption ==
    /\ MaxAttempt \in Nat \ {0}
    /\ MaxAutomatic \in Nat /\ MaxAuthorized \in Nat
    /\ KeepsAssignee \in BOOLEAN
    /\ 0 \notin Launchers
    /\ Budgets \subseteq [{"orphans", "crashes", "edits", "deaths", "findings", "holds",
                          "hasty", "takeovers", "leads"} -> Nat]

VARIABLES tracker,    \* the task in the project-management tool
          hold,       \* its entry in the hold registry
          claim,      \* the attempt of the live claim record, 0 for none
          archive,    \* claims/history: how, which attempt, which hold generation
          execution,  \* the execution record: its attempt, and the claim it descends from
          tree,       \* the worktree of each attempt, and its quarantine
          worker,     \* the worker of each attempt and its lifecycle record
          capability, \* the attempt that may publish, 0 for none
          restarts,   \* the restart policy, the grants, and the lead's request
          lane,       \* the launcher in the launch lane of the task, 0 for none
          pass,       \* the dispatcher pass
          launcher,   \* the launch-team.sh processes
          budget      \* the scenario: events left

records == <<hold, claim, archive, execution>>
work == <<tree, worker, capability>>
vars == <<tracker, records, work, restarts, lane, pass, launcher, budget>>

Spend(event) == budget[event] > 0 /\ budget' = [budget EXCEPT ![event] = @ - 1]

------------------------------------------------------------------------------
NewTask == [status |-> "queued", assigned |-> FALSE, receipts |-> {}, marker |-> "none",
            verdict |-> 0]
TaskBranch == <<"task", 0>>
NoTree == [at |-> "none", branch |-> TaskBranch, dirty |-> FALSE, receipt |-> "none"]
NoWorker == [born |-> 0, record |-> 0, alive |-> FALSE, late |-> FALSE]
NoRequest == [attempt |-> 0, generation |-> 0]
Resting == [at |-> "idle", seen |-> NewTask, plan |-> "none", attempt |-> 0, child |-> 0]
Gone == [at |-> "off", attempt |-> 0, control |-> TaskBranch, generation |-> 0]

Init ==
    /\ tracker = NewTask
    /\ hold = [state |-> "none", generation |-> 0, fenced |-> FALSE]
    /\ claim = 0 /\ archive = {}
    /\ execution = [attempt |-> 0, lineage |-> 0]
    /\ tree = [a \in Attempts |-> NoTree]
    /\ worker = [a \in Attempts |-> NoWorker]
    /\ capability = 0
    /\ restarts = [automatic |-> 0, authorized |-> 0, last |-> <<TaskBranch, 0>>,
                   grants |-> {}, request |-> NoRequest]
    /\ lane = 0
    /\ pass = Resting
    /\ launcher = [l \in Launchers |-> Gone]
    /\ budget \in Budgets

------------------------------------------------------------------------------
(* What the records authorize. *)

HoldStates == {"blocked", "manual-takeover", "resume-review-pending"}
Held == hold.state \in HoldStates

AnyLive == \E a \in Attempts : worker[a].record # 0 /\ worker[a].alive

\* archived_rework_predecessor, and authenticated_hold_predecessor: only the archive of
\* the hold's current generation, and only once it is cleared.
Predecessor(a) ==
    \/ <<"rework", a, 0>> \in archive
    \/ hold.state = "resumed" /\ <<"hold", a, hold.generation>> \in archive

\* Mutant: a new generation needs no claim of its own and no restart.
LineageOk_AnyAdvance(a, restart) ==
    /\ claim # 0 /\ claim \in tracker.receipts
    /\ execution.attempt # 0 => a \in {execution.attempt, execution.attempt + 1}

\* resolve_packet_lineage: may attempt a run under the claim that is live?
LineageOk(a, restart) ==
    /\ claim # 0 /\ claim \in tracker.receipts
    /\ IF execution.attempt = 0 THEN claim = a
       ELSE /\ a \in {execution.attempt, execution.attempt + 1}
            /\ IF claim = execution.lineage THEN a > execution.attempt => restart
               ELSE a > execution.attempt /\ claim = a /\ Predecessor(execution.lineage)

------------------------------------------------------------------------------
(* A dispatcher pass. *)

At(at) == pass.at = at
Goto(at) == pass' = [pass EXCEPT !.at = at]
PassEnds == pass' = Resting

\* A command fails of which dispatch.sh itself does not die: the end of a pass with --once.
Refused(at) == PassEnds \/ Goto(at)

\* The export that the second hold sync and the planner of a pass work from.
Observe ==
    /\ At("idle")
    /\ pass' = [Resting EXCEPT !.seen = tracker, !.at = "sync"]
    /\ UNCHANGED <<tracker, records, work, restarts, lane, launcher, budget>>

\* The state that an entry of the registry goes to, before the resume barrier is looked at.
Followed(status) ==
    CASE status = "blocked" -> "blocked"
      [] status = "queued" /\ Held -> "resume-review-pending"
      [] status \notin {"blocked", "queued"} /\ Held -> "manual-takeover"
      [] OTHER -> hold.state

PriorTreeClean == execution.attempt = 0 \/ tree[execution.attempt].at # "here"
                  \/ ~tree[execution.attempt].dirty

\* The lead's verdict is on this hold, and the prior worktree is clean.
Cleared(seen) ==
    /\ Followed(seen.status) = "resume-review-pending"
    /\ seen.verdict = hold.generation
    /\ PriorTreeClean

\* A cleared hold archives the live claim before the registry says so.
Sync ==
    /\ At("sync")
    /\ IF Cleared(pass.seen)
       THEN /\ claim' = 0
            /\ archive' = archive \union
                 IF claim = 0 THEN {} ELSE {<<"hold", claim, hold.generation>>}
            /\ Goto("clear")
            /\ UNCHANGED hold
       ELSE /\ hold' = IF pass.seen.status = "blocked" /\ hold.state # "blocked"
                       THEN [state |-> "blocked", generation |-> hold.generation + 1, fenced |-> FALSE]
                       ELSE [hold EXCEPT !.state = Followed(pass.seen.status)]
            /\ Goto(IF pass.seen.status = "blocked" THEN "stop" ELSE "control")
            /\ UNCHANGED <<claim, archive>>
    /\ UNCHANGED <<tracker, execution, work, restarts, lane, launcher, budget>>

Clear ==
    /\ At("clear")
    /\ hold' = [hold EXCEPT !.state = "resumed"]
    /\ Goto("control")
    /\ UNCHANGED <<tracker, claim, archive, execution, work, restarts, lane, launcher, budget>>

LaneFree == lane = 0

\* stop-task, in the lane of the task: revoke, signal every attempt, forget the records.
\* (hold.fenced is read by HeldIsFenced only.)
Stop ==
    /\ At("stop") /\ LaneFree
    /\ hold' = [hold EXCEPT !.fenced = TRUE]
    /\ capability' = 0
    /\ worker' = [a \in Attempts |-> [worker[a] EXCEPT !.alive = FALSE, !.record = 0]]
    /\ Goto("control")
    /\ UNCHANGED <<tracker, claim, archive, execution, tree, restarts, lane, launcher, budget>>

\* start-task, or restart-task for the successor of the attempt under a control; no
\* attempt beyond MaxAttempt, a bound.
Launch(a, control, generation) ==
    a \in Attempts /\ \E l \in Launchers :
        /\ launcher[l].at = "off"
        /\ launcher' = [launcher EXCEPT ![l] =
             [at |-> IF control[1] = "start" THEN "begin" ELSE "admit", attempt |-> a,
              control |-> control, generation |-> generation]]
        /\ pass' = [pass EXCEPT !.at = "wait", !.child = l]

\* The lead's authorized restart is granted and carried out before the planner runs; its
\* identity is new with each request.
LeadControl == <<"authorized", budget.leads>>
Control ==
    /\ At("control")
    /\ \/ /\ restarts.request = NoRequest
          /\ Goto("plan")
          /\ UNCHANGED <<launcher, restarts>>
       \/ LET wanted == restarts.request IN
          /\ wanted # NoRequest
          /\ Launch(wanted.attempt + 1, LeadControl, wanted.generation)
          /\ restarts' = [restarts EXCEPT !.grants = @ \union {<<LeadControl, wanted.generation>>}]
    /\ UNCHANGED <<tracker, records, work, lane, budget>>

Candidate(seen) == \/ ~seen.assigned
                   \/ hold.state = "resumed"
                   \/ seen.marker = "findings"

\* dispatch-plan.py: the row of this task, none for most states.
Planned(act, a) ==
    LET seen == pass.seen  next == execution.attempt + 1 IN
    /\ ~Held
    /\ \/ /\ seen.status = "working"
          /\ \/ /\ seen.marker = "findings" /\ act = "launch"
                /\ a = IF execution.attempt # 0 THEN next ELSE claim + 1
             \/ /\ seen.marker = "none" /\ execution.attempt # 0
                /\ act = "recover" /\ a = execution.attempt
             \/ /\ seen.marker = "none" /\ execution.attempt = 0
                /\ claim # 0 \/ seen.assigned
                /\ act = "launch" /\ a = IF claim # 0 THEN claim ELSE 1
       \/ /\ seen.status = "queued" /\ Candidate(seen) /\ act = "claim"
          /\ \/ execution.attempt # 0 /\ (seen.marker = "findings" \/ hold.state = "resumed")
                /\ a = next
             \/ /\ seen.marker # "findings" /\ a = 1
                /\ hold.state = "resumed" => execution.attempt = 0 /\ ~seen.assigned

\* A claim is skipped beside a live worker of the same attempt, a launch or a recovery
\* beside any.
Plan ==
    /\ At("plan")
    /\ \/ \E a \in Attempts : \E act \in {"claim", "launch", "recover"} :
            /\ Planned(act, a)
            /\ ~IF act = "claim" THEN worker[a].record # 0 /\ worker[a].alive ELSE AnyLive
            /\ pass' = [pass EXCEPT !.plan = act, !.attempt = a,
                          !.at = IF act = "claim" THEN "preflight" ELSE "lineage"]
       \/ /\ \A a \in Attempts : \A act \in {"claim", "launch", "recover"} :
               Planned(act, a) =>
                 IF act = "claim" THEN worker[a].record # 0 /\ worker[a].alive ELSE AnyLive
          /\ PassEnds
    /\ UNCHANGED <<tracker, records, work, restarts, lane, launcher, budget>>

------------------------------------------------------------------------------
(* The claim of attempt pass.attempt. *)

Want == pass.attempt

\* The fresh export, authorize-claim, and claim-preflight: nothing is written unless the
\* claim can be completed.
Preflight ==
    /\ At("preflight")
    /\ IF /\ tracker.status = "queued"
          /\ IF execution.attempt = 0 THEN Want = 1 /\ claim \in {0, Want}
             ELSE /\ Want = execution.attempt + 1
                  /\ execution.lineage \in tracker.receipts
                  /\ \/ claim = execution.lineage
                     \/ claim \in {0, Want} /\ Predecessor(execution.lineage)
       THEN IF Held THEN Refused("local") ELSE Goto("local")
       ELSE PassEnds
    /\ UNCHANGED <<tracker, records, work, restarts, lane, launcher, budget>>

\* archive_and_publish_rework_claim: a copy in the history, the live name evacuated.
Reworks == execution.attempt # 0 /\ claim = execution.lineage /\ Want = execution.attempt + 1

ArchiveClaim ==
    /\ At("local")
    /\ claim \notin {0, Want} /\ <<"rework", claim, 0>> \notin archive
    /\ IF Reworks THEN archive' = archive \union {<<"rework", claim, 0>>} /\ UNCHANGED pass
                  ELSE Refused("receipt") /\ UNCHANGED archive
    /\ UNCHANGED <<tracker, hold, claim, execution, work, restarts, lane, launcher, budget>>

EvacuateClaim ==
    /\ At("local")
    /\ claim \notin {0, Want} /\ <<"rework", claim, 0>> \in archive
    /\ IF Reworks THEN claim' = 0 /\ UNCHANGED pass ELSE Refused("receipt") /\ UNCHANGED claim
    /\ UNCHANGED <<tracker, hold, archive, execution, work, restarts, lane, launcher, budget>>

\* No claim is live, and the execution on record has none or an archived one.
Follows == /\ claim = 0
           /\ execution.attempt # 0 =>
                 Want = execution.attempt + 1 /\ Predecessor(execution.lineage)

\* Mutant: a claim that an interrupted pass has published is not taken up.
PublishClaim_Fresh ==
    /\ At("local")
    /\ claim = 0
    /\ IF Follows THEN claim' = Want /\ Goto("receipt") ELSE Refused("receipt") /\ UNCHANGED claim
    /\ UNCHANGED <<tracker, hold, archive, execution, work, restarts, lane, launcher, budget>>

\* The record of the new claim, or the one an interrupted pass has published.
PublishClaim ==
    /\ At("local")
    /\ claim \in {0, Want}
    /\ IF claim = Want \/ Follows THEN claim' = Want /\ Goto("receipt")
                                  ELSE Refused("receipt") /\ UNCHANGED claim
    /\ UNCHANGED <<tracker, hold, archive, execution, work, restarts, lane, launcher, budget>>

\* op_claim, each of whose writes follows a read of the status.
ClaimStep(at, next, then) ==
    /\ At(at)
    /\ IF tracker.status = "queued" THEN tracker' = next /\ Goto(then)
                                    ELSE Refused("lineage") /\ UNCHANGED tracker
    /\ UNCHANGED <<records, work, restarts, lane, launcher, budget>>

PostReceipt == ClaimStep("receipt", [tracker EXCEPT !.receipts = @ \union {Want}], "assign")
Assign == ClaimStep("assign", [tracker EXCEPT !.assigned = @ \/ KeepsAssignee], "state")
SetState == ClaimStep("state", [tracker EXCEPT !.status = "working"], "lineage")

\* dispatch_lineage_preflight, and for a recovery the grant of a control whose identity
\* is a function of the attempt: a grant that names another generation is a refusal.
AutoControl == <<"automatic", Want>>
DispatchLineage ==
    /\ At("lineage")
    /\ LET generation == worker[Want].record IN
       IF ~LineageOk(Want, FALSE) THEN PassEnds /\ UNCHANGED <<launcher, restarts>>
       ELSE IF pass.plan # "recover"
       THEN Launch(Want, <<"start", Want>>, 0) /\ UNCHANGED restarts
       ELSE IF worker[Want].alive \/ \E g \in restarts.grants : g[1] = AutoControl /\ g[2] # generation
       THEN PassEnds /\ UNCHANGED <<launcher, restarts>>
       ELSE /\ Launch(Want + 1, AutoControl, generation)
            /\ restarts' = [restarts EXCEPT !.grants = @ \union {<<AutoControl, generation>>}]
    /\ UNCHANGED <<tracker, records, work, lane, budget>>

\* A control's launch ends with a result; the planner then reads what the packet exported,
\* if it came to that. Any other launch was the pass's last row.
Wait ==
    /\ At("wait") /\ launcher[pass.child].at = "off"
    /\ IF pass.plan = "none"
       THEN /\ restarts' = [restarts EXCEPT !.request = NoRequest]
            /\ \E seen \in {pass.seen, tracker} : pass' = [pass EXCEPT !.seen = seen, !.at = "plan"]
       ELSE PassEnds /\ UNCHANGED restarts
    /\ UNCHANGED <<tracker, records, work, lane, launcher, budget>>

------------------------------------------------------------------------------
(* A launcher l, for attempt New(l). *)

New(l) == launcher[l].attempt
Old(l) == launcher[l].attempt - 1
Restart(l) == launcher[l].control[1] # "start"
In(l, at) == launcher[l].at = at
Move(l, at) == launcher' = [launcher EXCEPT ![l].at = at]

\* The end of a launcher, and with it of its lane lock.
Leave(l) == /\ launcher' = [launcher EXCEPT ![l] = Gone]
            /\ lane' = IF lane = l THEN 0 ELSE lane
Proceed(l, ok, at) == IF ok THEN Move(l, at) /\ UNCHANGED lane ELSE Leave(l)

\* restart-policy.py: authorize, or replay of the same control with the same generation.
Prepared(l) == restarts.last = <<launcher[l].control, launcher[l].generation>>

Room(l) == IF launcher[l].control[1] = "automatic" THEN restarts.automatic < MaxAutomatic
                                                  ELSE restarts.authorized < MaxAuthorized

\* Mutant: a replayed control is counted by nobody, a new one neither.
Authorize_Free(l) ==
    /\ restarts.last[1] # launcher[l].control
    /\ restarts' = [restarts EXCEPT !.last = <<launcher[l].control, launcher[l].generation>>]

Authorize(l) ==
    /\ restarts.last[1] # launcher[l].control /\ Room(l)
    /\ restarts' = [restarts EXCEPT
         !.last = <<launcher[l].control, launcher[l].generation>>,
         !.automatic = IF launcher[l].control[1] = "automatic" THEN @ + 1 ELSE @,
         !.authorized = IF launcher[l].control[1] = "authorized" THEN @ + 1 ELSE @]

Granted(l) == <<launcher[l].control, launcher[l].generation>> \in restarts.grants

\* The generation the control names is the one on record, or was when it was prepared.
SameGeneration(l) == \/ worker[Old(l)].record = launcher[l].generation
                     \/ worker[Old(l)].record = 0 /\ Prepared(l)

\* restart_task, under the lane of the task: a compare-and-swap on attempt and generation.
Admit(l) ==
    /\ In(l, "admit") /\ LaneFree
    /\ IF execution.attempt = Old(l) /\ LineageOk(Old(l), FALSE) /\ SameGeneration(l) /\ Granted(l)
       THEN \/ Authorize(l) /\ lane' = l /\ Move(l, "revoke")
            \/ Prepared(l) /\ lane' = l /\ Move(l, "revoke") /\ UNCHANGED restarts
            \/ ~Prepared(l) /\ ~Room(l) /\ Leave(l) /\ UNCHANGED restarts
       ELSE Leave(l) /\ UNCHANGED restarts
    /\ UNCHANGED <<tracker, records, work, pass, budget>>

\* Publication is fenced before any signal.
Revoke(l) ==
    /\ In(l, "revoke")
    /\ Proceed(l, LineageOk(Old(l), FALSE), "halt")
    /\ capability' = IF LineageOk(Old(l), FALSE) THEN 0 ELSE capability
    /\ UNCHANGED <<tracker, records, tree, worker, restarts, pass, budget>>

Halt(l) ==
    /\ In(l, "halt")
    /\ worker' = [worker EXCEPT ![Old(l)] = [@ EXCEPT !.alive = FALSE, !.record = 0]]
    /\ Move(l, "inspect")
    /\ UNCHANGED <<tracker, records, tree, capability, restarts, lane, pass, budget>>

\* launch_task: the hold, the lineage, and for a plain start that the attempt before is
\* not live. A restart has retired that attempt already.
Begin(l) ==
    /\ In(l, "begin")
    /\ LET advances == execution.attempt # 0 /\ New(l) > execution.attempt IN
       Proceed(l, /\ ~Held /\ LineageOk(New(l), Restart(l))
                  /\ advances => worker[Old(l)].record = 0 \/ ~worker[Old(l)].alive,
               IF advances /\ ~Restart(l) THEN "inspect" ELSE "tree")
    /\ UNCHANGED <<tracker, records, work, restarts, pass, budget>>

\* Where a retirement leads: a restart goes on to launch_task, a start to the new worktree.
Retired(l) == IF Restart(l) THEN "begin" ELSE "tree"

\* Mutant: ignored files do not count as work.
Unclean_Never(a) == FALSE

Unclean(a) == tree[a].dirty

\* retire_attempt_worktree, under the control of this launch: what it finds decides.
Inspect(l) ==
    /\ In(l, "inspect")
    /\ LET t == tree[Old(l)] IN
       CASE t.at = "none" -> Proceed(l, t.branch # launcher[l].control, Retired(l))
         [] t.at = "quarantine" ->
              Move(l, IF t.branch = launcher[l].control THEN "finalize" ELSE Retired(l))
              /\ UNCHANGED lane
         [] t.at = "here" /\ ~Unclean(Old(l)) -> Move(l, "remove") /\ UNCHANGED lane
         [] OTHER -> Proceed(l, t.branch \in {TaskBranch, launcher[l].control}, "switch")
    /\ UNCHANGED <<tracker, records, work, restarts, pass, budget>>

\* The steps of a retirement, each with the state of the worktree it leaves.
Retire(l, at, was, next, then) ==
    /\ In(l, at)
    /\ IF tree[Old(l)].at = was THEN tree' = [tree EXCEPT ![Old(l)] = next] /\ Move(l, then)
                                    /\ UNCHANGED lane
                                ELSE Leave(l) /\ UNCHANGED tree
    /\ UNCHANGED <<tracker, records, worker, capability, restarts, pass, budget>>

Remove(l) == Retire(l, "remove", "here", [NoTree EXCEPT !.branch = tree[Old(l)].branch], Retired(l))
Switch(l) == Retire(l, "switch", "here", [tree[Old(l)] EXCEPT !.branch = launcher[l].control], "prepare")
Prepare(l) == Retire(l, "prepare", "here", [tree[Old(l)] EXCEPT !.receipt = "prepare"], "move")
MoveTree(l) == Retire(l, "move", "here", [tree[Old(l)] EXCEPT !.at = "quarantine"], "finalize")
Finalize(l) == Retire(l, "finalize", "quarantine", [tree[Old(l)] EXCEPT !.receipt = "final"], Retired(l))

\* ensure_task_worktree: git has the task branch checked out in one worktree at most.
MakeTree(l) ==
    /\ In(l, "tree")
    /\ LET a == New(l)
           taken == \E b \in Attempts \ {a} : tree[b].at = "here" /\ tree[b].branch = TaskBranch
           ok == LineageOk(a, Restart(l)) /\ (tree[a].at = "here" \/ ~taken)
       IN /\ tree' = IF ok /\ tree[a].at # "here"
                     THEN [tree EXCEPT ![a] = [NoTree EXCEPT !.at = "here"]] ELSE tree
          /\ Proceed(l, ok, "packet")
    /\ UNCHANGED <<tracker, records, worker, capability, restarts, pass, budget>>

\* cmd_packet: the packet, and the execution record with its lineage.
Packet(l) ==
    /\ In(l, "packet")
    /\ LET ok == LineageOk(New(l), Restart(l)) /\ (Restart(l) => Granted(l) /\ Prepared(l)) IN
       /\ execution' = IF ok THEN [attempt |-> New(l), lineage |-> claim] ELSE execution
       /\ Proceed(l, ok, IF lane = l THEN "check" ELSE "lane")
    /\ UNCHANGED <<tracker, hold, claim, archive, work, restarts, pass, budget>>

TakeLane(l) ==
    /\ In(l, "lane") /\ lane = 0
    /\ lane' = l
    /\ Move(l, "check")
    /\ UNCHANGED <<tracker, records, work, restarts, pass, budget>>

\* Mutant: what was checked before the wait for the lane still holds.
Startable_Earlier(l) == LineageOk(New(l), Restart(l))

Startable(l) == ~Held /\ LineageOk(New(l), Restart(l))

\* The last look, in the lane: the hold, a live instance of this attempt, the lineage.
Check(l) ==
    /\ In(l, "check")
    /\ Proceed(l, Startable(l) /\ (worker[New(l)].record = 0 \/ ~worker[New(l)].alive), "mint")
    /\ UNCHANGED <<tracker, records, work, restarts, pass, budget>>

Mint(l) ==
    /\ In(l, "mint")
    /\ capability' = New(l)
    /\ Move(l, "spawn")
    /\ UNCHANGED <<tracker, records, tree, worker, restarts, lane, pass, budget>>

\* The worker registers before it runs. (late, read by OneWorker and WorkKept only: that its
\* claim has passed on since the launcher looked.)
Spawn(l) ==
    /\ In(l, "spawn")
    /\ worker' = [worker EXCEPT ![New(l)] =
         [born |-> @.born + 1, record |-> @.born + 1, alive |-> TRUE,
          late |-> ~LineageOk(New(l), Restart(l))]]
    /\ Leave(l)
    /\ UNCHANGED <<tracker, records, tree, capability, restarts, pass, budget>>

------------------------------------------------------------------------------
(* Kills. *)

\* The pass alone: its launcher goes on.
KillPass ==
    /\ ~At("idle") /\ Spend("orphans")
    /\ PassEnds
    /\ UNCHANGED <<tracker, records, work, restarts, lane, launcher>>

\* The pass with the launchers of its process group.
Crash ==
    /\ ~At("idle") /\ Spend("crashes")
    /\ PassEnds
    /\ launcher' = [l \in Launchers |-> Gone] /\ lane' = 0
    /\ UNCHANGED <<tracker, records, work, restarts>>

\* The lane is freed by its holder, which sees its parent die.
KillLauncher(l) ==
    /\ ~In(l, "off") /\ Spend("crashes")
    /\ Leave(l)
    /\ UNCHANGED <<tracker, records, work, restarts, pass>>

------------------------------------------------------------------------------
(* The workers, and the people and brokers behind the tracker. *)

Running(a) == worker[a].alive /\ tree[a].at = "here"

Edit(a) ==
    /\ Running(a) /\ ~tree[a].dirty /\ budget.edits > 0
    /\ budget' = [budget EXCEPT !.edits = @ - 1]
    /\ tree' = [tree EXCEPT ![a].dirty = TRUE]
    /\ UNCHANGED <<tracker, records, worker, capability, restarts, lane, pass, launcher>>

\* A review request is published for a clean worktree, with the capability of the
\* attempt, and for a task that is not held; the worker exits.
Submit(a) ==
    /\ Running(a) /\ capability = a /\ ~Held
    /\ tracker.status = "working"
    /\ tracker' = [tracker EXCEPT !.status = "review", !.marker = "request"]
    /\ tree' = [tree EXCEPT ![a].dirty = FALSE]
    /\ worker' = [worker EXCEPT ![a].alive = FALSE]
    /\ UNCHANGED <<records, capability, restarts, lane, pass, launcher, budget>>

\* A worker whose task or whose authority is gone has nothing to deliver, and exits.
Quit(a) ==
    /\ worker[a].alive
    /\ capability # a \/ tracker.status # "working" \/ tree[a].at # "here"
    /\ worker' = [worker EXCEPT ![a].alive = FALSE]
    /\ UNCHANGED <<tracker, records, tree, capability, restarts, lane, pass, launcher, budget>>

Die(a) ==
    /\ worker[a].alive /\ Spend("deaths")
    /\ worker' = [worker EXCEPT ![a].alive = FALSE]
    /\ UNCHANGED <<tracker, records, tree, capability, restarts, lane, pass, launcher>>

\* Review findings return the task to its queue.
Findings ==
    /\ tracker.status = "review" /\ Spend("findings")
    /\ tracker' = [tracker EXCEPT !.status = "queued", !.marker = "findings"]
    /\ UNCHANGED <<records, work, restarts, lane, pass, launcher>>

Block ==
    /\ tracker.status # "blocked" /\ Spend("holds")
    /\ tracker' = [tracker EXCEPT !.status = "blocked"]
    /\ UNCHANGED <<records, work, restarts, lane, pass, launcher>>

\* Only a human moves a task out of Blocked: to the queue, or to take it over for a time.
\* A hasty one does so before a pass has seen the hold.
Unblock ==
    /\ tracker.status = "blocked" /\ hold.state = "blocked"
    /\ tracker' = [tracker EXCEPT !.status = "queued"]
    /\ UNCHANGED <<records, work, restarts, lane, pass, launcher, budget>>

UnblockEarly ==
    /\ tracker.status = "blocked" /\ hold.state # "blocked" /\ Spend("hasty")
    /\ tracker' = [tracker EXCEPT !.status = "queued"]
    /\ UNCHANGED <<records, work, restarts, lane, pass, launcher>>

TakeOver ==
    /\ tracker.status = "blocked" /\ hold.state = "blocked" /\ Spend("takeovers")
    /\ tracker' = [tracker EXCEPT !.status = "working"]
    /\ UNCHANGED <<records, work, restarts, lane, pass, launcher>>

HandBack ==
    /\ tracker.status = "working" /\ hold.state = "manual-takeover"
    /\ tracker' = [tracker EXCEPT !.status = "queued"]
    /\ UNCHANGED <<records, work, restarts, lane, pass, launcher, budget>>

\* The lead's resume review of the hold whose request is written, and the cleaning of the
\* prior worktree that it waits for.
Resolve ==
    /\ hold.state = "resume-review-pending" /\ tracker.status = "queued"
    /\ \/ /\ tracker.verdict # hold.generation
          /\ tracker' = [tracker EXCEPT !.verdict = hold.generation]
          /\ UNCHANGED tree
       \/ /\ ~PriorTreeClean /\ ~worker[execution.attempt].alive
          /\ tree' = [tree EXCEPT ![execution.attempt].dirty = FALSE]
          /\ UNCHANGED tracker
    /\ UNCHANGED <<records, worker, capability, restarts, lane, pass, launcher, budget>>

\* The lead asks for the replacement of a worker that has ended, at the generation it sees.
Ask ==
    /\ restarts.request = NoRequest /\ execution.attempt # 0 /\ ~AnyLive /\ ~Held
    /\ tracker.status = "working" /\ Spend("leads")
    /\ restarts' = [restarts EXCEPT !.request =
         [attempt |-> execution.attempt, generation |-> worker[execution.attempt].record]]
    /\ UNCHANGED <<tracker, records, work, lane, pass, launcher>>

------------------------------------------------------------------------------
PassStep ==
    \/ Observe \/ Sync \/ Clear \/ Stop \/ Control \/ Plan
    \/ Preflight \/ ArchiveClaim \/ EvacuateClaim \/ PublishClaim
    \/ PostReceipt \/ Assign \/ SetState \/ DispatchLineage \/ Wait

LauncherStep(l) ==
    \/ Admit(l) \/ Revoke(l) \/ Halt(l) \/ Begin(l)
    \/ Inspect(l) \/ Remove(l) \/ Switch(l) \/ Prepare(l) \/ MoveTree(l) \/ Finalize(l)
    \/ MakeTree(l) \/ Packet(l) \/ TakeLane(l) \/ Check(l) \/ Mint(l) \/ Spawn(l)

People == \/ Findings \/ Block \/ Unblock \/ UnblockEarly \/ TakeOver \/ HandBack
          \/ Resolve \/ Ask

Next ==
    \/ PassStep \/ KillPass \/ Crash
    \/ \E l \in Launchers : LauncherStep(l) \/ KillLauncher(l)
    \/ \E a \in Attempts : Edit(a) \/ Submit(a) \/ Quit(a) \/ Die(a)
    \/ People

\* Passes are scheduled for ever, a launcher runs until it ends, a worker that is not
\* killed delivers, a human returns what was blocked, and the lead answers for a hold.
Fairness ==
    /\ WF_vars(PassStep)
    /\ \A l \in Launchers : WF_vars(LauncherStep(l))
    /\ \A a \in Attempts : WF_vars(Submit(a) \/ Quit(a))
    /\ WF_vars(Unblock) /\ WF_vars(HandBack) /\ WF_vars(Resolve) /\ WF_vars(Ask)

Spec == Init /\ [][Next]_vars /\ Fairness

------------------------------------------------------------------------------
Places == {"idle", "sync", "clear", "stop", "control", "plan", "preflight", "local",
           "receipt", "assign", "state", "lineage", "wait"}

\* The claim and the execution record, the worktree of an attempt, and the counts of the
\* restart policy, as their readers accept them.
Claims == 0 .. MaxAttempt
Executions == [attempt : 0 .. MaxAttempt, lineage : 0 .. MaxAttempt]
Trees == [at : {"none", "here", "quarantine"}, branch : {"task", "start", "automatic", "authorized"} \X Nat,
          dirty : BOOLEAN, receipt : {"none", "prepare", "final"}]
Counted(policy) == policy.automatic \in 0 .. MaxAutomatic /\ policy.authorized \in 0 .. MaxAuthorized

\* Every variable keeps its shape, no attempt is beyond what the scenario allows, and the
\* counts of the restart policy stay below their limits (runtime-state.py, restart-policy.py).
TypeOK ==
    /\ tracker.status \in {"queued", "working", "review", "blocked"}
    /\ tracker.receipts \subseteq Attempts
    /\ hold.state \in HoldStates \union {"none", "resumed"}
    /\ claim \in Claims /\ execution \in Executions /\ tree \in [Attempts -> Trees]
    /\ \A a \in Attempts : worker[a].record \in {0, worker[a].born}
    /\ capability \in 0 .. MaxAttempt
    /\ Counted(restarts)
    /\ lane \in {0} \union Launchers
    /\ pass.at \in Places

\* At most one worker of the task runs, for the attempt on record and under a claim that the
\* tracker has a receipt for, whichever launcher of a killed pass is still on its way. Only
\* such a launcher, and only if the claim passes on between its last look and its start of
\* the worker, adds one (launch-team.sh:3429-3437, 3466-3494).
OneWorker ==
    /\ TypeOK
    /\ \A a \in Attempts : worker[a].alive =>
        /\ \A b \in Attempts \ {a} : worker[b].alive => worker[a].late \/ worker[b].late
        /\ worker[a].late \/ (execution.attempt = a /\ execution.lineage \in tracker.receipts)
    /\ \A l \in Launchers : At("wait") /\ pass.child = l /\ In(l, "spawn") =>
          LineageOk(New(l), Restart(l))

\* Uncommitted work of an attempt is never erased, and in quarantine it is covered by a
\* receipt, through kills between the steps of a retirement and its replay by another
\* control (launch-team.sh:3185-3283); but for that of a worker started too late.
WorkKept ==
    [][\A a \in Attempts : tree[a].at # "none" /\ tree[a].dirty =>
           \/ tree'[a].at # "none" /\ (tree'[a].at = "quarantine" => tree'[a].receipt # "none")
           \/ worker[a].late]_vars

\* Once the workers of a held task are stopped, none starts and none may publish while the
\* hold lasts, whatever launch was already under way (task-hold.py:1316-1340,
\* launch-team.sh:3474-3483).
HeldIsFenced ==
    Held /\ hold.fenced => capability = 0 /\ \A a \in Attempts : ~worker[a].alive

\* An attempt that no claim stands for is a restart the policy counted: recovery, replays
\* and kills never add one more (restart-policy.py:150-208).
RestartsAreCounted ==
    Cardinality({a \in 1 .. execution.attempt : a \notin tracker.receipts})
        <= restarts.automatic + restarts.authorized

\* A single mishap, of any kind, and a task is still brought to its review: the pass is
\* killed with its launcher or without, the worker dies over uncommitted work, the task is
\* held and resumed, or its review returns findings (dispatch.sh:395-760).
Mishaps(b) == b.orphans + b.crashes + b.deaths + b.holds + b.hasty + b.leads
              + IF b.findings > 0 THEN 1 ELSE 0
Delivers == Mishaps(budget) <= 1 => <>[](tracker.status = "review")

\* A task whose hold the lead has resolved is claimed again, or held again.
ResumesAreClaimed ==
    (hold.state = "resumed" /\ tracker.status = "queued") ~> (tracker.status # "queued")
=============================================================================
