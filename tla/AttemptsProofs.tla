--------------------------- MODULE AttemptsProofs ---------------------------
(***************************************************************************)
(* Attempts at a task, for every number of them, every restart limit, and  *)
(* however many passes, launchers and workers are killed: types, the fence *)
(* of a held task, the count of its restarts, its one worker, and the work *)
(* that is never erased.                                                   *)
(***************************************************************************)
EXTENDS Attempts, FiniteSetTheorems, TLAPS

------------------------------------------------------------------------------
(* What the variables hold. *)

Trackers == [status : {"queued", "working", "review", "blocked"}, assigned : BOOLEAN,
             receipts : SUBSET Attempts, marker : {"none", "request", "findings"},
             verdict : Nat]
Holds == [state : HoldStates \union {"none", "resumed"}, generation : Nat, fenced : BOOLEAN]
Workers == [born : Nat, record : Nat, alive : BOOLEAN, late : BOOLEAN]
Controls == {"task", "start", "automatic", "authorized"} \X Nat
Policies == [automatic : 0 .. MaxAutomatic, authorized : 0 .. MaxAuthorized,
             last : Controls \X Nat, grants : SUBSET (Controls \X Nat),
             request : [attempt : 0 .. MaxAttempt, generation : Nat]]
Passes == [at : Places, seen : Trackers, plan : {"none", "claim", "launch", "recover"},
           attempt : 0 .. MaxAttempt, child : {0} \union Launchers]
Stations == {"off", "begin", "admit", "revoke", "halt", "inspect", "remove", "switch",
             "prepare", "move", "finalize", "tree", "packet", "lane", "check", "mint", "spawn"}
Commands == [at : Stations, attempt : 0 .. MaxAttempt, control : Controls, generation : Nat]
Events == {"orphans", "crashes", "edits", "deaths", "findings", "holds", "hasty",
           "takeovers", "leads"}

RecordTypes ==
    /\ tracker \in Trackers /\ hold \in Holds /\ claim \in Claims /\ execution \in Executions
    /\ restarts \in Policies /\ budget \in [Events -> Nat]
WorkTypes ==
    /\ tree \in [Attempts -> Trees] /\ worker \in [Attempts -> Workers]
    /\ \A a \in Attempts : worker[a].record \in {0, worker[a].born}
    /\ capability \in 0 .. MaxAttempt
ProcessTypes ==
    /\ lane \in {0} \union Launchers
    /\ pass \in Passes /\ launcher \in [Launchers -> Commands]
Types == RecordTypes /\ WorkTypes /\ ProcessTypes

\* A pass about to claim or to launch has an attempt of the scenario.
Claiming == {"preflight", "local", "receipt", "assign", "state", "lineage"}
Chosen == pass.at \in Claiming => pass.attempt \in Attempts

LEMMA TypesSuffice == Types => TypeOK
<1> SUFFICES ASSUME Types PROVE TypeOK
    OBVIOUS
<1> USE DEF Types, RecordTypes, WorkTypes, ProcessTypes
<1>1. /\ tracker.status \in {"queued", "working", "review", "blocked"}
      /\ tracker.receipts \subseteq Attempts
    BY DEF Trackers
<1>2. hold.state \in HoldStates \union {"none", "resumed"}
    BY DEF Holds
<1>3. Counted(restarts)
    BY DEF Counted, Policies
<1>4. pass.at \in Places
    BY DEF Passes
<1> QED
    BY <1>1, <1>2, <1>3, <1>4 DEF TypeOK

------------------------------------------------------------------------------
(* What a step does to a launcher. *)

\* A launcher that moves keeps its attempt, control and generation.
LEMMA MoveFacts ==
    ASSUME launcher \in [Launchers -> Commands], NEW l \in Launchers, NEW at \in Stations,
           Move(l, at)
    PROVE  /\ launcher' \in [Launchers -> Commands]
           /\ launcher'[l] = [launcher[l] EXCEPT !.at = at]
           /\ launcher'[l].at = at
           /\ launcher'[l].attempt = launcher[l].attempt
           /\ launcher'[l].control = launcher[l].control
           /\ launcher'[l].generation = launcher[l].generation
           /\ \A k \in Launchers \ {l} : launcher'[k] = launcher[k]
    BY DEF Move, Commands

LEMMA GoneFacts ==
    MaxAttempt \in Nat =>
       Gone \in Commands /\ Gone.at = "off" /\ Gone.attempt = 0 /\ Gone.control = TaskBranch
    BY DEF Gone, Commands, Stations, Controls, TaskBranch

LEMMA LeaveFacts ==
    ASSUME AttemptsAssumption, ProcessTypes, NEW l \in Launchers, Leave(l)
    PROVE  /\ launcher' \in [Launchers -> Commands]
           /\ launcher'[l] = Gone
           /\ \A k \in Launchers \ {l} : launcher'[k] = launcher[k]
           /\ lane' = IF lane = l THEN 0 ELSE lane
           /\ lane' \in {0} \union Launchers
    BY GoneFacts DEF Leave, ProcessTypes, AttemptsAssumption

\* What every step of launcher l does to the launchers and the lane, but for the
\* taking of the lane.
Advances(l) ==
    /\ launcher' \in [Launchers -> Commands]
    /\ \A k \in Launchers \ {l} : launcher'[k] = launcher[k]
    /\ \/ launcher'[l] = Gone /\ lane' = IF lane = l THEN 0 ELSE lane
       \/ /\ launcher'[l].attempt = launcher[l].attempt
          /\ launcher'[l].control = launcher[l].control
          /\ launcher'[l].generation = launcher[l].generation
          /\ launcher'[l].at \in Stations \ {"off", "begin", "admit"}
             \/ (launcher'[l].at = "begin" /\ launcher[l].at \notin {"off", "admit"})
          /\ lane' = lane \/ (lane = 0 /\ lane' = l)

\* A launch starts one launcher that was off.
Starts(l, a, control, generation) ==
    /\ launcher[l].at = "off"
    /\ \A k \in Launchers \ {l} : launcher'[k] = launcher[k]
    /\ launcher'[l].at = IF control[1] = "start" THEN "begin" ELSE "admit"
    /\ launcher'[l].attempt = a
    /\ launcher'[l].control = control
    /\ launcher'[l].generation = generation

LEMMA LaunchFacts ==
    ASSUME AttemptsAssumption, ProcessTypes, NEW a, NEW control \in Controls,
           NEW generation \in Nat, Launch(a, control, generation)
    PROVE  /\ a \in Attempts
           /\ pass' \in Passes /\ pass'.at = "wait" /\ pass'.plan = pass.plan
           /\ pass'.attempt = pass.attempt
           /\ launcher' \in [Launchers -> Commands]
           /\ launcher'[pass'.child].at \in {"begin", "admit"}
           /\ \E l \in Launchers : Starts(l, a, control, generation)
<1> USE DEF ProcessTypes, AttemptsAssumption
<1>1. PICK l \in Launchers :
          /\ launcher[l].at = "off"
          /\ launcher' = [launcher EXCEPT ![l] =
               [at |-> IF control[1] = "start" THEN "begin" ELSE "admit", attempt |-> a,
                control |-> control, generation |-> generation]]
          /\ pass' = [pass EXCEPT !.at = "wait", !.child = l]
    BY DEF Launch
<1>2. a \in Attempts /\ a \in 0 .. MaxAttempt
    BY DEF Launch, Attempts
<1>3. [at |-> IF control[1] = "start" THEN "begin" ELSE "admit", attempt |-> a,
       control |-> control, generation |-> generation] \in Commands
    BY <1>2 DEF Commands, Stations
<1>4. launcher' \in [Launchers -> Commands]
    BY <1>1, <1>3
<1>5. pass' \in Passes /\ pass'.at = "wait" /\ pass'.plan = pass.plan /\ pass'.attempt = pass.attempt
    BY <1>1 DEF Passes, Places
<1>6. Starts(l, a, control, generation)
    BY <1>1, <1>3 DEF Starts, Commands
<1>7. pass'.child = l
    BY <1>1 DEF Passes
<1>8. launcher'[pass'.child].at \in {"begin", "admit"}
    BY <1>6, <1>7 DEF Starts
<1> QED
    BY <1>2, <1>4, <1>5, <1>6, <1>8

LEMMA GotoFacts ==
    ASSUME pass \in Passes, NEW at \in Places, Goto(at)
    PROVE  /\ pass' \in Passes /\ pass'.at = at
           /\ pass'.plan = pass.plan /\ pass'.attempt = pass.attempt
    BY DEF Goto, Passes

LEMMA RestFacts ==
    MaxAttempt \in Nat =>
       /\ Resting \in Passes /\ Resting.at = "idle"
       /\ Resting.plan = "none" /\ Resting.attempt = 0
    BY DEF Resting, Passes, Places, NewTask, Trackers, Attempts

LEMMA RefusedFacts ==
    ASSUME AttemptsAssumption, pass \in Passes, NEW at \in Places, Refused(at)
    PROVE  /\ pass' \in Passes
           /\ \/ pass'.at = "idle" /\ pass'.plan = "none"
              \/ pass'.at = at /\ pass'.plan = pass.plan /\ pass'.attempt = pass.attempt
    BY GotoFacts, RestFacts DEF Refused, PassEnds, AttemptsAssumption

LEMMA SpendFacts ==
    ASSUME budget \in [Events -> Nat], NEW event \in Events, Spend(event)
    PROVE  /\ budget' \in [Events -> Nat]
           /\ budget'[event] = budget[event] - 1
           /\ \A e \in Events \ {event} : budget'[e] = budget[e]
    BY DEF Spend

------------------------------------------------------------------------------
(* The types, action by action. *)

TypeInv == Types /\ Chosen

LEMMA InitTypes == AttemptsAssumption /\ Init => TypeInv
<1> SUFFICES ASSUME AttemptsAssumption, Init PROVE TypeInv
    OBVIOUS
<1> USE DEF AttemptsAssumption
<1>1. RecordTypes
  <2>1. tracker \in Trackers
      BY DEF Init, NewTask, Trackers, Attempts
  <2>2. hold \in Holds /\ claim \in Claims /\ execution \in Executions
      BY DEF Init, Holds, Claims, Executions
  <2>3. restarts \in Policies
      BY DEF Init, Policies, Controls, TaskBranch, NoRequest
  <2>4. budget \in [Events -> Nat]
      BY DEF Init, Events
  <2> QED
      BY <2>1, <2>2, <2>3, <2>4 DEF RecordTypes
<1>2. WorkTypes
  <2>1. tree \in [Attempts -> Trees]
      BY DEF Init, NoTree, Trees, TaskBranch
  <2>2. worker \in [Attempts -> Workers] /\ \A a \in Attempts : worker[a].record \in {0, worker[a].born}
      BY DEF Init, NoWorker, Workers
  <2> QED
      BY <2>1, <2>2 DEF WorkTypes, Init
<1>3. ProcessTypes /\ Chosen
  <2>1. pass \in Passes /\ pass.at = "idle"
      BY RestFacts DEF Init
  <2>2. lane \in {0} \union Launchers /\ launcher \in [Launchers -> Commands]
      BY GoneFacts DEF Init
  <2> QED
      BY <2>1, <2>2 DEF ProcessTypes, Chosen, Claiming
<1> QED
    BY <1>1, <1>2, <1>3 DEF TypeInv, Types

\* A step of the pass that leaves the workers, the worktrees and the lane alone.
LEMMA PassSteps ==
    ASSUME AttemptsAssumption, TypeInv, PassStep, ~Stop
    PROVE  TypeInv'
<1> USE DEF AttemptsAssumption, TypeInv, Types, ProcessTypes
<1> SUFFICES RecordTypes' /\ WorkTypes' /\ ProcessTypes' /\ Chosen'
    OBVIOUS
<1>1. CASE Observe
  <2>1. pass' \in Passes /\ pass'.at = "sync"
      BY <1>1, RestFacts DEF Observe, Passes, Places, RecordTypes
  <2> QED
      BY <1>1, <2>1 DEF Observe, records, work, RecordTypes, WorkTypes, Chosen, Claiming
<1>2. CASE Sync
  <2>1. pass' \in Passes /\ pass'.at \notin Claiming
      BY <1>2, GotoFacts DEF Sync, Places, Claiming
  <2>2. pass.seen.status \in {"queued", "working", "review", "blocked"}
      BY DEF Passes, Trackers
  <2>3. Followed(pass.seen.status) \in HoldStates \union {"none", "resumed"}
      BY <2>2 DEF Followed, RecordTypes, Holds, HoldStates
  <2>4. hold' \in Holds
    <3>1. hold.generation + 1 \in Nat
        BY DEF RecordTypes, Holds
    <3>2. \/ hold' = hold
          \/ hold' = [state |-> "blocked", generation |-> hold.generation + 1, fenced |-> FALSE]
          \/ hold' = [hold EXCEPT !.state = Followed(pass.seen.status)]
        BY <1>2 DEF Sync
    <3>3. [state |-> "blocked", generation |-> hold.generation + 1, fenced |-> FALSE] \in Holds
        BY <3>1 DEF Holds, HoldStates
    <3>4. [hold EXCEPT !.state = Followed(pass.seen.status)] \in Holds
        BY <2>3 DEF RecordTypes, Holds
    <3> QED
        BY <3>2, <3>3, <3>4 DEF RecordTypes
  <2>5. claim' \in Claims
      BY <1>2 DEF Sync, RecordTypes, Claims
  <2> QED
      BY <1>2, <2>1, <2>4, <2>5 DEF Sync, work, RecordTypes, WorkTypes, Chosen
<1>3. CASE Clear
  <2>1. pass' \in Passes /\ pass'.at \notin Claiming
      BY <1>3, GotoFacts DEF Clear, Places, Claiming
  <2>2. hold' \in Holds
      BY <1>3 DEF Clear, RecordTypes, Holds, HoldStates
  <2> QED
      BY <1>3, <2>1, <2>2 DEF Clear, work, RecordTypes, WorkTypes, Chosen
<1>4. CASE Control
  <2>1. CASE restarts.request = NoRequest /\ Goto("plan") /\ UNCHANGED <<launcher, restarts>>
    <3>1. pass' \in Passes /\ pass'.at \notin Claiming
        BY <2>1, GotoFacts DEF Places, Claiming
    <3> QED
        BY <1>4, <2>1, <3>1 DEF Control, records, work, RecordTypes, WorkTypes, Chosen
  <2>2. CASE /\ Launch(restarts.request.attempt + 1, LeadControl, restarts.request.generation)
             /\ restarts' = [restarts EXCEPT
                  !.grants = @ \union {<<LeadControl, restarts.request.generation>>}]
    <3>1. LeadControl \in Controls /\ restarts.request.generation \in Nat
        BY DEF LeadControl, Controls, RecordTypes, Policies, Events
    <3>2. /\ pass' \in Passes /\ pass'.at = "wait"
          /\ launcher' \in [Launchers -> Commands]
        BY <2>2, <3>1, LaunchFacts
    <3>3. restarts' \in Policies
        BY <2>2, <3>1 DEF RecordTypes, Policies
    <3> QED
        BY <1>4, <3>2, <3>3 DEF Control, records, work, RecordTypes, WorkTypes, Chosen, Claiming
  <2> QED
      BY <1>4, <2>1, <2>2 DEF Control
<1>5. CASE Plan
  <2>1. pass' \in Passes /\ (pass'.at \in Claiming => pass'.attempt \in Attempts)
    <3>1. CASE PassEnds
        BY <3>1, RestFacts DEF PassEnds, Claiming
    <3>2. CASE \E a \in Attempts : \E act \in {"claim", "launch", "recover"} :
                 pass' = [pass EXCEPT !.plan = act, !.attempt = a,
                           !.at = IF act = "claim" THEN "preflight" ELSE "lineage"]
      <4>1. PICK a \in Attempts, act \in {"claim", "launch", "recover"} :
                pass' = [pass EXCEPT !.plan = act, !.attempt = a,
                           !.at = IF act = "claim" THEN "preflight" ELSE "lineage"]
          BY <3>2
      <4>2. (IF act = "claim" THEN "preflight" ELSE "lineage") \in Places
          BY DEF Places
      <4>3. a \in 0 .. MaxAttempt
          BY DEF Attempts
      <4> QED
          BY <4>1, <4>2, <4>3 DEF Passes
    <3> QED
        BY <1>5, <3>1, <3>2 DEF Plan
  <2>2. UNCHANGED <<tracker, records, work, restarts, lane, launcher, budget>>
      BY <1>5 DEF Plan
  <2> QED
      BY <2>1, <2>2 DEF records, work, RecordTypes, WorkTypes, Chosen
<1>6. CASE Preflight
  <2>1. pass' \in Passes /\ (pass'.at \in Claiming => pass'.attempt \in Attempts)
      BY <1>6, GotoFacts, RestFacts, RefusedFacts DEF Preflight, At, PassEnds, Places, Claiming, Chosen
  <2> QED
      BY <1>6, <2>1 DEF Preflight, records, work, RecordTypes, WorkTypes, Chosen
\* The local claim, and where its refusal leads.
<1>7. CASE ArchiveClaim \/ EvacuateClaim \/ PublishClaim
  <2>1. pass' \in Passes /\ (pass'.at \in Claiming => pass'.attempt \in Attempts)
    <3>1. pass.at = "local" /\ pass.attempt \in Attempts
        BY <1>7 DEF ArchiveClaim, EvacuateClaim, PublishClaim, At, Chosen, Claiming
    <3>2. UNCHANGED pass \/ Refused("receipt") \/ Goto("receipt")
        BY <1>7 DEF ArchiveClaim, EvacuateClaim, PublishClaim
    <3> QED
        BY <3>1, <3>2, GotoFacts, RefusedFacts DEF Places, Claiming
  <2>2. claim' \in Claims
      BY <1>7 DEF ArchiveClaim, EvacuateClaim, PublishClaim, At, Want, Claims, Chosen, Claiming,
                  Attempts, RecordTypes
  <2>3. UNCHANGED <<tracker, hold, execution, work, restarts, lane, launcher, budget>>
      BY <1>7 DEF ArchiveClaim, EvacuateClaim, PublishClaim
  <2> QED
      BY <2>1, <2>2, <2>3 DEF work, RecordTypes, WorkTypes, Chosen
<1>10. ASSUME NEW at \in Claiming, NEW then \in Claiming, NEW next \in Trackers,
              ClaimStep(at, next, then)
       PROVE  RecordTypes' /\ WorkTypes' /\ ProcessTypes' /\ Chosen'
  <2>1. pass' \in Passes /\ (pass'.at \in Claiming => pass'.attempt \in Attempts)
      BY <1>10, GotoFacts, RestFacts, RefusedFacts DEF ClaimStep, At, Places, Claiming, Chosen
  <2>2. tracker' \in Trackers
      BY <1>10 DEF ClaimStep, RecordTypes
  <2> QED
      BY <1>10, <2>1, <2>2 DEF ClaimStep, records, work, RecordTypes, WorkTypes, Chosen
<1>11. CASE PostReceipt
  <2>1. [tracker EXCEPT !.receipts = @ \union {Want}] \in Trackers
      BY <1>11 DEF PostReceipt, ClaimStep, At, RecordTypes, Trackers, Want, Chosen, Claiming
  <2> QED
      BY <1>10, <1>11, <2>1 DEF PostReceipt, Claiming
<1>12. CASE Assign
  <2>1. [tracker EXCEPT !.assigned = @ \/ KeepsAssignee] \in Trackers
      BY DEF RecordTypes, Trackers
  <2> QED
      BY <1>10, <1>12, <2>1 DEF Assign, Claiming
<1>13. CASE SetState
  <2>1. [tracker EXCEPT !.status = "working"] \in Trackers
      BY DEF RecordTypes, Trackers
  <2> QED
      BY <1>10, <1>13, <2>1 DEF SetState, Claiming
<1>14. CASE DispatchLineage
  <2>1. Want \in Attempts /\ worker[Want].record \in Nat
      BY <1>14 DEF DispatchLineage, At, Want, Chosen, Claiming, WorkTypes, Workers
  <2>2. CASE PassEnds /\ UNCHANGED <<launcher, restarts>>
      BY <1>14, <2>2, RestFacts
         DEF DispatchLineage, PassEnds, records, work, RecordTypes, WorkTypes, Chosen, Claiming
  <2>3. CASE Launch(Want, <<"start", Want>>, 0) /\ UNCHANGED restarts
    <3>1. <<"start", Want>> \in Controls
        BY <2>1 DEF Controls, Attempts
    <3>2. /\ pass' \in Passes /\ pass'.at = "wait"
          /\ launcher' \in [Launchers -> Commands]
        BY <2>3, <3>1, LaunchFacts
    <3> QED
        BY <1>14, <2>3, <3>2
           DEF DispatchLineage, records, work, RecordTypes, WorkTypes, Chosen, Claiming
  <2>4. CASE /\ Launch(Want + 1, AutoControl, worker[Want].record)
             /\ restarts' = [restarts EXCEPT
                  !.grants = @ \union {<<AutoControl, worker[Want].record>>}]
    <3>1. AutoControl \in Controls
        BY <2>1 DEF AutoControl, Controls, Attempts
    <3>2. /\ pass' \in Passes /\ pass'.at = "wait"
          /\ launcher' \in [Launchers -> Commands]
        BY <2>1, <2>4, <3>1, LaunchFacts
    <3>3. restarts' \in Policies
        BY <2>1, <2>4, <3>1 DEF RecordTypes, Policies
    <3> QED
        BY <1>14, <3>2, <3>3
           DEF DispatchLineage, records, work, RecordTypes, WorkTypes, Chosen, Claiming
  <2> QED
      BY <1>14, <2>2, <2>3, <2>4 DEF DispatchLineage
<1>15. CASE Wait
  <2>1. pass' \in Passes /\ pass'.at \notin Claiming
    <3>1. CASE PassEnds
        BY <3>1, RestFacts DEF PassEnds, Claiming
    <3>2. CASE \E seen \in {pass.seen, tracker} : pass' = [pass EXCEPT !.seen = seen, !.at = "plan"]
      <4>1. PICK seen \in {pass.seen, tracker} : pass' = [pass EXCEPT !.seen = seen, !.at = "plan"]
          BY <3>2
      <4>2. seen \in Trackers /\ "plan" \in Places
          BY DEF Passes, Places, RecordTypes
      <4> QED
          BY <4>1, <4>2 DEF Passes, Claiming
    <3> QED
        BY <1>15, <3>1, <3>2 DEF Wait
  <2>2. restarts' \in Policies
      BY <1>15 DEF Wait, RecordTypes, Policies, NoRequest
  <2> QED
      BY <1>15, <2>1, <2>2 DEF Wait, records, work, RecordTypes, WorkTypes, Chosen
<1> QED
    BY <1>1, <1>2, <1>3, <1>4, <1>5, <1>6, <1>7, <1>11, <1>12, <1>13,
       <1>14, <1>15 DEF PassStep

\* A launcher's step, as far as the launchers and the lane are concerned.
LEMMA ProceedFacts ==
    ASSUME AttemptsAssumption, ProcessTypes, NEW l \in Launchers, NEW ok,
           NEW at \in Stations \ {"off", "begin", "admit"}, Proceed(l, ok, at)
    PROVE  Advances(l)
<1>1. CASE Move(l, at) /\ UNCHANGED lane
    BY <1>1, MoveFacts DEF Advances, ProcessTypes
<1>2. CASE Leave(l)
    BY <1>2, LeaveFacts DEF Advances
<1> QED
    BY <1>1, <1>2 DEF Proceed

LEMMA MoveAdvances ==
    ASSUME AttemptsAssumption, ProcessTypes, NEW l \in Launchers, NEW at \in Stations,
           Move(l, at), at \notin {"off", "admit"},
           at = "begin" => launcher[l].at \notin {"off", "admit"},
           lane' = lane \/ (lane = 0 /\ lane' = l)
    PROVE  Advances(l)
    BY MoveFacts DEF Advances, ProcessTypes

LEMMA RetiredFacts ==
    ASSUME NEW l \in Launchers PROVE Retired(l) \in {"begin", "tree"}
    BY DEF Retired

\* Of the steps of a retirement.
LEMMA RetireFacts ==
    ASSUME AttemptsAssumption, Types, NEW l \in Launchers, NEW at \in Stations \ {"off", "admit"},
           NEW was, NEW next, NEW then \in Stations \ {"off", "admit"}, Retire(l, at, was, next, then),
           Old(l) \in Attempts => next \in Trees
    PROVE  Advances(l) /\ tree' \in [Attempts -> Trees]
<1> USE DEF Types, ProcessTypes
<1>1. CASE tree' = [tree EXCEPT ![Old(l)] = next] /\ Move(l, then) /\ UNCHANGED lane
  <2>1. Advances(l)
      BY <1>1, MoveAdvances DEF Retire, In
  <2> QED
      BY <1>1, <2>1 DEF WorkTypes
<1>2. CASE Leave(l) /\ UNCHANGED tree
    BY <1>2, LeaveFacts DEF Advances, WorkTypes
<1> QED
    BY <1>1, <1>2 DEF Retire

\* The record of one worker is written.
LEMMA WorkerFacts ==
    ASSUME WorkTypes, NEW a, NEW w, worker' = [worker EXCEPT ![a] = w],
           a \in Attempts => w \in Workers /\ w.record \in {0, w.born},
           UNCHANGED capability, tree' \in [Attempts -> Trees]
    PROVE  WorkTypes'
<1>1. worker' \in [Attempts -> Workers]
    BY DEF WorkTypes
<1>2. \A b \in Attempts : worker'[b].record \in {0, worker'[b].born}
    BY DEF WorkTypes
<1> QED
    BY <1>1, <1>2 DEF WorkTypes

LEMMA LauncherSteps ==
    ASSUME AttemptsAssumption, TypeInv, NEW l \in Launchers, LauncherStep(l)
    PROVE  TypeInv' /\ Advances(l)
<1> USE DEF AttemptsAssumption, TypeInv, Types, ProcessTypes
<1>0. ASSUME Advances(l), RecordTypes', WorkTypes', UNCHANGED pass
      PROVE  TypeInv' /\ Advances(l)
    BY <1>0 DEF Advances, Chosen
<1>r. ASSUME UNCHANGED <<tracker, records, restarts, budget>> PROVE RecordTypes'
    BY <1>r DEF RecordTypes, records
<1>w. ASSUME UNCHANGED work PROVE WorkTypes'
    BY <1>w DEF WorkTypes, work
<1>t. ASSUME UNCHANGED <<worker, capability>>, tree' \in [Attempts -> Trees] PROVE WorkTypes'
    BY <1>t DEF WorkTypes
<1>1. CASE Admit(l)
  <2>1. CASE Authorize(l) /\ lane' = l /\ Move(l, "revoke")
    <3>1. Advances(l)
        BY <1>1, <2>1, MoveAdvances DEF Admit, In, LaneFree, Stations
    <3>2. restarts.automatic' \in 0 .. MaxAutomatic /\ restarts.authorized' \in 0 .. MaxAuthorized
        BY <2>1 DEF Authorize, Room, RecordTypes, Policies
    <3>3. <<launcher[l].control, launcher[l].generation>> \in Controls \X Nat
        BY DEF Commands
    <3>4. restarts' \in Policies
        BY <2>1, <3>2, <3>3 DEF Authorize, RecordTypes, Policies
    <3>5. RecordTypes'
        BY <1>1, <3>4 DEF Admit, RecordTypes, records
    <3> QED
        BY <1>1, <1>0, <1>w, <3>1, <3>5 DEF Admit
  <2>2. CASE lane' = l /\ Move(l, "revoke") /\ UNCHANGED restarts
    <3>1. Advances(l)
        BY <1>1, <2>2, MoveAdvances DEF Admit, In, LaneFree, Stations
    <3> QED
        BY <1>1, <1>0, <1>r, <1>w, <2>2, <3>1 DEF Admit
  <2>3. CASE Leave(l) /\ UNCHANGED restarts
    <3>1. Advances(l)
        BY <2>3, LeaveFacts DEF Advances
    <3> QED
        BY <1>1, <1>0, <1>r, <1>w, <2>3, <3>1 DEF Admit
  <2> QED
      BY <1>1, <2>1, <2>2, <2>3 DEF Admit
<1>2. CASE Revoke(l)
  <2>1. Advances(l)
      BY <1>2, ProceedFacts DEF Revoke, Stations
  <2>2. capability' \in 0 .. MaxAttempt
    <3>1. CASE LineageOk(Old(l), FALSE)
        BY <1>2, <3>1 DEF Revoke
    <3>2. CASE ~LineageOk(Old(l), FALSE)
        BY <1>2, <3>2 DEF Revoke, WorkTypes
    <3> QED
        BY <3>1, <3>2
  <2>3. WorkTypes'
      BY <1>2, <2>2 DEF Revoke, WorkTypes
  <2> QED
      BY <1>2, <1>0, <1>r, <2>1, <2>3 DEF Revoke
<1>3. CASE Halt(l)
  <2>1. Advances(l)
      BY <1>3, MoveAdvances DEF Halt, Stations
  <2> DEFINE w == [worker[Old(l)] EXCEPT !.alive = FALSE, !.record = 0]
  <2>2. worker' = [worker EXCEPT ![Old(l)] = w] /\ UNCHANGED <<tree, capability>>
      BY <1>3 DEF Halt
  <2>3. Old(l) \in Attempts => w \in Workers /\ w.record \in {0, w.born}
    <3>1. Old(l) \in Attempts => worker[Old(l)] \in Workers
        BY DEF WorkTypes
    <3>2. worker[Old(l)] \in Workers => w \in Workers
        BY DEF Workers
    <3>3. worker[Old(l)] \in Workers => w.record = 0
        BY DEF Workers
    <3> QED
        BY <3>1, <3>2, <3>3
  <2>4. WorkTypes'
      BY <2>2, <2>3, WorkerFacts DEF WorkTypes
  <2> QED
      BY <1>3, <1>0, <1>r, <2>1, <2>4 DEF Halt
<1>4. CASE Begin(l)
  <2>1. Advances(l)
      BY <1>4, ProceedFacts DEF Begin, Stations
  <2> QED
      BY <1>4, <1>0, <1>r, <1>w, <2>1 DEF Begin
<1>5. CASE Inspect(l)
  <2>1. Advances(l)
    <3>1. Retired(l) \in {"begin", "tree"} /\ launcher[l].at = "inspect"
        BY <1>5, RetiredFacts DEF Inspect, In
    <3>2. \/ Proceed(l, tree[Old(l)].branch # launcher[l].control, Retired(l))
          \/ Move(l, IF tree[Old(l)].branch = launcher[l].control THEN "finalize" ELSE Retired(l))
                /\ UNCHANGED lane
          \/ Move(l, "remove") /\ UNCHANGED lane
          \/ Proceed(l, tree[Old(l)].branch \in {TaskBranch, launcher[l].control}, "switch")
        BY <1>5 DEF Inspect
    <3>3. ASSUME NEW ok, Proceed(l, ok, Retired(l)) PROVE Advances(l)
      <4>1. CASE Move(l, Retired(l)) /\ UNCHANGED lane
          BY <3>1, <4>1, MoveAdvances DEF Stations
      <4>2. CASE Leave(l)
          BY <4>2, LeaveFacts DEF Advances
      <4> QED
          BY <3>3, <4>1, <4>2 DEF Proceed
    <3> QED
        BY <3>1, <3>2, <3>3, ProceedFacts, MoveAdvances DEF Stations
  <2> QED
      BY <1>5, <1>0, <1>r, <1>w, <2>1 DEF Inspect
<1>6. NoTree \in Trees /\ \A t \in Trees : [NoTree EXCEPT !.branch = t.branch] \in Trees
    BY DEF NoTree, Trees, TaskBranch
<1>7. ASSUME Old(l) \in Attempts PROVE tree[Old(l)] \in Trees
    BY <1>7 DEF WorkTypes
<1>8. CASE Remove(l)
  <2>1. Advances(l) /\ tree' \in [Attempts -> Trees]
      BY <1>6, <1>7, <1>8, RetireFacts, RetiredFacts DEF Remove, Stations
  <2> QED
      BY <1>8, <1>0, <1>r, <1>t, <2>1 DEF Remove, Retire
<1>9. CASE Switch(l)
  <2>1. Old(l) \in Attempts => [tree[Old(l)] EXCEPT !.branch = launcher[l].control] \in Trees
      BY <1>7 DEF Trees, Commands, Controls
  <2>2. Advances(l) /\ tree' \in [Attempts -> Trees]
      BY <1>9, <2>1, RetireFacts DEF Switch, Stations
  <2> QED
      BY <1>9, <1>0, <1>r, <1>t, <2>2 DEF Switch, Retire
<1>10. CASE Prepare(l)
  <2>1. Old(l) \in Attempts => [tree[Old(l)] EXCEPT !.receipt = "prepare"] \in Trees
      BY <1>7 DEF Trees
  <2>2. Advances(l) /\ tree' \in [Attempts -> Trees]
      BY <1>10, <2>1, RetireFacts DEF Prepare, Stations
  <2> QED
      BY <1>10, <1>0, <1>r, <1>t, <2>2 DEF Prepare, Retire
<1>11. CASE MoveTree(l)
  <2>1. Old(l) \in Attempts => [tree[Old(l)] EXCEPT !.at = "quarantine"] \in Trees
      BY <1>7 DEF Trees
  <2>2. Advances(l) /\ tree' \in [Attempts -> Trees]
      BY <1>11, <2>1, RetireFacts DEF MoveTree, Stations
  <2> QED
      BY <1>11, <1>0, <1>r, <1>t, <2>2 DEF MoveTree, Retire
<1>12. CASE Finalize(l)
  <2>1. Old(l) \in Attempts => [tree[Old(l)] EXCEPT !.receipt = "final"] \in Trees
      BY <1>7 DEF Trees
  <2>2. Advances(l) /\ tree' \in [Attempts -> Trees]
      BY <1>12, <2>1, RetireFacts, RetiredFacts DEF Finalize, Stations
  <2> QED
      BY <1>12, <1>0, <1>r, <1>t, <2>2 DEF Finalize, Retire
<1>13. CASE MakeTree(l)
  <2>1. Advances(l)
      BY <1>13, ProceedFacts DEF MakeTree, Stations
  <2>2. [NoTree EXCEPT !.at = "here"] \in Trees
      BY <1>6 DEF Trees
  <2>3. tree' = tree \/ tree' = [tree EXCEPT ![New(l)] = [NoTree EXCEPT !.at = "here"]]
      BY <1>13 DEF MakeTree
  <2>4. tree' \in [Attempts -> Trees]
      BY <2>2, <2>3 DEF WorkTypes
  <2> QED
      BY <1>13, <1>0, <1>r, <1>t, <2>1, <2>4 DEF MakeTree
<1>14. CASE Packet(l)
  <2>1. Advances(l)
      BY <1>14, ProceedFacts DEF Packet, Stations
  <2>2. execution' \in Executions
      BY <1>14 DEF Packet, RecordTypes, Executions, Claims, New, Commands
  <2>3. RecordTypes'
      BY <1>14, <2>2 DEF Packet, RecordTypes
  <2> QED
      BY <1>14, <1>0, <1>w, <2>1, <2>3 DEF Packet
<1>15. CASE TakeLane(l)
  <2>1. Advances(l)
      BY <1>15, MoveAdvances DEF TakeLane, Stations
  <2> QED
      BY <1>15, <1>0, <1>r, <1>w, <2>1 DEF TakeLane
<1>16. CASE Check(l)
  <2>1. Advances(l)
      BY <1>16, ProceedFacts DEF Check, Stations
  <2> QED
      BY <1>16, <1>0, <1>r, <1>w, <2>1 DEF Check
<1>17. CASE Mint(l)
  <2>1. Advances(l)
      BY <1>17, MoveAdvances DEF Mint, Stations
  <2>2. WorkTypes'
      BY <1>17 DEF Mint, WorkTypes, New, Commands
  <2> QED
      BY <1>17, <1>0, <1>r, <2>1, <2>2 DEF Mint
<1>18. CASE Spawn(l)
  <2>1. Advances(l)
      BY <1>18, LeaveFacts DEF Spawn, Advances
  <2> DEFINE w == [born |-> worker[New(l)].born + 1, record |-> worker[New(l)].born + 1,
                   alive |-> TRUE, late |-> ~LineageOk(New(l), Restart(l))]
  <2>2. worker' = [worker EXCEPT ![New(l)] = w] /\ UNCHANGED <<tree, capability>>
      BY <1>18 DEF Spawn
  <2>3. New(l) \in Attempts => w \in Workers /\ w.record \in {0, w.born}
      BY DEF WorkTypes, Workers
  <2>4. WorkTypes'
      BY <2>2, <2>3, WorkerFacts DEF WorkTypes
  <2> QED
      BY <1>18, <1>0, <1>r, <2>1, <2>4 DEF Spawn
<1> QED
    BY <1>1, <1>2, <1>3, <1>4, <1>5, <1>8, <1>9, <1>10, <1>11, <1>12, <1>13, <1>14,
       <1>15, <1>16, <1>17, <1>18 DEF LauncherStep

\* The stop of a held task, the workers, the kills and the people.
LEMMA OtherSteps ==
    ASSUME AttemptsAssumption, TypeInv,
           \/ Stop \/ KillPass \/ Crash
           \/ \E l \in Launchers : KillLauncher(l)
           \/ \E a \in Attempts : Edit(a) \/ Submit(a) \/ Quit(a) \/ Die(a)
           \/ People
    PROVE  TypeInv'
<1> USE DEF AttemptsAssumption, TypeInv, Types
<1>p. ASSUME UNCHANGED <<lane, pass, launcher>> PROVE ProcessTypes' /\ Chosen'
    BY <1>p DEF ProcessTypes, Chosen
<1>r. ASSUME UNCHANGED <<tracker, records, restarts>>, budget' \in [Events -> Nat] PROVE RecordTypes'
    BY <1>r DEF RecordTypes, records
<1>w. ASSUME UNCHANGED work PROVE WorkTypes'
    BY <1>w DEF WorkTypes, work
<1>b. ASSUME NEW event \in Events, Spend(event) PROVE budget' \in [Events -> Nat]
    BY <1>b DEF Spend, RecordTypes
<1>t. ASSUME UNCHANGED <<records, restarts>>, tracker' \in Trackers, budget' \in [Events -> Nat]
      PROVE  RecordTypes'
    BY <1>t DEF RecordTypes, records
<1>d. ASSUME NEW a, NEW d \in BOOLEAN, tree' = [tree EXCEPT ![a] = [tree[a] EXCEPT !.dirty = d]]
      PROVE  tree' \in [Attempts -> Trees]
  <2>1. a \in Attempts => [tree[a] EXCEPT !.dirty = d] \in Trees
      BY DEF WorkTypes, Trees
  <2> QED
      BY <1>d, <2>1 DEF WorkTypes
<1>x. ASSUME NEW status \in {"queued", "working", "review", "blocked"},
             NEW marker \in {"none", "request", "findings"}
      PROVE  /\ [tracker EXCEPT !.status = status] \in Trackers
             /\ [tracker EXCEPT !.status = status, !.marker = marker] \in Trackers
    BY DEF RecordTypes, Trackers
<1>1. CASE Stop
  <2>1. hold' \in Holds
      BY <1>1 DEF Stop, RecordTypes, Holds
  <2>2. pass' \in Passes /\ pass'.at \notin Claiming
      BY <1>1, GotoFacts DEF Stop, ProcessTypes, Places, Claiming
  <2>3. \A a \in Attempts : [worker[a] EXCEPT !.alive = FALSE, !.record = 0] \in Workers
      BY DEF WorkTypes, Workers
  <2>4. /\ worker' \in [Attempts -> Workers]
        /\ \A a \in Attempts : worker'[a].record = 0
      BY <1>1, <2>3 DEF Stop, WorkTypes, Workers
  <2> QED
    <3>1. RecordTypes'
        BY <1>1, <2>1 DEF Stop, RecordTypes
    <3>2. WorkTypes'
      <4>1. tree' \in [Attempts -> Trees]
          BY <1>1 DEF Stop, WorkTypes
      <4>2. capability' = 0
          BY <1>1 DEF Stop
      <4>3. 0 \in 0 .. MaxAttempt
          OBVIOUS
      <4> QED
          BY <2>4, <4>1, <4>2, <4>3 DEF WorkTypes
    <3>3. ProcessTypes' /\ Chosen'
        BY <1>1, <2>2 DEF Stop, ProcessTypes, Chosen
    <3> QED
        BY <3>1, <3>2, <3>3
<1>2. CASE KillPass
  <2>1. pass' \in Passes /\ pass'.at = "idle"
      BY <1>2, RestFacts DEF KillPass, PassEnds
  <2> QED
      BY <1>2, <1>r, <1>w, <1>b, <2>1 DEF KillPass, Events, ProcessTypes, Chosen, Claiming
<1>3. CASE Crash
  <2>1. pass' \in Passes /\ pass'.at = "idle"
      BY <1>3, RestFacts DEF Crash, PassEnds
  <2>2. launcher' \in [Launchers -> Commands]
      BY <1>3, GoneFacts DEF Crash
  <2> QED
      BY <1>3, <1>r, <1>w, <1>b, <2>1, <2>2 DEF Crash, Events, ProcessTypes, Chosen, Claiming
<1>4. ASSUME NEW l \in Launchers, KillLauncher(l) PROVE TypeInv'
  <2>1. launcher' \in [Launchers -> Commands] /\ lane' \in {0} \union Launchers
      BY <1>4, LeaveFacts DEF KillLauncher
  <2> QED
      BY <1>4, <1>r, <1>w, <1>b, <2>1 DEF KillLauncher, Events, ProcessTypes, Chosen
<1>5. ASSUME NEW a \in Attempts, Edit(a) PROVE TypeInv'
  <2>1. tree' \in [Attempts -> Trees]
      BY <1>5, <1>d DEF Edit
  <2>2. budget' \in [Events -> Nat]
      BY <1>5 DEF Edit, RecordTypes, Events
  <2> QED
      BY <1>5, <1>p, <1>r, <2>1, <2>2 DEF Edit, WorkTypes
<1>6. ASSUME NEW a \in Attempts PROVE [worker[a] EXCEPT !.alive = FALSE] \in Workers
                                      /\ [worker[a] EXCEPT !.alive = FALSE].record \in
                                           {0, [worker[a] EXCEPT !.alive = FALSE].born}
  <2>1. worker[a] \in Workers /\ worker[a].record \in {0, worker[a].born}
      BY DEF WorkTypes
  <2> QED
      BY <2>1 DEF Workers
<1>7. ASSUME NEW a \in Attempts, Submit(a) PROVE TypeInv'
  <2>1. worker' = [worker EXCEPT ![a] = [worker[a] EXCEPT !.alive = FALSE]]
      BY <1>7 DEF Submit
  <2>2. tree' \in [Attempts -> Trees]
      BY <1>7, <1>d DEF Submit
  <2>3. WorkTypes'
      BY <1>6, <1>7, <2>1, <2>2, WorkerFacts DEF Submit
  <2>4. RecordTypes'
      BY <1>7, <1>t, <1>x DEF Submit, RecordTypes
  <2> QED
      BY <1>7, <1>p, <2>3, <2>4 DEF Submit
<1>8. ASSUME NEW a \in Attempts, Quit(a) PROVE TypeInv'
  <2>1. worker' = [worker EXCEPT ![a] = [worker[a] EXCEPT !.alive = FALSE]]
      BY <1>8 DEF Quit
  <2>2. WorkTypes'
      BY <1>6, <1>8, <2>1, WorkerFacts DEF Quit, WorkTypes
  <2> QED
      BY <1>8, <1>p, <1>r, <2>2 DEF Quit, RecordTypes
<1>9. ASSUME NEW a \in Attempts, Die(a) PROVE TypeInv'
  <2>1. worker' = [worker EXCEPT ![a] = [worker[a] EXCEPT !.alive = FALSE]]
      BY <1>9 DEF Die
  <2>2. WorkTypes'
      BY <1>6, <1>9, <2>1, WorkerFacts DEF Die, WorkTypes
  <2> QED
      BY <1>9, <1>p, <1>r, <1>b, <2>2 DEF Die, Events
<1>10. CASE Findings
    BY <1>10, <1>p, <1>w, <1>t, <1>b, <1>x DEF Findings, Events
<1>11. CASE Block
    BY <1>11, <1>p, <1>w, <1>t, <1>b, <1>x DEF Block, Events
<1>12. CASE Unblock
    BY <1>12, <1>p, <1>w, <1>t, <1>x DEF Unblock, RecordTypes
<1>13. CASE UnblockEarly
    BY <1>13, <1>p, <1>w, <1>t, <1>b, <1>x DEF UnblockEarly, Events
<1>14. CASE TakeOver
    BY <1>14, <1>p, <1>w, <1>t, <1>b, <1>x DEF TakeOver, Events
<1>15. CASE HandBack
    BY <1>15, <1>p, <1>w, <1>t, <1>x DEF HandBack, RecordTypes
<1>16. CASE Resolve
  <2>1. tracker' \in Trackers
      BY <1>16 DEF Resolve, RecordTypes, Trackers, Holds
  <2>2. tree' \in [Attempts -> Trees]
      BY <1>16, <1>d DEF Resolve, WorkTypes
  <2> QED
      BY <1>16, <1>p, <1>t, <2>1, <2>2 DEF Resolve, RecordTypes, WorkTypes
<1>17. CASE Ask
  <2>1. execution.attempt \in Attempts
      BY <1>17 DEF Ask, RecordTypes, Executions, Attempts
  <2>2. worker[execution.attempt].record \in Nat
      BY <2>1 DEF WorkTypes, Workers
  <2>3. restarts' \in Policies
      BY <1>17, <2>1, <2>2 DEF Ask, RecordTypes, Policies, Attempts
  <2>4. budget' \in [Events -> Nat]
      BY <1>17, <1>b DEF Ask, Events
  <2> QED
      BY <1>17, <1>p, <1>w, <2>3, <2>4 DEF Ask, RecordTypes, records
<1> QED
    BY <1>1, <1>2, <1>3, <1>4, <1>5, <1>7, <1>8, <1>9, <1>10, <1>11, <1>12, <1>13,
       <1>14, <1>15, <1>16, <1>17 DEF People

LEMMA NextTypes == AttemptsAssumption /\ TypeInv /\ [Next]_vars => TypeInv'
<1> SUFFICES ASSUME AttemptsAssumption, TypeInv, [Next]_vars PROVE TypeInv'
    OBVIOUS
<1>1. CASE PassStep /\ ~Stop
    BY <1>1, PassSteps
<1>2. CASE \E l \in Launchers : LauncherStep(l)
    BY <1>2, LauncherSteps
<1>3. CASE UNCHANGED vars
    BY <1>3 DEF vars, records, work, TypeInv, Types, RecordTypes, WorkTypes, ProcessTypes, Chosen
<1> QED
    BY <1>1, <1>2, <1>3, OtherSteps DEF Next

------------------------------------------------------------------------------
(* The fence of a held task. *)

\* A launcher past its last look is in the lane, so that a stop, which waits for the
\* lane, meets none of them.
InLane == \A l \in Launchers : launcher[l].at \in {"check", "mint", "spawn"} => lane = l

Fence ==
    Held /\ hold.fenced =>
      /\ capability = 0
      /\ \A a \in Attempts : ~worker[a].alive
      /\ \A l \in Launchers : launcher[l].at \notin {"mint", "spawn"}

FenceInv == InLane /\ Fence

\* What a launcher's step has to show: that it is in the lane where it must be, and that
\* under a fence it gives no authority and starts nothing.
LEMMA LauncherFence ==
    ASSUME AttemptsAssumption, TypeInv, FenceInv, NEW l \in Launchers, Advances(l),
           UNCHANGED hold,
           launcher'[l].at \in {"check", "mint", "spawn"} => lane' = l,
           Held /\ hold.fenced => /\ launcher'[l].at \notin {"mint", "spawn"}
                                  /\ capability' = 0
                                  /\ \A a \in Attempts : ~worker'[a].alive
    PROVE  FenceInv'
<1>1. InLane'
  <2> SUFFICES ASSUME NEW k \in Launchers, k # l, launcher'[k].at \in {"check", "mint", "spawn"}
               PROVE  lane' = k
      BY DEF InLane
  <2>1. launcher'[k] = launcher[k]
      BY DEF Advances
  <2>2. lane = k
      BY <2>1 DEF FenceInv, InLane
  <2> QED
      BY <2>2 DEF Advances, AttemptsAssumption
<1>2. Fence'
  <2> SUFFICES ASSUME Held, hold.fenced, NEW k \in Launchers, k # l
               PROVE  launcher'[k].at \notin {"mint", "spawn"}
      BY DEF Fence, Held
  <2> QED
      BY DEF FenceInv, Fence, Advances
<1> QED
    BY <1>1, <1>2 DEF FenceInv

LEMMA LauncherKeepsFence ==
    ASSUME AttemptsAssumption, TypeInv, FenceInv, NEW l \in Launchers, LauncherStep(l)
    PROVE  FenceInv'
<1>a. Advances(l)
    BY LauncherSteps
<1> USE DEF TypeInv, Types, ProcessTypes
<1>g. Gone.at = "off"
    BY DEF Gone
<1>m. ASSUME NEW at \in Stations, Move(l, at) PROVE launcher'[l].at = at
    BY <1>m, MoveFacts
<1>v. ASSUME Leave(l) PROVE launcher'[l].at = "off"
    BY <1>v, <1>g, LeaveFacts
<1>p. ASSUME NEW ok, NEW at \in Stations, Proceed(l, ok, at)
      PROVE  launcher'[l].at \in {at, "off"} /\ (launcher'[l].at # "off" => ok /\ UNCHANGED lane)
  <2>1. CASE ok
      BY <1>p, <1>m, <2>1 DEF Proceed
  <2>2. CASE ~ok
      BY <1>p, <1>v, <2>2 DEF Proceed
  <2> QED
      BY <2>1, <2>2
\* A step that ends short of the last look, and takes authority away if anything.
<1>q. ASSUME UNCHANGED hold, launcher'[l].at \notin {"check", "mint", "spawn"},
             capability' \in {0, capability},
             \A a \in Attempts : worker'[a].alive => worker[a].alive
      PROVE  FenceInv'
    BY <1>a, <1>q, LauncherFence DEF FenceInv, Fence
<1>s. ASSUME UNCHANGED <<hold, worker, capability>>,
             launcher'[l].at \notin {"check", "mint", "spawn"}
      PROVE  FenceInv'
    BY <1>q, <1>s
<1>t. ASSUME NEW at \in Stations \ {"check", "mint", "spawn"}, NEW was, NEW next,
             NEW then \in Stations \ {"check", "mint", "spawn"},
             Retire(l, at, was, next, then)
      PROVE  FenceInv'
    BY <1>t, <1>m, <1>s, <1>v DEF Retire, records
<1>1. CASE Admit(l)
    BY <1>1, <1>m, <1>s, <1>v DEF Admit, records, work, Stations
<1>2. CASE Revoke(l)
  <2>1. capability' \in {0, capability}
    <3>1. CASE LineageOk(Old(l), FALSE)
        BY <1>2, <3>1 DEF Revoke
    <3>2. CASE ~LineageOk(Old(l), FALSE)
        BY <1>2, <3>2 DEF Revoke
    <3> QED
        BY <3>1, <3>2
  <2>2. launcher'[l].at \in {"halt", "off"}
      BY <1>2, <1>p DEF Revoke, Stations
  <2> QED
      BY <1>2, <1>q, <2>1, <2>2 DEF Revoke, records
<1>3. CASE Halt(l)
  <2>1. \A a \in Attempts : worker'[a].alive => worker[a].alive
      BY <1>3 DEF Halt, WorkTypes, Workers
  <2>2. launcher'[l].at = "inspect"
      BY <1>3, <1>m DEF Halt, Stations
  <2> QED
      BY <1>3, <1>q, <2>1, <2>2 DEF Halt, records
<1>4. CASE Begin(l)
  <2>1. launcher'[l].at \in {"inspect", "tree", "off"}
      BY <1>4, <1>p DEF Begin, Stations
  <2> QED
      BY <1>4, <1>s, <2>1 DEF Begin, records, work
<1>5. CASE Inspect(l)
  <2>1. launcher'[l].at \notin {"check", "mint", "spawn"}
      BY <1>5, <1>m, <1>p, RetiredFacts DEF Inspect, Stations
  <2> QED
      BY <1>5, <1>s, <2>1 DEF Inspect, records, work
<1>6. CASE Remove(l)
    BY <1>6, <1>t, RetiredFacts DEF Remove, Stations
<1>7. CASE Switch(l)
    BY <1>7, <1>t DEF Switch, Stations
<1>8. CASE Prepare(l)
    BY <1>8, <1>t DEF Prepare, Stations
<1>9. CASE MoveTree(l)
    BY <1>9, <1>t DEF MoveTree, Stations
<1>10. CASE Finalize(l)
    BY <1>10, <1>t, RetiredFacts DEF Finalize, Stations
<1>11. CASE MakeTree(l)
  <2>1. launcher'[l].at \in {"packet", "off"}
      BY <1>11, <1>p DEF MakeTree, Stations
  <2> QED
      BY <1>11, <1>s, <2>1 DEF MakeTree, records
<1>12. CASE Packet(l)
  <2>1. /\ launcher'[l].at \in {"check", "lane", "off"}
        /\ launcher'[l].at = "check" => lane = l /\ UNCHANGED lane
      BY <1>12, <1>p DEF Packet, Stations
  <2> QED
      BY <1>a, <1>12, <2>1, LauncherFence DEF Packet, work, FenceInv, Fence
<1>13. CASE TakeLane(l)
  <2>1. launcher'[l].at = "check" /\ lane' = l
      BY <1>13, <1>m DEF TakeLane, Stations
  <2> QED
      BY <1>a, <1>13, <2>1, LauncherFence DEF TakeLane, records, work, FenceInv, Fence
<1>14. CASE Check(l)
  <2>1. /\ launcher'[l].at \in {"mint", "off"}
        /\ launcher'[l].at = "mint" => Startable(l) /\ UNCHANGED lane
      BY <1>14, <1>p DEF Check, Stations
  <2>2. lane = l
      BY <1>14 DEF Check, In, FenceInv, InLane
  <2> QED
      BY <1>a, <1>14, <2>1, <2>2, LauncherFence DEF Check, records, work, FenceInv, Fence, Startable
<1>15. CASE Mint(l)
  <2>1. launcher'[l].at = "spawn"
      BY <1>15, <1>m DEF Mint, Stations
  <2>2. lane = l /\ ~(Held /\ hold.fenced)
      BY <1>15 DEF Mint, In, FenceInv, InLane, Fence
  <2> QED
      BY <1>a, <1>15, <2>1, <2>2, LauncherFence DEF Mint, records
<1>16. CASE Spawn(l)
  <2>1. launcher'[l].at = "off"
      BY <1>16, <1>v DEF Spawn
  <2>2. ~(Held /\ hold.fenced)
      BY <1>16 DEF Spawn, In, FenceInv, Fence
  <2> QED
      BY <1>a, <1>16, <2>1, <2>2, LauncherFence DEF Spawn, records
<1> QED
    BY <1>1, <1>2, <1>3, <1>4, <1>5, <1>6, <1>7, <1>8, <1>9, <1>10, <1>11, <1>12, <1>13,
       <1>14, <1>15, <1>16 DEF LauncherStep

\* A hold that is kept or replaced brings no fence of its own, and neither does a launch.
LEMMA HoldKept ==
    ASSUME FenceInv, Held' /\ hold'.fenced => Held /\ hold.fenced,
           UNCHANGED <<lane, launcher, worker, capability>>
    PROVE  FenceInv'
    BY DEF FenceInv, InLane, Fence

LEMMA LaunchKeepsFence ==
    ASSUME AttemptsAssumption, TypeInv, FenceInv, NEW a, NEW control \in Controls,
           NEW generation \in Nat, Launch(a, control, generation),
           UNCHANGED <<hold, lane, worker, capability>>
    PROVE  FenceInv'
<1>0. ProcessTypes
    BY DEF TypeInv, Types
<1>p. PICK l \in Launchers : Starts(l, a, control, generation)
    BY <1>0, LaunchFacts
<1>1. /\ \A k \in Launchers \ {l} : launcher'[k] = launcher[k]
      /\ launcher'[l].at = IF control[1] = "start" THEN "begin" ELSE "admit"
      /\ launcher'[l].attempt = a /\ launcher'[l].control = control
    BY <1>p DEF Starts
<1>2. launcher'[l].at \notin {"check", "mint", "spawn"}
    BY <1>1
<1>3. Held' <=> Held
    BY DEF Held
<1>4. InLane'
    BY <1>1, <1>2 DEF FenceInv, InLane
<1>5. Fence'
    BY <1>1, <1>2, <1>3 DEF FenceInv, Fence
<1> QED
    BY <1>4, <1>5 DEF FenceInv

\* An action of a pass that neither syncs, stops nor launches.
Idle == \/ Observe \/ Plan \/ Preflight \/ ArchiveClaim \/ EvacuateClaim \/ PublishClaim
        \/ PostReceipt \/ Assign \/ SetState \/ Wait

LEMMA IdleLeaves ==
    ASSUME Idle PROVE UNCHANGED <<hold, execution, lane, launcher, worker, capability, budget>>
<1>1. ASSUME NEW at, NEW next, NEW then, ClaimStep(at, next, then)
      PROVE  UNCHANGED <<hold, execution, lane, launcher, worker, capability, budget>>
    BY <1>1 DEF ClaimStep, records, work
<1>2. CASE PostReceipt \/ Assign \/ SetState
    BY <1>1, <1>2 DEF PostReceipt, Assign, SetState
<1>3. CASE Observe \/ Plan \/ Preflight
    BY <1>3 DEF Observe, Plan, Preflight, records, work
<1>4. CASE ArchiveClaim \/ EvacuateClaim \/ PublishClaim \/ Wait
    BY <1>4 DEF ArchiveClaim, EvacuateClaim, PublishClaim, Wait, records, work
<1> QED
    BY <1>2, <1>3, <1>4 DEF Idle

\* Where the launches of a pass come from.
LEMMA Launching ==
    ASSUME AttemptsAssumption, TypeInv, Control \/ DispatchLineage
    PROVE  /\ UNCHANGED <<tracker, records, work, lane, budget>>
           /\ \/ UNCHANGED launcher
              \/ \E a \in Attempts, control \in Controls, generation \in Nat :
                    Launch(a, control, generation)
<1> USE DEF AttemptsAssumption, TypeInv, Types
<1>1. ASSUME NEW a, NEW control \in Controls, NEW generation \in Nat, Launch(a, control, generation)
      PROVE  \E b \in Attempts, c \in Controls, g \in Nat : Launch(b, c, g)
    BY <1>1 DEF Launch
<1>2. CASE Control
  <2>1. LeadControl \in Controls /\ restarts.request.generation \in Nat
      BY DEF LeadControl, Controls, RecordTypes, Policies, Events
  <2> QED
      BY <1>1, <1>2, <2>1 DEF Control
<1>3. CASE DispatchLineage
  <2>1. Want \in Attempts /\ worker[Want].record \in Nat
      BY <1>3 DEF DispatchLineage, At, Want, Chosen, Claiming, WorkTypes, Workers
  <2>2. <<"start", Want>> \in Controls /\ AutoControl \in Controls
      BY <2>1 DEF AutoControl, Controls, Attempts
  <2> QED
      BY <1>1, <1>3, <2>1, <2>2 DEF DispatchLineage
<1> QED
    BY <1>2, <1>3

LEMMA NextFence == AttemptsAssumption /\ TypeInv /\ FenceInv /\ [Next]_vars => FenceInv'
<1> SUFFICES ASSUME AttemptsAssumption, TypeInv, FenceInv, [Next]_vars PROVE FenceInv'
    OBVIOUS
<1>h. ASSUME UNCHANGED <<hold, lane, launcher, worker, capability>> PROVE FenceInv'
    BY <1>h, HoldKept DEF Held
<1>g. Gone.at = "off"
    BY DEF Gone
<1>1. CASE Idle
    BY <1>1, <1>h, IdleLeaves
<1>2. CASE Sync
  <2>1. CASE hold' = hold
      BY <1>2, <1>h, <2>1 DEF Sync, work
  <2>2. CASE hold' = [state |-> "blocked", generation |-> hold.generation + 1, fenced |-> FALSE]
      BY <1>2, <2>2, HoldKept DEF Sync, work
  <2>3. CASE /\ hold' = [hold EXCEPT !.state = Followed(pass.seen.status)]
             /\ ~(pass.seen.status = "blocked" /\ hold.state # "blocked")
    <3>1. Followed(pass.seen.status) \in HoldStates => Held
        BY <2>3 DEF Followed, Held, HoldStates
    <3>2. hold'.state = Followed(pass.seen.status) /\ hold'.fenced = hold.fenced
        BY <2>3 DEF TypeInv, Types, RecordTypes, Holds
    <3> QED
        BY <1>2, <3>1, <3>2, HoldKept DEF Sync, work, Held
  <2> QED
      BY <1>2, <2>1, <2>2, <2>3 DEF Sync
<1>3. CASE Clear
  <2>1. hold'.state = "resumed"
      BY <1>3 DEF Clear, TypeInv, Types, RecordTypes, Holds
  <2> QED
      BY <1>3, <2>1, HoldKept DEF Clear, work, Held, HoldStates
<1>4. CASE Stop
  <2>1. UNCHANGED <<lane, launcher>> /\ lane = 0
      BY <1>4 DEF Stop, LaneFree
  <2>2. \A l \in Launchers : launcher[l].at \notin {"check", "mint", "spawn"}
      BY <2>1 DEF FenceInv, InLane, AttemptsAssumption
  <2>3. capability' = 0 /\ \A a \in Attempts : ~worker'[a].alive
      BY <1>4 DEF Stop, TypeInv, Types, WorkTypes, Workers
  <2> QED
      BY <2>1, <2>2, <2>3 DEF FenceInv, InLane, Fence
<1>5. CASE Control \/ DispatchLineage
    BY <1>5, <1>h, Launching, LaunchKeepsFence DEF records, work
<1>6. CASE KillPass
    BY <1>6, <1>h DEF KillPass, records, work
<1>7. CASE Crash
  <2>1. \A l \in Launchers : launcher'[l].at = "off"
      BY <1>7, <1>g DEF Crash
  <2> QED
      BY <1>7, <2>1 DEF Crash, records, work, FenceInv, InLane, Fence, Held
<1>8. ASSUME NEW l \in Launchers, KillLauncher(l) PROVE FenceInv'
  <2>1. /\ Advances(l) /\ launcher'[l].at = "off"
        /\ UNCHANGED <<hold, worker, capability>>
      BY <1>8, <1>g, LeaveFacts DEF KillLauncher, records, work, Advances, TypeInv, Types
  <2> QED
      BY <2>1, LauncherFence DEF FenceInv, Fence
<1>9. ASSUME NEW a \in Attempts, Edit(a) \/ Submit(a) \/ Quit(a) \/ Die(a) PROVE FenceInv'
  <2>1. UNCHANGED <<hold, lane, launcher, capability>>
      BY <1>9 DEF Edit, Submit, Quit, Die, records
  <2>2. worker' = worker \/ worker' = [worker EXCEPT ![a].alive = FALSE]
      BY <1>9 DEF Edit, Submit, Quit, Die
  <2>3. \A b \in Attempts : worker'[b].alive => worker[b].alive
      BY <2>2 DEF TypeInv, Types, WorkTypes, Workers
  <2> QED
      BY <2>1, <2>3 DEF FenceInv, InLane, Fence, Held
<1>10. CASE People
  <2>1. UNCHANGED <<hold, lane, launcher, worker, capability>>
      BY <1>10 DEF People, Findings, Block, Unblock, UnblockEarly, TakeOver, HandBack,
                   Resolve, Ask, records, work
  <2> QED
      BY <1>h, <2>1
<1>11. CASE UNCHANGED vars
    BY <1>11, <1>h DEF vars, records, work
<1> QED
    BY <1>1, <1>2, <1>3, <1>4, <1>5, <1>6, <1>7, <1>8, <1>9, <1>10, <1>11, LauncherKeepsFence
       DEF Next, PassStep, Idle

------------------------------------------------------------------------------
(* The attempts no claim stands for. *)

Uncovered(last, receipts) == {a \in 1 .. last : a \notin receipts}

LEMMA UncoveredFinite ==
    ASSUME NEW last \in Nat, NEW receipts
    PROVE  /\ IsFiniteSet(Uncovered(last, receipts))
           /\ Cardinality(Uncovered(last, receipts)) \in Nat
<1>1. IsFiniteSet(1 .. last)
    BY FS_Interval
<1>2. Uncovered(last, receipts) \subseteq 1 .. last
    BY DEF Uncovered
<1> QED
    BY <1>1, <1>2, FS_Subset, FS_CardinalityType

\* A receipt covers, and none is taken back.
LEMMA UncoveredShrinks ==
    ASSUME NEW last \in Nat, NEW receipts, NEW more, receipts \subseteq more
    PROVE  Cardinality(Uncovered(last, more)) <= Cardinality(Uncovered(last, receipts))
<1>1. Uncovered(last, more) \subseteq Uncovered(last, receipts)
    BY DEF Uncovered
<1> QED
    BY <1>1, UncoveredFinite, FS_Subset

\* The next attempt adds one, unless it has its claim.
LEMMA UncoveredGrows ==
    ASSUME NEW last \in Nat, NEW receipts
    PROVE  /\ Cardinality(Uncovered(last + 1, receipts)) <= Cardinality(Uncovered(last, receipts)) + 1
           /\ last + 1 \in receipts => Uncovered(last + 1, receipts) = Uncovered(last, receipts)
<1>1. CASE last + 1 \in receipts
  <2>1. Uncovered(last + 1, receipts) = Uncovered(last, receipts)
      BY <1>1 DEF Uncovered
  <2> QED
      BY <2>1, UncoveredFinite
<1>2. CASE last + 1 \notin receipts
  <2>1. Uncovered(last + 1, receipts) = Uncovered(last, receipts) \union {last + 1}
      BY <1>2 DEF Uncovered
  <2>2. last + 1 \notin Uncovered(last, receipts)
      BY DEF Uncovered
  <2>3. Cardinality(Uncovered(last + 1, receipts)) = Cardinality(Uncovered(last, receipts)) + 1
      BY <2>1, <2>2, UncoveredFinite, FS_AddElement
  <2> QED
      BY <1>2, <2>3, UncoveredFinite
<1> QED
    BY <1>1, <1>2

------------------------------------------------------------------------------
(* The count of the restarts. *)

\* What a pass wants for the task, and the first claim.
Wanted ==
    /\ pass.plan = "recover" => pass.attempt <= execution.attempt
    /\ execution.attempt = 0 => claim \in {0, 1} /\ (At("local") => pass.attempt = 1)

\* The identity of a control: of an attempt that was executed, or of a request made.
Issued(control) ==
    /\ control[1] = "automatic" => control[2] <= execution.attempt
    /\ control[1] = "authorized" => control[2] >= budget.leads

Controlled ==
    /\ restarts.last[1][1] # "start" /\ Issued(restarts.last[1])
    /\ restarts.request.attempt <= execution.attempt
    /\ \A l \in Launchers :
         /\ Issued(launcher[l].control)
         /\ launcher[l].control[1] # "start" => launcher[l].attempt <= execution.attempt + 1
         /\ launcher[l].at = "admit" => launcher[l].control[1] \in {"automatic", "authorized"}

\* A restart that the policy has counted and that has made no attempt yet: its control
\* is the last one, and a replay of it, by the pass or on the lead's request, is the same.
Pending ==
    \/ restarts.last[1] = <<"automatic", execution.attempt>>
    \/ /\ restarts.request # NoRequest /\ restarts.last[1] = <<"authorized", budget.leads>>
       /\ restarts.request.attempt = execution.attempt
    \/ \E l \in Launchers : /\ launcher[l].control = restarts.last[1]
                            /\ launcher[l].attempt = execution.attempt + 1

Covered ==
    Cardinality(Uncovered(execution.attempt, tracker.receipts)) + (IF Pending THEN 1 ELSE 0)
        <= restarts.automatic + restarts.authorized

CountInv == Wanted /\ Controlled /\ Covered

\* The numbers of the records, for the steps below.
LEMMA Numbers ==
    ASSUME AttemptsAssumption, TypeInv
    PROVE  /\ execution.attempt \in Nat /\ claim \in Nat
           /\ restarts.automatic \in Nat /\ restarts.authorized \in Nat
           /\ restarts.request.attempt \in Nat
           /\ restarts.last[1] \in Controls
           /\ budget.leads \in Nat
           /\ pass.attempt \in Nat
           /\ \A l \in Launchers : launcher[l].attempt \in Nat /\ launcher[l].control \in Controls
<1> USE DEF AttemptsAssumption, TypeInv, Types
<1>1. execution.attempt \in Nat /\ claim \in Nat /\ budget.leads \in Nat
    BY DEF RecordTypes, Executions, Claims, Events
<1>2. /\ restarts.automatic \in Nat /\ restarts.authorized \in Nat
      /\ restarts.request.attempt \in Nat /\ restarts.last[1] \in Controls
    BY DEF RecordTypes, Policies
<1>3. pass.attempt \in Nat
    BY DEF ProcessTypes, Passes
<1>4. \A l \in Launchers : launcher[l].attempt \in Nat /\ launcher[l].control \in Controls
    BY DEF ProcessTypes, Commands
<1> QED
    BY <1>1, <1>2, <1>3, <1>4

\* What the count does not see: launchers that move or end, receipts, a request answered.
Steady ==
    /\ execution'.attempt = execution.attempt /\ budget'.leads = budget.leads
    /\ tracker.receipts \subseteq tracker'.receipts
    /\ restarts'.last = restarts.last
    /\ restarts'.automatic = restarts.automatic /\ restarts'.authorized = restarts.authorized
    /\ restarts'.request \in {restarts.request, NoRequest}
    /\ \A l \in Launchers :
         \/ launcher'[l] = Gone
         \/ /\ launcher'[l].attempt = launcher[l].attempt
            /\ launcher'[l].control = launcher[l].control
            /\ launcher'[l].at = "admit" => launcher[l].at = "admit"

LEMMA SteadyKeeps ==
    ASSUME AttemptsAssumption, TypeInv, Controlled, Covered, Steady
    PROVE  Controlled' /\ Covered'
<1> USE Numbers
<1>g. Gone.at = "off" /\ Gone.attempt = 0 /\ Gone.control = <<"task", 0>>
    BY DEF Gone, TaskBranch
<1>1. Controlled'
  <2>1. /\ restarts'.last[1][1] # "start" /\ Issued(restarts.last[1])'
        /\ restarts'.request.attempt <= execution'.attempt
      BY DEF Controlled, Steady, Issued, NoRequest
  <2>2. ASSUME NEW l \in Launchers
        PROVE  /\ Issued(launcher[l].control)'
               /\ launcher'[l].control[1] # "start" => launcher'[l].attempt <= execution'.attempt + 1
               /\ launcher'[l].at = "admit" => launcher'[l].control[1] \in {"automatic", "authorized"}
    <3>1. CASE launcher'[l] = Gone
        BY <1>g, <3>1 DEF Steady, Issued
    <3>2. CASE /\ launcher'[l].attempt = launcher[l].attempt
               /\ launcher'[l].control = launcher[l].control
               /\ launcher'[l].at = "admit" => launcher[l].at = "admit"
        BY <3>2 DEF Controlled, Steady, Issued
    <3> QED
        BY <3>1, <3>2 DEF Steady
  <2> QED
      BY <2>1, <2>2 DEF Controlled
<1>2. Pending' => Pending
  <2>1. ASSUME NEW l \in Launchers, launcher'[l].control = restarts'.last[1],
               launcher'[l].attempt = execution'.attempt + 1
        PROVE  launcher[l].control = restarts.last[1] /\ launcher[l].attempt = execution.attempt + 1
      BY <1>g, <2>1 DEF Steady
  <2> QED
      BY <2>1 DEF Pending, Steady
<1>3. Cardinality(Uncovered(execution.attempt, tracker'.receipts))
        <= Cardinality(Uncovered(execution.attempt, tracker.receipts))
    BY UncoveredShrinks DEF Steady
<1>4. /\ Cardinality(Uncovered(execution.attempt, tracker'.receipts)) \in Nat
      /\ Cardinality(Uncovered(execution.attempt, tracker.receipts)) \in Nat
    BY UncoveredFinite
<1>5. Covered'
    BY <1>2, <1>3, <1>4 DEF Covered, Steady
<1> QED
    BY <1>1, <1>5

\* A launch under a control whose replay is as pending as the restart itself.
LEMMA LaunchKeepsCount ==
    ASSUME AttemptsAssumption, TypeInv, Controlled, Covered,
           NEW a, NEW control \in Controls, NEW generation \in Nat,
           Launch(a, control, generation),
           UNCHANGED <<execution, budget, tracker>>,
           restarts'.last = restarts.last, restarts'.request = restarts.request,
           restarts'.automatic = restarts.automatic, restarts'.authorized = restarts.authorized,
           Issued(control), control[1] # "task",
           control[1] # "start" => a <= execution.attempt + 1,
           control = restarts.last[1] /\ a = execution.attempt + 1 => Pending
    PROVE  Controlled' /\ Covered'
<1> USE Numbers
<1>0. ProcessTypes
    BY DEF TypeInv, Types
<1>p. PICK l \in Launchers : Starts(l, a, control, generation)
    BY <1>0, LaunchFacts
<1>1. /\ \A k \in Launchers \ {l} : launcher'[k] = launcher[k]
      /\ launcher'[l].at = IF control[1] = "start" THEN "begin" ELSE "admit"
      /\ launcher'[l].attempt = a /\ launcher'[l].control = control
    BY <1>p DEF Starts
<1>2. Controlled'
  <2>1. /\ restarts'.last[1][1] # "start" /\ Issued(restarts.last[1])'
        /\ restarts'.request.attempt <= execution'.attempt
      BY DEF Controlled, Issued
  <2>2. ASSUME NEW k \in Launchers
        PROVE  /\ Issued(launcher[k].control)'
               /\ launcher'[k].control[1] # "start" => launcher'[k].attempt <= execution'.attempt + 1
               /\ launcher'[k].at = "admit" => launcher'[k].control[1] \in {"automatic", "authorized"}
    <3>1. CASE k = l
        BY <1>1, <3>1 DEF Issued, Controls
    <3>2. CASE k # l
        BY <1>1, <3>2 DEF Controlled, Issued
    <3> QED
        BY <3>1, <3>2
  <2> QED
      BY <2>1, <2>2 DEF Controlled
<1>3. Pending' => Pending
  <2>1. ASSUME NEW k \in Launchers, launcher'[k].control = restarts'.last[1],
               launcher'[k].attempt = execution'.attempt + 1
        PROVE  Pending
    <3>1. CASE k = l
        BY <1>1, <2>1, <3>1
    <3>2. CASE k # l
        BY <1>1, <2>1, <3>2 DEF Pending
    <3> QED
        BY <3>1, <3>2
  <2> QED
      BY <2>1 DEF Pending
<1>4. Covered'
    BY <1>3, UncoveredFinite DEF Covered
<1> QED
    BY <1>2, <1>4

LEMMA WantedKept ==
    ASSUME AttemptsAssumption, TypeInv, Wanted, execution'.attempt \in Nat,
           execution'.attempt >= execution.attempt, UNCHANGED <<claim, pass>>
    PROVE  Wanted'
    BY Numbers DEF Wanted, At

LEMMA WantedByPass ==
    ASSUME AttemptsAssumption, TypeInv, Wanted, PassStep
    PROVE  Wanted'
<1> USE Numbers DEF TypeInv, Types, ProcessTypes
<1>r. ASSUME PassEnds PROVE pass'.plan = "none" /\ pass'.at = "idle"
    BY <1>r DEF PassEnds, Resting
<1>g. ASSUME NEW at \in Places, Goto(at)
      PROVE  pass'.at = at /\ pass'.plan = pass.plan /\ pass'.attempt = pass.attempt
    BY <1>g, GotoFacts
<1>f. ASSUME NEW at \in Places, Refused(at)
      PROVE  \/ pass'.at = "idle" /\ pass'.plan = "none"
             \/ pass'.at = at /\ pass'.plan = pass.plan /\ pass'.attempt = pass.attempt
    BY <1>f, RefusedFacts
\* The plan stays or goes, the local claim is not next, the claim stays or goes.
<1>k. ASSUME execution' = execution, claim' \in {0, claim}, pass'.at # "local",
             \/ pass'.plan = "none"
             \/ pass'.plan = pass.plan /\ pass'.attempt = pass.attempt
      PROVE  Wanted'
    BY <1>k DEF Wanted, At
<1>c. ASSUME NEW at, NEW next, NEW then \in Places \ {"local"}, ClaimStep(at, next, then) PROVE Wanted'
  <2>1. UNCHANGED <<execution, claim>> /\ (Goto(then) \/ Refused("lineage"))
      BY <1>c DEF ClaimStep, records
  <2>2. /\ pass'.at # "local"
        /\ pass'.plan = "none" \/ (pass'.plan = pass.plan /\ pass'.attempt = pass.attempt)
      BY <2>1, <1>f, <1>g DEF Places
  <2> QED
      BY <1>k, <2>1, <2>2
<1>l. ASSUME NEW a, NEW control \in Controls, NEW generation \in Nat, Launch(a, control, generation)
      PROVE  pass'.at = "wait" /\ pass'.plan = pass.plan /\ pass'.attempt = pass.attempt
    BY <1>l, LaunchFacts
<1>1. CASE Observe
  <2>1. pass'.plan = "none" /\ pass'.at = "sync"
      BY <1>1 DEF Observe, Resting
  <2> QED
      BY <1>1, <1>k, <2>1 DEF Observe, records
<1>2. CASE Sync
  <2>1. pass'.at # "local" /\ pass'.plan = pass.plan /\ pass'.attempt = pass.attempt
      BY <1>2, <1>g DEF Sync, Places
  <2>2. claim' \in {0, claim}
      BY <1>2 DEF Sync
  <2> QED
      BY <1>2, <1>k, <2>1, <2>2 DEF Sync
<1>3. CASE Clear \/ Stop
  <2>1. pass'.at # "local" /\ pass'.plan = pass.plan /\ pass'.attempt = pass.attempt
      BY <1>3, <1>g DEF Clear, Stop, Places
  <2> QED
      BY <1>3, <1>k, <2>1 DEF Clear, Stop
<1>4. CASE Control
  <2>1. LeadControl \in Controls /\ restarts.request.generation \in Nat
      BY DEF LeadControl, Controls, RecordTypes, Policies
  <2>2. pass'.at # "local" /\ pass'.plan = pass.plan /\ pass'.attempt = pass.attempt
    <3>1. CASE Goto("plan")
        BY <1>g, <3>1 DEF Places
    <3>2. CASE Launch(restarts.request.attempt + 1, LeadControl, restarts.request.generation)
        BY <2>1, <3>2, LaunchFacts
    <3> QED
        BY <1>4, <3>1, <3>2 DEF Control
  <2> QED
      BY <1>4, <1>k, <2>2 DEF Control, records
<1>5. CASE Plan
  <2>1. UNCHANGED records
      BY <1>5 DEF Plan
  <2>2. CASE PassEnds
      BY <1>k, <1>r, <2>1, <2>2 DEF records
  <2>3. ASSUME NEW a \in Attempts, NEW act \in {"claim", "launch", "recover"}, Planned(act, a),
               pass' = [pass EXCEPT !.plan = act, !.attempt = a,
                          !.at = IF act = "claim" THEN "preflight" ELSE "lineage"]
        PROVE  Wanted'
    <3>1. pass'.plan = act /\ pass'.attempt = a /\ pass'.at # "local"
        BY <2>3 DEF Passes
    <3>2. act = "recover" => a = execution.attempt
        BY <2>3 DEF Planned
    <3> QED
        BY <2>1, <3>1, <3>2 DEF Wanted, At, records
  <2> QED
      BY <1>5, <2>2, <2>3 DEF Plan
<1>6. CASE Preflight
  <2>1. UNCHANGED <<claim, execution>>
      BY <1>6 DEF Preflight, records
  <2>2. \/ pass'.at = "idle" /\ pass'.plan = "none"
        \/ /\ pass'.at = "local" /\ pass'.plan = pass.plan /\ pass'.attempt = pass.attempt
           /\ execution.attempt = 0 => pass.attempt = 1
      BY <1>6, <1>f, <1>g, <1>r DEF Preflight, Want, Places
  <2> QED
      BY <2>1, <2>2 DEF Wanted, At
<1>7. CASE ArchiveClaim \/ EvacuateClaim
  <2>1. UNCHANGED execution /\ claim' \in {0, claim} /\ pass.at = "local"
      BY <1>7 DEF ArchiveClaim, EvacuateClaim, At
  <2>2. UNCHANGED pass \/ Refused("receipt")
      BY <1>7 DEF ArchiveClaim, EvacuateClaim
  <2>3. CASE UNCHANGED pass
      BY <2>1, <2>3 DEF Wanted, At
  <2>4. CASE Refused("receipt")
      BY <1>f, <1>k, <2>1, <2>4 DEF Places
  <2> QED
      BY <2>2, <2>3, <2>4
<1>9. CASE PublishClaim
  <2>1. UNCHANGED execution /\ claim' \in {claim, Want} /\ pass.at = "local"
      BY <1>9 DEF PublishClaim, At
  <2>2. /\ pass'.at # "local"
        /\ pass'.plan = "none" \/ (pass'.plan = pass.plan /\ pass'.attempt = pass.attempt)
      BY <1>9, <1>f, <1>g DEF PublishClaim, Places
  <2> QED
      BY <2>1, <2>2 DEF Wanted, At, Want
<1>10. CASE PostReceipt \/ Assign \/ SetState
    BY <1>10, <1>c DEF PostReceipt, Assign, SetState, Places
<1>11. CASE DispatchLineage
  <2>1. Want \in Attempts /\ worker[Want].record \in Nat
      BY <1>11 DEF DispatchLineage, At, Want, Chosen, Claiming, WorkTypes, Workers
  <2>2. <<"start", Want>> \in Controls /\ AutoControl \in Controls
      BY <2>1 DEF AutoControl, Controls, Attempts
  <2>3. CASE PassEnds
      BY <1>11, <1>k, <1>r, <2>3 DEF DispatchLineage, records
  <2>4. CASE Launch(Want, <<"start", Want>>, 0) \/ Launch(Want + 1, AutoControl, worker[Want].record)
    <3>1. pass'.at = "wait" /\ pass'.plan = pass.plan /\ pass'.attempt = pass.attempt
        BY <1>l, <2>1, <2>2, <2>4
    <3> QED
        BY <1>11, <1>k, <3>1 DEF DispatchLineage, records
  <2> QED
      BY <1>11, <2>3, <2>4 DEF DispatchLineage
<1>12. CASE Wait
  <2>1. pass'.plan = "none" /\ pass'.at # "local"
    <3>1. CASE PassEnds
        BY <1>r, <3>1
    <3>2. CASE /\ pass.plan = "none"
               /\ \E seen \in {pass.seen, tracker} : pass' = [pass EXCEPT !.seen = seen, !.at = "plan"]
        BY <3>2 DEF Passes
    <3> QED
        BY <1>12, <3>1, <3>2 DEF Wait
  <2> QED
      BY <1>12, <1>k, <2>1 DEF Wait, records
<1> QED
    BY <1>1, <1>2, <1>3, <1>4, <1>5, <1>6, <1>7, <1>9, <1>10, <1>11, <1>12 DEF PassStep

\* The packet is where an attempt begins: under the claim of its own, which covers it, or
\* by a restart that is pending, which it uses up.
LEMMA PacketCounts ==
    ASSUME AttemptsAssumption, TypeInv, CountInv, NEW l \in Launchers, Packet(l)
    PROVE  CountInv'
<1> USE Numbers
<1>a. Advances(l)
    BY LauncherSteps DEF LauncherStep
<1>b. UNCHANGED <<tracker, claim, restarts, pass, budget>>
    BY DEF Packet, work
<1>c. \A k \in Launchers :
         \/ launcher'[k] = Gone
         \/ /\ launcher'[k].attempt = launcher[k].attempt
            /\ launcher'[k].control = launcher[k].control
            /\ launcher'[k].at = "admit" => launcher[k].at = "admit"
    BY <1>a DEF Advances
<1> DEFINE ok == LineageOk(New(l), Restart(l)) /\ (Restart(l) => Granted(l) /\ Prepared(l))
<1>1. CASE execution'.attempt = execution.attempt
  <2>1. Steady
      BY <1>1, <1>b, <1>c DEF Steady
  <2> QED
      BY <1>1, <1>b, <2>1, SteadyKeeps, WantedKept DEF CountInv
<1>2. CASE ok /\ New(l) # execution.attempt
  <2>1. execution'.attempt = New(l)
      BY <1>2 DEF Packet
  <2>2. claim # 0 /\ claim \in tracker.receipts
      BY <1>2 DEF LineageOk
  <2>3. New(l) = execution.attempt + 1
    <3>1. CASE execution.attempt = 0
        BY <1>2, <2>2, <3>1 DEF LineageOk, CountInv, Wanted
    <3>2. CASE execution.attempt # 0
        BY <1>2, <3>2 DEF LineageOk
    <3> QED
        BY <3>1, <3>2
  <2>4. execution'.attempt = execution.attempt + 1
      BY <2>1, <2>3
\* Nothing is pending beyond the attempt that begins.
  <2>5. ~Pending'
    <3>1. restarts.last[1] # <<"automatic", execution.attempt + 1>>
        BY DEF CountInv, Controlled, Issued
    <3>2. restarts.request.attempt # execution.attempt + 1
        BY DEF CountInv, Controlled
    <3>3. ASSUME NEW k \in Launchers, launcher'[k].control = restarts.last[1],
                 launcher'[k].attempt = execution.attempt + 2
          PROVE  FALSE
      <4>1. launcher'[k] # Gone
          BY <3>3 DEF Gone
      <4>2. launcher[k].control = restarts.last[1] /\ launcher[k].attempt = execution.attempt + 2
          BY <1>c, <3>3, <4>1
      <4> QED
          BY <4>2 DEF CountInv, Controlled
    <3> QED
        BY <1>b, <2>4, <3>1, <3>2, <3>3 DEF Pending
  <2>6. Wanted'
      BY <1>b, <2>4, WantedKept DEF CountInv
  <2>7. Controlled'
    <3>1. /\ restarts'.last[1][1] # "start" /\ Issued(restarts.last[1])'
          /\ restarts'.request.attempt <= execution'.attempt
        BY <1>b, <2>4 DEF CountInv, Controlled, Issued, Controls
    <3>2. ASSUME NEW k \in Launchers
          PROVE  /\ Issued(launcher[k].control)'
                 /\ launcher'[k].control[1] # "start" => launcher'[k].attempt <= execution'.attempt + 1
                 /\ launcher'[k].at = "admit" => launcher'[k].control[1] \in {"automatic", "authorized"}
      <4>1. CASE launcher'[k] = Gone
          BY <2>4, <4>1 DEF Gone, TaskBranch, Issued
      <4>2. CASE /\ launcher'[k].attempt = launcher[k].attempt
                 /\ launcher'[k].control = launcher[k].control
                 /\ launcher'[k].at = "admit" => launcher[k].at = "admit"
          BY <1>b, <2>4, <4>2 DEF CountInv, Controlled, Issued, Controls
      <4> QED
          BY <1>c, <4>1, <4>2
    <3> QED
        BY <3>1, <3>2 DEF Controlled
  <2>8. Covered'
    <3>1. CASE New(l) \in tracker.receipts
      <4>1. Uncovered(execution'.attempt, tracker'.receipts)
              = Uncovered(execution.attempt, tracker.receipts)
          BY <1>b, <2>3, <2>4, <3>1, UncoveredGrows
      <4> QED
          BY <1>b, <2>5, <4>1, UncoveredFinite DEF CountInv, Covered
    <3>2. CASE New(l) \notin tracker.receipts
      <4>1. claim # New(l)
          BY <2>2, <3>2
      <4>2. Restart(l)
          BY <1>2, <2>3, <4>1 DEF LineageOk
      <4>3. launcher[l].control = restarts.last[1]
          BY <1>2, <4>2 DEF Prepared
      <4>4. Pending
          BY <2>3, <4>3 DEF Pending, New
      <4>5. Cardinality(Uncovered(execution'.attempt, tracker'.receipts))
              <= Cardinality(Uncovered(execution.attempt, tracker.receipts)) + 1
          BY <1>b, <2>4, UncoveredGrows
      <4>6. /\ Cardinality(Uncovered(execution'.attempt, tracker'.receipts)) \in Nat
            /\ Cardinality(Uncovered(execution.attempt, tracker.receipts)) \in Nat
          BY <2>4, UncoveredFinite
      <4> QED
          BY <1>b, <2>5, <4>4, <4>5, <4>6 DEF CountInv, Covered
    <3> QED
        BY <3>1, <3>2
  <2> QED
      BY <2>6, <2>7, <2>8 DEF CountInv
<1> QED
    BY <1>1, <1>2 DEF Packet

\* The policy counts a control that is not the last one, and only then.
LEMMA AdmitCounts ==
    ASSUME AttemptsAssumption, TypeInv, CountInv, NEW l \in Launchers, Admit(l)
    PROVE  CountInv'
<1> USE Numbers
<1>a. Advances(l)
    BY LauncherSteps DEF LauncherStep
<1>b. UNCHANGED <<tracker, claim, execution, pass, budget>>
    BY DEF Admit, records
<1>c. \A k \in Launchers :
         \/ launcher'[k] = Gone
         \/ /\ launcher'[k].attempt = launcher[k].attempt
            /\ launcher'[k].control = launcher[k].control
            /\ launcher'[k].at = "admit" => launcher[k].at = "admit"
    BY <1>a DEF Advances
<1>w. Wanted'
    BY <1>b, WantedKept DEF CountInv
<1>1. CASE UNCHANGED restarts
  <2>1. Steady
      BY <1>1, <1>b, <1>c DEF Steady
  <2> QED
      BY <1>w, <2>1, SteadyKeeps DEF CountInv
<1>2. CASE Authorize(l)
  <2>1. launcher[l].control[1] \in {"automatic", "authorized"}
      BY DEF Admit, In, CountInv, Controlled
  <2>2. /\ restarts'.last[1] = launcher[l].control
        /\ restarts'.request = restarts.request
        /\ restarts'.automatic + restarts'.authorized = restarts.automatic + restarts.authorized + 1
      BY <1>2, <2>1 DEF Authorize, TypeInv, Types, RecordTypes, Policies
  <2>3. /\ restarts'.automatic \in Nat /\ restarts'.authorized \in Nat
      BY <1>2 DEF Authorize, TypeInv, Types, RecordTypes, Policies
  <2>4. Controlled'
    <3>1. /\ restarts'.last[1][1] # "start" /\ Issued(restarts.last[1])'
          /\ restarts'.request.attempt <= execution'.attempt
        BY <1>b, <2>1, <2>2 DEF CountInv, Controlled, Issued
    <3>2. ASSUME NEW k \in Launchers
          PROVE  /\ Issued(launcher[k].control)'
                 /\ launcher'[k].control[1] # "start" => launcher'[k].attempt <= execution'.attempt + 1
                 /\ launcher'[k].at = "admit" => launcher'[k].control[1] \in {"automatic", "authorized"}
      <4>1. CASE launcher'[k] = Gone
          BY <1>b, <4>1 DEF Gone, TaskBranch, Issued
      <4>2. CASE /\ launcher'[k].attempt = launcher[k].attempt
                 /\ launcher'[k].control = launcher[k].control
                 /\ launcher'[k].at = "admit" => launcher[k].at = "admit"
          BY <1>b, <4>2 DEF CountInv, Controlled, Issued
      <4> QED
          BY <1>c, <4>1, <4>2
    <3> QED
        BY <3>1, <3>2 DEF Controlled
  <2>5. Covered'
      BY <1>b, <2>2, <2>3, UncoveredFinite DEF CountInv, Covered
  <2> QED
      BY <1>w, <2>4, <2>5 DEF CountInv
<1> QED
    BY <1>1, <1>2 DEF Admit

LEMMA LauncherCounts ==
    ASSUME AttemptsAssumption, TypeInv, CountInv, NEW l \in Launchers, LauncherStep(l)
    PROVE  CountInv'
<1> USE Numbers
<1>a. Advances(l)
    BY LauncherSteps
<1>1. CASE Admit(l)
    BY <1>1, AdmitCounts
<1>2. CASE Packet(l)
    BY <1>2, PacketCounts
<1>3. ASSUME UNCHANGED <<tracker, records, restarts, pass, budget>> PROVE CountInv'
  <2>1. Steady
      BY <1>3, <1>a DEF Steady, Advances, records
  <2> QED
      BY <1>3, <2>1, SteadyKeeps, WantedKept DEF CountInv, records
<1>4. CASE Revoke(l) \/ Halt(l) \/ Begin(l) \/ Inspect(l) \/ MakeTree(l)
    BY <1>3, <1>4 DEF Revoke, Halt, Begin, Inspect, MakeTree, records, work
<1>5. CASE Remove(l) \/ Switch(l) \/ Prepare(l) \/ MoveTree(l) \/ Finalize(l)
    BY <1>3, <1>5 DEF Remove, Switch, Prepare, MoveTree, Finalize, Retire, records
<1>6. CASE TakeLane(l) \/ Check(l) \/ Mint(l) \/ Spawn(l)
    BY <1>3, <1>6 DEF TakeLane, Check, Mint, Spawn, records, work
<1> QED
    BY <1>1, <1>2, <1>4, <1>5, <1>6 DEF LauncherStep

\* A pass launches a restart for the attempt at hand, or for the lead's request: under a
\* control that is already pending, or that is not the last one.
LEMMA PassCounts ==
    ASSUME AttemptsAssumption, TypeInv, CountInv, PassStep
    PROVE  CountInv'
<1> USE Numbers
<1>w. Wanted'
    BY WantedByPass DEF CountInv
<1>s. ASSUME UNCHANGED <<execution, launcher, budget>>, tracker.receipts \subseteq tracker'.receipts,
             restarts' \in {restarts, [restarts EXCEPT !.request = NoRequest]}
      PROVE  CountInv'
  <2>1. /\ restarts'.last = restarts.last
        /\ restarts'.automatic = restarts.automatic /\ restarts'.authorized = restarts.authorized
        /\ restarts'.request \in {restarts.request, NoRequest}
      BY <1>s DEF TypeInv, Types, RecordTypes, Policies
  <2>2. \A l \in Launchers : launcher'[l] = launcher[l]
      BY <1>s
  <2>3. execution'.attempt = execution.attempt /\ budget'.leads = budget.leads
      BY <1>s
  <2>4. Steady
      BY <1>s, <2>1, <2>2, <2>3 DEF Steady
  <2> QED
      BY <1>w, <2>4, SteadyKeeps DEF CountInv
<1>1. CASE Observe \/ Plan \/ Preflight \/ ArchiveClaim \/ EvacuateClaim \/ PublishClaim
    BY <1>1, <1>s DEF Observe, Plan, Preflight, ArchiveClaim, EvacuateClaim, PublishClaim, records
<1>2. CASE Sync \/ Clear \/ Stop
    BY <1>2, <1>s DEF Sync, Clear, Stop
<1>3. CASE PostReceipt \/ Assign \/ SetState
  <2>1. UNCHANGED <<execution, launcher, budget, restarts>>
      BY <1>3 DEF PostReceipt, Assign, SetState, ClaimStep, records
  <2>2. tracker.receipts \subseteq tracker'.receipts
      BY <1>3 DEF PostReceipt, Assign, SetState, ClaimStep, TypeInv, Types, RecordTypes, Trackers
  <2> QED
      BY <1>s, <2>1, <2>2
<1>4. CASE Wait
    BY <1>4, <1>s DEF Wait, records
<1>5. ASSUME NEW a, NEW control \in Controls, NEW generation \in Nat, Launch(a, control, generation),
             UNCHANGED <<execution, tracker, budget>>,
             restarts'.last = restarts.last, restarts'.request = restarts.request,
             restarts'.automatic = restarts.automatic,
             restarts'.authorized = restarts.authorized,
             Issued(control), control[1] # "task",
             control[1] # "start" => a <= execution.attempt + 1,
             control = restarts.last[1] /\ a = execution.attempt + 1 => Pending
      PROVE  CountInv'
    BY <1>5, <1>w, LaunchKeepsCount DEF CountInv
<1>6. CASE Control
  <2>1. UNCHANGED <<execution, tracker, budget>>
      BY <1>6 DEF Control, records
  <2>2. CASE UNCHANGED <<launcher, restarts>>
      BY <1>s, <2>1, <2>2
  <2>3. CASE /\ restarts.request # NoRequest
             /\ Launch(restarts.request.attempt + 1, LeadControl, restarts.request.generation)
             /\ restarts' = [restarts EXCEPT
                  !.grants = @ \union {<<LeadControl, restarts.request.generation>>}]
    <3>1. LeadControl = <<"authorized", budget.leads>> /\ LeadControl \in Controls
        BY DEF LeadControl, Controls
    <3>2. /\ restarts'.last = restarts.last /\ restarts'.request = restarts.request
          /\ restarts'.automatic = restarts.automatic /\ restarts'.authorized = restarts.authorized
          /\ restarts.request.generation \in Nat
        BY <2>3 DEF TypeInv, Types, RecordTypes, Policies
    <3>3. Issued(LeadControl)
        BY <3>1 DEF Issued
    <3>4. restarts.request.attempt + 1 <= execution.attempt + 1
        BY DEF CountInv, Controlled
    <3>5. ASSUME LeadControl = restarts.last[1], restarts.request.attempt + 1 = execution.attempt + 1
          PROVE  Pending
        BY <2>3, <3>1, <3>5 DEF Pending
    <3> QED
        BY <1>5, <2>1, <2>3, <3>1, <3>2, <3>3, <3>4, <3>5
  <2> QED
      BY <1>6, <2>2, <2>3 DEF Control
<1>7. CASE DispatchLineage
  <2>1. UNCHANGED <<execution, tracker, budget>>
      BY <1>7 DEF DispatchLineage, records
  <2>2. CASE UNCHANGED <<launcher, restarts>>
      BY <1>s, <2>1, <2>2
  <2>3. Want \in Attempts /\ Want \in Nat /\ worker[Want].record \in Nat
      BY <1>7 DEF DispatchLineage, At, Want, Chosen, Claiming, TypeInv, Types, WorkTypes, Workers, Attempts
  <2>4. CASE Launch(Want, <<"start", Want>>, 0) /\ UNCHANGED restarts
    <3>1. <<"start", Want>> \in Controls
        BY <2>3 DEF Controls
    <3>2. Issued(<<"start", Want>>)
        BY DEF Issued
    <3>3. <<"start", Want>> # restarts.last[1]
        BY DEF CountInv, Controlled
    <3> QED
        BY <1>5, <2>1, <2>4, <3>1, <3>2, <3>3
  <2>5. CASE /\ pass.plan = "recover"
             /\ Launch(Want + 1, AutoControl, worker[Want].record)
             /\ restarts' = [restarts EXCEPT
                  !.grants = @ \union {<<AutoControl, worker[Want].record>>}]
    <3>1. AutoControl = <<"automatic", Want>> /\ AutoControl \in Controls
        BY <2>3 DEF AutoControl, Controls
    <3>2. /\ restarts'.last = restarts.last /\ restarts'.request = restarts.request
          /\ restarts'.automatic = restarts.automatic /\ restarts'.authorized = restarts.authorized
        BY <2>5 DEF TypeInv, Types, RecordTypes, Policies
    <3>3. Want <= execution.attempt
        BY <2>5 DEF CountInv, Wanted, Want
    <3>4. Issued(AutoControl)
        BY <3>1, <3>3 DEF Issued
    <3>5. ASSUME AutoControl = restarts.last[1], Want + 1 = execution.attempt + 1 PROVE Pending
        BY <2>3, <3>1, <3>5 DEF Pending
    <3>6. AutoControl[1] # "task" /\ Want + 1 <= execution.attempt + 1
        BY <2>3, <3>1, <3>3
    <3> QED
        BY <1>5, <2>1, <2>3, <2>5, <3>1, <3>2, <3>4, <3>5, <3>6
  <2> QED
      BY <1>7, <2>2, <2>4, <2>5 DEF DispatchLineage
<1> QED
    BY <1>1, <1>2, <1>3, <1>4, <1>6, <1>7 DEF PassStep

\* The lead's identities count down, so that a new request repeats none.
LEMMA AskCounts ==
    ASSUME AttemptsAssumption, TypeInv, CountInv, Ask
    PROVE  CountInv'
<1> USE Numbers
<1>1. /\ budget'.leads = budget.leads - 1
      /\ UNCHANGED <<tracker, execution, claim, pass, launcher>>
    BY DEF Ask, Spend, TypeInv, Types, RecordTypes, Events, records
<1>2. /\ restarts'.last = restarts.last
      /\ restarts'.automatic = restarts.automatic /\ restarts'.authorized = restarts.authorized
      /\ restarts'.request.attempt = execution.attempt
    BY DEF Ask, TypeInv, Types, RecordTypes, Policies
<1>3. Wanted'
    BY <1>1, WantedKept DEF CountInv
<1>4. Controlled'
    BY <1>1, <1>2 DEF CountInv, Controlled, Issued, Controls
<1>5. Pending' => Pending
  <2>1. restarts.last[1] # <<"authorized", budget'.leads>>
      BY <1>1 DEF CountInv, Controlled, Issued, Controls
  <2> QED
      BY <1>1, <1>2, <2>1 DEF Pending
<1>6. Covered'
    BY <1>1, <1>2, <1>5, UncoveredFinite DEF CountInv, Covered
<1> QED
    BY <1>3, <1>4, <1>6 DEF CountInv

LEMMA OtherCounts ==
    ASSUME AttemptsAssumption, TypeInv, CountInv,
           \/ KillPass \/ Crash
           \/ \E l \in Launchers : KillLauncher(l)
           \/ \E a \in Attempts : Edit(a) \/ Submit(a) \/ Quit(a) \/ Die(a)
           \/ People \/ UNCHANGED vars
    PROVE  CountInv'
<1> USE Numbers
<1>g. Gone.at = "off"
    BY DEF Gone
<1>b. ASSUME NEW event \in Events \ {"leads"}, Spend(event) PROVE budget'.leads = budget.leads
    BY <1>b, SpendFacts DEF TypeInv, Types, RecordTypes, Events
<1>s. ASSUME UNCHANGED <<claim, execution, restarts>>, tracker.receipts \subseteq tracker'.receipts,
             budget'.leads = budget.leads, pass' = pass \/ PassEnds,
             \A l \in Launchers : launcher'[l] \in {launcher[l], Gone}
      PROVE  CountInv'
  <2>1. Steady
      BY <1>s DEF Steady
  <2>2. Wanted'
      BY <1>s DEF CountInv, Wanted, At, PassEnds, Resting
  <2> QED
      BY <2>1, <2>2, SteadyKeeps DEF CountInv
<1>1. CASE KillPass
  <2>1. budget'.leads = budget.leads
      BY <1>1, <1>b DEF KillPass, Events
  <2> QED
      BY <1>1, <1>s, <2>1 DEF KillPass, records
<1>2. CASE Crash
  <2>1. budget'.leads = budget.leads
      BY <1>2, <1>b DEF Crash, Events
  <2>2. \A l \in Launchers : launcher'[l] = Gone
      BY <1>2 DEF Crash
  <2> QED
      BY <1>2, <1>s, <2>1, <2>2 DEF Crash, records
<1>3. ASSUME NEW l \in Launchers, KillLauncher(l) PROVE CountInv'
  <2>1. budget'.leads = budget.leads
      BY <1>3, <1>b DEF KillLauncher, Events
  <2>2. \A k \in Launchers : launcher'[k] \in {launcher[k], Gone}
      BY <1>3, LeaveFacts DEF KillLauncher, TypeInv, Types
  <2> QED
      BY <1>3, <1>s, <2>1, <2>2 DEF KillLauncher, records
<1>4. ASSUME NEW a \in Attempts, Edit(a) \/ Submit(a) \/ Quit(a) \/ Die(a) PROVE CountInv'
  <2>1. budget'.leads = budget.leads
    <3>1. CASE Edit(a)
        BY <3>1 DEF Edit, TypeInv, Types, RecordTypes, Events
    <3>2. CASE Die(a)
        BY <1>b, <3>2 DEF Die, Events
    <3>3. CASE Submit(a) \/ Quit(a)
        BY <3>3 DEF Submit, Quit
    <3> QED
        BY <1>4, <3>1, <3>2, <3>3
  <2>2. tracker'.receipts = tracker.receipts
      BY <1>4 DEF Edit, Submit, Quit, Die, TypeInv, Types, RecordTypes, Trackers
  <2>3. UNCHANGED <<claim, execution, restarts, pass, launcher>>
      BY <1>4 DEF Edit, Submit, Quit, Die, records
  <2> QED
      BY <1>s, <2>1, <2>2, <2>3
<1>5. CASE People /\ ~Ask
  <2>1. budget'.leads = budget.leads
    <3>1. CASE Findings \/ Block \/ UnblockEarly \/ TakeOver
        BY <1>b, <3>1 DEF Findings, Block, UnblockEarly, TakeOver, Events
    <3>2. CASE Unblock \/ HandBack \/ Resolve
        BY <3>2 DEF Unblock, HandBack, Resolve
    <3> QED
        BY <1>5, <3>1, <3>2 DEF People
  <2>2. tracker'.receipts = tracker.receipts
      BY <1>5 DEF People, Findings, Block, Unblock, UnblockEarly, TakeOver, HandBack, Resolve,
                  TypeInv, Types, RecordTypes, Trackers
  <2>3. UNCHANGED <<claim, execution, restarts, pass, launcher>>
      BY <1>5 DEF People, Findings, Block, Unblock, UnblockEarly, TakeOver, HandBack, Resolve,
                  records, work
  <2> QED
      BY <1>s, <2>1, <2>2, <2>3
<1>6. CASE UNCHANGED vars
    BY <1>6, <1>s DEF vars, records
<1> QED
    BY <1>1, <1>2, <1>3, <1>4, <1>5, <1>6, AskCounts

LEMMA NextCount == AttemptsAssumption /\ TypeInv /\ CountInv /\ [Next]_vars => CountInv'
<1> SUFFICES ASSUME AttemptsAssumption, TypeInv, CountInv, [Next]_vars PROVE CountInv'
    OBVIOUS
<1> QED
    BY PassCounts, LauncherCounts, OtherCounts DEF Next

------------------------------------------------------------------------------
(* One worker, and its uncommitted work.  A worker is current as long as   *)
(* the claim is the one that its attempt descends from.  A claim that has  *)
(* passed on never comes back: a launcher that looked under it starts a    *)
(* late worker at worst, and only one that outlived its pass does.         *)

\* The execution on record descends from a claim that the tracker knows; the claim that a
\* pass publishes is a newer one.
Descent ==
    /\ execution.attempt = 0 => execution.lineage = 0 /\ claim <= 1
    /\ execution.attempt # 0 =>
         execution.lineage \in 1 .. execution.attempt /\ execution.lineage \in tracker.receipts
    /\ At("local") => claim = Want \/ (claim < Want /\ execution.lineage < Want)

Passed(a) == \/ execution.attempt > a
             \/ execution.attempt = a /\ claim # execution.lineage

Fresh(a) == worker[a].alive /\ ~worker[a].late

\* A fresh worker is the one on record. A late one's claim has passed on, for good.
Workforce ==
    \A a \in Attempts :
      /\ worker[a].alive => worker[a].record # 0
      /\ Fresh(a) => execution.attempt = a
      /\ worker[a].late => Passed(a)
      /\ tree[a].at = "quarantine" /\ tree[a].dirty => tree[a].receipt # "none" \/ worker[a].late

Retiring == {"inspect", "remove", "switch", "prepare", "move", "finalize"}
Preparing == Retiring \union {"tree", "packet"}
Recorded == {"lane", "check", "mint", "spawn"}

\* What a launcher has made sure of. Of the records: its attempt is on record, or was; a
\* start for a new attempt has seen the claim pass on.
Founded(l) ==
    /\ launcher[l].at \in Recorded => New(l) \in 1 .. execution.attempt
    /\ launcher[l].at \in Preparing /\ ~Restart(l) =>
         /\ New(l) <= execution.attempt + 1
         /\ execution.attempt # 0 /\ New(l) = execution.attempt + 1 => claim # execution.lineage

\* Of the lane: a restart does not leave it.
Inside(l) ==
    /\ launcher[l].at \in {"admit", "revoke", "halt"} => Restart(l)
    /\ Restart(l) /\ launcher[l].at \notin {"off", "admit"} => lane = l

\* Of the attempt before: no fresh worker of it is left, and where it removes or moves the
\* worktree, no work of one without a receipt.
Succeeding(l) == launcher[l].at \in Preparing \/ (Restart(l) /\ launcher[l].at = "begin")
Succeeds(l) ==
    Old(l) \in Attempts =>
      /\ Succeeding(l) => ~Fresh(Old(l))
      /\ launcher[l].at = "remove" /\ tree[Old(l)].dirty => worker[Old(l)].late
      /\ launcher[l].at = "move" /\ tree[Old(l)].dirty =>
            tree[Old(l)].receipt # "none" \/ worker[Old(l)].late

\* Of its pass: while that waits, the claim of the last look is the live one.
Awaited(l) ==
    At("wait") /\ pass.child = l /\ launcher[l].at \in {"mint", "spawn"} =>
        execution.attempt = New(l) /\ claim = execution.lineage

Serves(l) == Founded(l) /\ Inside(l) /\ Succeeds(l) /\ Awaited(l)

SerialInv ==
    /\ Descent /\ Workforce
    /\ \A l \in Launchers : Serves(l)

\* No step erases uncommitted work.
Keeping ==
    \A a \in Attempts : tree[a].at # "none" /\ tree[a].dirty =>
        \/ tree'[a].at # "none" /\ (tree'[a].at = "quarantine" => tree'[a].receipt # "none")
        \/ worker[a].late

\* No step brings a claim back, or an attempt.
Onward ==
    /\ execution'.attempt >= execution.attempt
    /\ execution.attempt # 0 /\ execution'.attempt = execution.attempt
          /\ claim # execution.lineage => claim' # execution'.lineage

LEMMA Figures ==
    ASSUME AttemptsAssumption, TypeInv
    PROVE  /\ execution.attempt \in Nat /\ execution.lineage \in Nat /\ claim \in Nat
           /\ Want \in Nat
           /\ \A l \in Launchers : /\ New(l) \in Nat
                                   /\ Old(l) = New(l) - 1 /\ Old(l) # New(l)
    BY DEF AttemptsAssumption, TypeInv, Types, RecordTypes, ProcessTypes, Executions, Claims,
           Passes, Commands, Want, New, Old

LEMMA InRange == Attempts \subseteq Nat \ {0}
    BY AttemptsAssumption DEF Attempts, AttemptsAssumption

\* Where claim and execution stay, and the pass does not turn to its claim.
LEMMA DescentKept ==
    ASSUME AttemptsAssumption, TypeInv, Descent, UNCHANGED <<claim, execution>>, tracker.receipts \subseteq tracker'.receipts,
           pass'.at = "local" => pass.at = "local" /\ pass'.attempt = pass.attempt
    PROVE  Descent' /\ Onward
<1> DEFINE published(c, w, e) == c = w \/ (c < w /\ e < w)
<1>1. At("local") => published(claim, pass.attempt, execution.lineage)
    BY DEF Descent, Want
<1>2. At("local")' => published(claim', pass'.attempt, execution'.lineage)
    BY <1>1 DEF At
<1> HIDE DEF published
<1>3. /\ execution'.attempt = 0 => execution'.lineage = 0 /\ claim' <= 1
      /\ execution'.attempt # 0 =>
           execution'.lineage \in 1 .. execution'.attempt /\ execution'.lineage \in tracker'.receipts
    BY DEF Descent
<1>4. Onward
    BY Figures DEF Onward
<1> QED
    BY <1>2, <1>3, <1>4 DEF Descent, Want, published

\* What a packet writes, it writes for the attempt of its claim or for the next one.
LEMMA PacketLineage ==
    ASSUME AttemptsAssumption, TypeInv, Wanted, Descent, NEW l \in Launchers, Packet(l)
    PROVE  \/ UNCHANGED execution
           \/ /\ execution'.attempt = New(l) /\ execution'.lineage = claim
              /\ LineageOk(New(l), Restart(l))
    BY DEF Packet

LEMMA DescentByPacket ==
    ASSUME AttemptsAssumption, TypeInv, Wanted, Descent, NEW l \in Launchers, Packet(l)
    PROVE  Descent' /\ Onward
<1> USE Figures
<1>u. UNCHANGED <<tracker, claim, pass>>
    BY DEF Packet
<1>1. CASE UNCHANGED execution
    BY <1>1, <1>u, DescentKept
<1>2. CASE /\ execution'.attempt = New(l) /\ execution'.lineage = claim
           /\ LineageOk(New(l), Restart(l))
  <2>1. claim # 0 /\ claim \in tracker.receipts
      BY <1>2 DEF LineageOk
  <2>2. CASE execution.attempt = 0
    <3>1. claim = New(l)
        BY <1>2, <2>2 DEF LineageOk
    <3> QED
        BY <1>2, <1>u, <2>1, <2>2, <3>1 DEF Descent, Onward, At, Want
  <2>3. CASE execution.attempt # 0
    <3>1. /\ New(l) \in {execution.attempt, execution.attempt + 1}
          /\ claim = execution.lineage \/ (New(l) > execution.attempt /\ claim = New(l))
        BY <1>2, <2>3 DEF LineageOk
    <3>2. execution.lineage <= execution.attempt
        BY <2>3 DEF Descent
    <3>3. claim \in 1 .. New(l)
        BY <2>1, <3>1, <3>2
    <3>4. At("local") => claim = Want \/ claim < Want
        BY DEF Descent
    <3> QED
        BY <1>2, <1>u, <2>1, <2>3, <3>1, <3>3, <3>4 DEF Descent, Onward, At, Want
  <2> QED
      BY <2>2, <2>3
<1> QED
    BY <1>1, <1>2, PacketLineage

LEMMA DescentByPass ==
    ASSUME AttemptsAssumption, TypeInv, Wanted, Wanted', Descent, PassStep
    PROVE  Descent' /\ Onward
<1> USE Figures DEF TypeInv, Types, ProcessTypes
<1>r. ASSUME PassEnds PROVE pass'.at = "idle"
    BY <1>r DEF PassEnds, Resting
<1>g. ASSUME NEW at \in Places, Goto(at) PROVE pass'.at = at /\ pass'.attempt = pass.attempt
    BY <1>g, GotoFacts
<1>f. ASSUME NEW at \in Places, Refused(at) PROVE pass'.at \in {at, "idle"} /\ (pass'.at = "local" => pass'.attempt = pass.attempt)
    BY <1>f, <1>r, <1>g DEF Refused
<1>l. ASSUME NEW a \in Attempts, NEW control \in Controls, NEW generation \in Nat, Launch(a, control, generation)
      PROVE  pass'.at = "wait"
    BY <1>l, LaunchFacts
<1>1. CASE Observe \/ Plan \/ Wait \/ Clear \/ Stop
  <2>1. UNCHANGED <<claim, execution, tracker>>
      BY <1>1 DEF Observe, Plan, Wait, Clear, Stop, records
  <2>2. pass'.at # "local"
    <3>1. CASE Observe
        BY <3>1 DEF Observe, Resting
    <3>2. CASE Plan
        BY <1>r, <3>2 DEF Plan, Passes
    <3>3. CASE Wait
        BY <1>r, <3>3 DEF Wait, Passes
    <3>4. CASE Clear \/ Stop
        BY <1>g, <3>4 DEF Clear, Stop, Places
    <3> QED
        BY <1>1, <3>1, <3>2, <3>3, <3>4
  <2> QED
      BY <2>1, <2>2, DescentKept
<1>2. CASE Control \/ DispatchLineage
  <2>1. UNCHANGED <<claim, execution, tracker>>
      BY <1>2 DEF Control, DispatchLineage, records
  <2>2. pass'.at # "local"
    <3>1. CASE UNCHANGED launcher
        BY <1>2, <1>g, <1>r, <3>1 DEF Control, DispatchLineage, Launch, Passes, Places
    <3>2. CASE \E a \in Attempts, control \in Controls, generation \in Nat : Launch(a, control, generation)
        BY <1>l, <3>2
    <3> QED
        BY <1>2, <3>1, <3>2, Launching
  <2> QED
      BY <2>1, <2>2, DescentKept
<1>3. CASE PostReceipt \/ Assign \/ SetState
  <2>1. UNCHANGED <<claim, execution>> /\ tracker.receipts \subseteq tracker'.receipts
      BY <1>3 DEF PostReceipt, Assign, SetState, ClaimStep, records, RecordTypes, Trackers
  <2>2. pass'.at # "local"
      BY <1>3, <1>f, <1>g DEF PostReceipt, Assign, SetState, ClaimStep, Places
  <2> QED
      BY <2>1, <2>2, DescentKept
\* The claim goes: to none, or from none.
<1>c. ASSUME UNCHANGED <<tracker, execution>>, claim' = 0,
             pass'.at = "local" => pass.at = "local" /\ pass'.attempt = pass.attempt /\ claim # Want
      PROVE  Descent' /\ Onward
  <2>1. pass'.at = "local" => claim < Want /\ execution.lineage < Want /\ Want' = Want
      BY <1>c DEF Descent, At, Want
  <2> QED
      BY <1>c, <2>1 DEF Descent, Onward, At
<1>4. CASE Sync
  <2>1. UNCHANGED <<tracker, execution>> /\ claim' \in {0, claim} /\ pass'.at # "local"
      BY <1>4, <1>g DEF Sync, Places
  <2> QED
      BY <1>c, <2>1, DescentKept
<1>5. CASE Preflight
  <2>1. UNCHANGED <<tracker, claim, execution>>
      BY <1>5 DEF Preflight, records
  <2>2. CASE pass'.at # "local"
      BY <2>1, <2>2, DescentKept
  <2>3. CASE pass'.at = "local"
    <3>1. /\ pass'.attempt = pass.attempt
          /\ IF execution.attempt = 0 THEN Want = 1 /\ claim \in {0, Want}
             ELSE Want = execution.attempt + 1 /\ claim \in {execution.lineage, 0, Want}
        BY <1>5, <1>f, <1>g, <1>r, <2>3 DEF Preflight, Places
    <3> QED
        BY <2>1, <3>1 DEF Descent, Onward, At, Want
  <2> QED
      BY <2>2, <2>3
<1>6. CASE ArchiveClaim
  <2>1. UNCHANGED <<tracker, claim, execution>> /\ pass.at = "local"
      BY <1>6 DEF ArchiveClaim, At
  <2>2. pass'.at = "local" => pass'.attempt = pass.attempt
      BY <1>6, <1>f DEF ArchiveClaim, Places
  <2> QED
      BY <2>1, <2>2, DescentKept
<1>7. CASE EvacuateClaim
  <2>1. /\ UNCHANGED <<tracker, execution>> /\ pass.at = "local" /\ claim # Want
        /\ claim' = 0 \/ UNCHANGED claim
        /\ pass'.at = "local" => pass'.attempt = pass.attempt
      BY <1>7, <1>f DEF EvacuateClaim, At, Places
  <2> QED
      BY <1>c, <2>1, DescentKept
<1>8. CASE PublishClaim
  <2>1. /\ UNCHANGED <<tracker, execution>> /\ pass.at = "local" /\ pass'.at # "local"
        /\ UNCHANGED claim \/ claim' = Want
      BY <1>8, <1>f, <1>g DEF PublishClaim, At, Places
  <2>2. CASE UNCHANGED claim
      BY <2>1, <2>2, DescentKept
  <2>3. CASE claim # claim' /\ claim' = Want
    <3>1. execution.lineage < Want
        BY <2>1, <2>3 DEF Descent, At
    <3>2. execution.attempt = 0 => Want <= 1
        BY <2>1, <2>3 DEF Wanted, At, Want
    <3> QED
        BY <2>1, <2>3, <3>1, <3>2 DEF Descent, Onward, At
  <2> QED
      BY <2>1, <2>2, <2>3
<1> QED
    BY <1>1, <1>2, <1>3, <1>4, <1>5, <1>6, <1>7, <1>8 DEF PassStep

\* A claim that has passed on stays so, and what an attempt may not run under it may
\* never.
LEMMA PassedFor ==
    ASSUME AttemptsAssumption, TypeInv, TypeInv', Descent, Descent', Onward, NEW a \in Attempts
    PROVE  /\ Passed(a) => Passed(a)'
           /\ Passed(a) => ~LineageOk(a, TRUE) /\ ~LineageOk(a, FALSE)
<1> USE InRange
<1>n. /\ execution.attempt \in Nat /\ execution'.attempt \in Nat
      /\ execution.lineage \in Nat
    BY DEF TypeInv, Types, RecordTypes, Executions, AttemptsAssumption
<1>1. Passed(a) => Passed(a)'
    BY <1>n DEF Passed, Onward
<1>2. Passed(a) => execution.attempt # 0
    BY <1>n DEF Passed
<1>3. Passed(a) => ~LineageOk(a, TRUE) /\ ~LineageOk(a, FALSE)
    BY <1>n, <1>2 DEF Passed, LineageOk
<1> QED
    BY <1>1, <1>3

\* An attempt on record, or before, that may run is the one on record, and its claim the
\* live one.
LEMMA Current ==
    ASSUME AttemptsAssumption, TypeInv, Descent, NEW a \in 1 .. execution.attempt, NEW restart
    PROVE  /\ LineageOk(a, restart) <=> execution.attempt = a /\ claim = execution.lineage
           /\ ~LineageOk(a, restart) => Passed(a)
<1> USE Figures
<1>1. execution.attempt # 0 /\ a \in Nat /\ a <= execution.attempt
    OBVIOUS
<1>2. execution.lineage # 0 /\ execution.lineage \in tracker.receipts
    BY <1>1 DEF Descent
<1>3. LineageOk(a, restart) <=> execution.attempt = a /\ claim = execution.lineage
    BY <1>1, <1>2 DEF LineageOk
<1> QED
    BY <1>1, <1>3 DEF Passed

\* No launcher starts a fresh worker of the attempt that another has seen the end of.
LEMMA SpawnedLate ==
    ASSUME AttemptsAssumption, TypeInv, FenceInv, SerialInv, NEW l \in Launchers, NEW k \in Launchers, k # l,
           launcher[l].at = "spawn", Succeeding(k), Old(k) = New(l)
    PROVE  ~LineageOk(New(l), Restart(l))
<1> USE Figures
<1>1. lane = l
    BY DEF FenceInv, InLane
<1>2. ~Restart(k)
    BY <1>1 DEF SerialInv, Serves, Inside, Succeeding, Preparing, Retiring
<1>3. launcher[k].at \in Preparing
    BY <1>2 DEF Succeeding
<1>4. /\ New(k) <= execution.attempt + 1
      /\ execution.attempt # 0 /\ New(k) = execution.attempt + 1 => claim # execution.lineage
    BY <1>2, <1>3 DEF SerialInv, Serves, Founded
<1>5. New(l) \in 1 .. execution.attempt
    BY DEF SerialInv, Serves, Founded, Recorded
<1>6. SUFFICES ASSUME LineageOk(New(l), Restart(l)) PROVE FALSE
    OBVIOUS
<1>7. execution.attempt = New(l) /\ claim = execution.lineage
    BY <1>5, <1>6, Current DEF SerialInv
<1> QED
    BY <1>4, <1>5, <1>7

\* A launcher that is not the one that moves.
LEMMA Undisturbed ==
    ASSUME AttemptsAssumption, TypeInv, TypeInv', SerialInv, Onward, NEW k \in Launchers,
           launcher'[k] = launcher[k], lane = k => lane' = k,
           \A a \in Attempts : /\ worker[a].late => worker'[a].late
                               /\ tree'[a].dirty => tree[a].dirty \/ worker[a].alive
                               /\ tree'[a].dirty /\ tree'[a].receipt = "none" =>
                                    worker[a].alive \/ (tree[a].dirty /\ tree[a].receipt = "none"),
           Succeeding(k) /\ Old(k) \in Attempts /\ ~Fresh(Old(k)) => ~Fresh(Old(k))',
           Awaited(k)'
    PROVE  Serves(k)'
<1> USE Figures
<1>0. /\ New(k)' = New(k) /\ Old(k)' = Old(k) /\ (Restart(k)' <=> Restart(k))
      /\ (Succeeding(k)' <=> Succeeding(k))
    BY DEF New, Old, Restart, Succeeding
<1>n. execution'.attempt \in Nat /\ execution'.attempt >= execution.attempt
    BY DEF Onward, TypeInv, Types, RecordTypes, Executions, AttemptsAssumption
<1>s. Serves(k)
    BY DEF SerialInv
<1>1. Founded(k)'
  <2>1. launcher[k].at \in Recorded => New(k) \in 1 .. execution'.attempt
      BY <1>n, <1>s DEF Serves, Founded
  <2>2. ASSUME launcher[k].at \in Preparing, ~Restart(k)
        PROVE  /\ New(k) <= execution'.attempt + 1
               /\ execution'.attempt # 0 /\ New(k) = execution'.attempt + 1 =>
                      claim' # execution'.lineage
    <3>1. /\ New(k) <= execution.attempt + 1
          /\ execution.attempt # 0 /\ New(k) = execution.attempt + 1 => claim # execution.lineage
        BY <1>s, <2>2 DEF Serves, Founded
    <3> QED
        BY <1>n, <3>1 DEF Onward
  <2> QED
      BY <1>0, <2>1, <2>2 DEF Founded
<1>2. Inside(k)'
    BY <1>0, <1>s DEF Serves, Inside
<1>3. Succeeds(k)'
  <2> SUFFICES ASSUME Old(k) \in Attempts
               PROVE  /\ Succeeding(k) => ~Fresh(Old(k))'
                      /\ launcher[k].at = "remove" /\ tree'[Old(k)].dirty => worker'[Old(k)].late
                      /\ launcher[k].at = "move" /\ tree'[Old(k)].dirty =>
                            tree'[Old(k)].receipt # "none" \/ worker'[Old(k)].late
      BY <1>0 DEF Succeeds, Fresh
  <2>1. Succeeding(k) => ~Fresh(Old(k))
      BY <1>s DEF Serves, Succeeds
  <2>2. launcher[k].at \in {"remove", "move"} /\ worker[Old(k)].alive => worker[Old(k)].late
      BY <2>1 DEF Fresh, Succeeding, Preparing, Retiring
  <2> QED
      BY <1>s, <2>1, <2>2 DEF Serves, Succeeds
<1> QED
    BY <1>1, <1>2, <1>3 DEF Serves

\* Where no worker starts.
LEMMA WorkforceKept ==
    ASSUME AttemptsAssumption, TypeInv, TypeInv', Descent, Descent', Workforce, Onward,
           \A a \in Attempts :
             /\ worker'[a].alive => worker[a].alive /\ worker'[a].record # 0
             /\ worker'[a].late = worker[a].late
             /\ Fresh(a) => execution'.attempt = execution.attempt
             /\ tree'[a].at = "quarantine" /\ tree'[a].dirty => tree'[a].receipt # "none" \/ worker[a].late
    PROVE  Workforce'
<1> SUFFICES ASSUME NEW a \in Attempts
             PROVE  /\ worker'[a].alive => worker'[a].record # 0
                    /\ Fresh(a)' => execution'.attempt = a
                    /\ worker'[a].late => Passed(a)'
                    /\ tree'[a].at = "quarantine" /\ tree'[a].dirty =>
                           tree'[a].receipt # "none" \/ worker'[a].late
    BY DEF Workforce, Fresh
<1>1. Fresh(a)' => Fresh(a)
    BY DEF Fresh
<1>2. Fresh(a)' => execution'.attempt = a
    BY <1>1 DEF Workforce
<1>3. worker'[a].late => Passed(a)'
    BY PassedFor DEF Workforce
<1> QED
    BY <1>2, <1>3

\* The trees as no step may leave them.
Tended ==
    \A a \in Attempts :
      /\ tree'[a].dirty => tree[a].dirty \/ worker[a].alive
      /\ tree'[a].dirty /\ tree'[a].receipt = "none" =>
            worker[a].alive \/ (tree[a].dirty /\ tree[a].receipt = "none")
      /\ tree'[a].at = "quarantine" /\ tree'[a].dirty => tree'[a].receipt # "none" \/ worker[a].late

\* A step of a launcher that leaves the records and starts no worker.
LEMMA LauncherStays ==
    ASSUME AttemptsAssumption, TypeInv, TypeInv', SerialInv, NEW l \in Launchers, Advances(l),
           UNCHANGED <<tracker, claim, execution, pass>>, Tended, Keeping,
           \A a \in Attempts : /\ worker'[a].alive => worker[a].alive /\ worker'[a].record # 0
                               /\ worker'[a].late = worker[a].late,
           Serves(l)'
    PROVE  SerialInv' /\ Keeping
<1>1. Descent' /\ Onward
    BY DescentKept DEF SerialInv
<1>2. execution'.attempt = execution.attempt
    OBVIOUS
<1>3. Workforce'
    BY <1>1, <1>2, WorkforceKept DEF SerialInv, Tended
<1>4. ASSUME NEW k \in Launchers, k # l PROVE Serves(k)'
  <2>1. launcher'[k] = launcher[k] /\ (lane = k => lane' = k)
      BY <1>4 DEF Advances, AttemptsAssumption
  <2>2. Awaited(k)'
      BY <2>1 DEF SerialInv, Serves, Awaited, At, New
  <2>3. Old(k) \in Attempts /\ ~Fresh(Old(k)) => ~Fresh(Old(k))'
      BY <2>1 DEF Fresh, Old
  <2> QED
      BY <1>1, <2>1, <2>2, <2>3, Undisturbed DEF Tended
<1> QED
    BY <1>1, <1>3, <1>4 DEF SerialInv

LEMMA TreesStay ==
    ASSUME SerialInv, UNCHANGED tree PROVE Tended /\ Keeping
    BY DEF SerialInv, Workforce, Tended, Keeping

LEMMA SpawnSerial ==
    ASSUME AttemptsAssumption, TypeInv, TypeInv', FenceInv, SerialInv, NEW l \in Launchers, Spawn(l)
    PROVE  SerialInv' /\ Keeping
<1> USE Figures, InRange
<1>a. Advances(l)
    BY LauncherSteps DEF LauncherStep
<1>u. UNCHANGED <<tracker, claim, execution, tree, pass>> /\ launcher[l].at = "spawn"
    BY DEF Spawn, In, records
<1>t. Tended /\ Keeping
    BY <1>u, TreesStay
<1>1. Descent' /\ Onward
    BY <1>u, DescentKept DEF SerialInv
<1>2. New(l) \in 1 .. execution.attempt
    BY <1>u DEF SerialInv, Serves, Founded, Recorded
<1>3. /\ \A a \in Attempts \ {New(l)} : worker'[a] = worker[a]
      /\ New(l) \in Attempts => /\ worker'[New(l)].late = ~LineageOk(New(l), Restart(l))
                                /\ worker'[New(l)].record # 0
  <2>1. \A a \in Attempts : worker[a].born + 1 # 0
      BY DEF TypeInv, Types, WorkTypes, Workers
  <2> QED
      BY <2>1 DEF Spawn, TypeInv, Types, WorkTypes
<1>4. \A a \in Attempts : worker[a].late => worker'[a].late
  <2>1. New(l) \in Attempts /\ worker[New(l)].late => ~LineageOk(New(l), Restart(l))
      BY <1>1, <1>2, Current DEF SerialInv, Workforce, Passed
  <2> QED
      BY <1>3, <2>1
<1>5. Workforce'
  <2> SUFFICES ASSUME NEW a \in Attempts
               PROVE  /\ worker'[a].alive => worker'[a].record # 0
                      /\ Fresh(a)' => execution'.attempt = a
                      /\ worker'[a].late => Passed(a)'
                      /\ tree'[a].at = "quarantine" /\ tree'[a].dirty =>
                             tree'[a].receipt # "none" \/ worker'[a].late
      BY DEF Workforce, Fresh
  <2>1. CASE a = New(l)
      BY <1>u, <1>1, <1>2, <1>3, <1>4, <2>1, Current, PassedFor DEF SerialInv, Workforce, Fresh, Passed
  <2>2. CASE a # New(l)
      BY <1>u, <1>3, <2>2 DEF SerialInv, Workforce, Fresh, Passed
  <2> QED
      BY <2>1, <2>2
<1>6. Serves(l)'
  <2>1. launcher'[l].at = "off"
      BY LeaveFacts DEF Spawn, Gone, TypeInv, Types
  <2> QED
      BY <2>1 DEF Serves, Founded, Inside, Succeeds, Succeeding, Awaited, Recorded, Preparing, Retiring
<1>7. ASSUME NEW k \in Launchers, k # l PROVE Serves(k)'
  <2>1. launcher'[k] = launcher[k] /\ (lane = k => lane' = k)
      BY <1>a, <1>7 DEF Advances, AttemptsAssumption
  <2>2. Awaited(k)'
      BY <1>u, <2>1 DEF SerialInv, Serves, Awaited, At, New
  <2>3. ASSUME Succeeding(k), Old(k) \in Attempts, ~Fresh(Old(k)) PROVE ~Fresh(Old(k))'
    <3>1. Old(k)' = Old(k)
        BY <2>1 DEF Old
    <3>2. CASE Old(k) = New(l)
        BY <1>u, <1>3, <1>7, <2>3, <3>1, <3>2, SpawnedLate DEF Fresh
    <3>3. CASE Old(k) # New(l)
        BY <1>3, <2>3, <3>1, <3>3 DEF Fresh
    <3> QED
        BY <3>2, <3>3
  <2> QED
      BY <1>t, <1>1, <1>4, <2>1, <2>2, <2>3, Undisturbed DEF Tended
<1> QED
    BY <1>t, <1>1, <1>5, <1>6, <1>7 DEF SerialInv

LEMMA PacketSerial ==
    ASSUME AttemptsAssumption, TypeInv, TypeInv', FenceInv, CountInv, SerialInv, NEW l \in Launchers, Packet(l)
    PROVE  SerialInv' /\ Keeping
<1> USE Figures, InRange
<1>a. Advances(l)
    BY LauncherSteps DEF LauncherStep
<1>u. UNCHANGED <<tracker, claim, tree, worker, pass>> /\ launcher[l].at = "packet"
    BY DEF Packet, In, work
<1>t. Tended /\ Keeping
    BY <1>u, TreesStay
<1>1. Descent' /\ Onward
    BY DescentByPacket DEF SerialInv, CountInv
<1>2. \/ UNCHANGED execution /\ launcher'[l].at = "off"
      \/ /\ execution'.attempt = New(l) /\ execution'.lineage = claim
         /\ LineageOk(New(l), Restart(l))
         /\ launcher'[l].at \in {"check", "lane"}
         /\ launcher'[l].attempt = launcher[l].attempt /\ launcher'[l].control = launcher[l].control
         /\ lane' = lane
  <2> DEFINE ok == LineageOk(New(l), Restart(l)) /\ (Restart(l) => Granted(l) /\ Prepared(l))
  <2> USE DEF TypeInv, Types, ProcessTypes
  <2>1. CASE ok
    <3>1. Move(l, IF lane = l THEN "check" ELSE "lane") /\ UNCHANGED lane
        BY <2>1 DEF Packet, Proceed
    <3> QED
        BY <2>1, <3>1, MoveFacts DEF Packet, Stations
  <2>2. CASE ~ok
      BY <2>2, LeaveFacts DEF Packet, Proceed, Gone
  <2> QED
      BY <2>1, <2>2
<1>3. CASE UNCHANGED execution /\ launcher'[l].at = "off"
  <2>1. Serves(l)'
      BY <1>3 DEF Serves, Founded, Inside, Succeeds, Succeeding, Awaited, Recorded, Preparing, Retiring
  <2> QED
      BY <1>a, <1>t, <1>u, <1>3, <2>1, LauncherStays DEF SerialInv, Workforce
<1>4. CASE /\ execution'.attempt = New(l) /\ execution'.lineage = claim
           /\ LineageOk(New(l), Restart(l))
           /\ launcher'[l].at \in {"check", "lane"}
           /\ launcher'[l].attempt = launcher[l].attempt /\ launcher'[l].control = launcher[l].control
           /\ lane' = lane
  <2>1. execution.attempt # 0 => New(l) \in {execution.attempt, execution.attempt + 1}
      BY <1>4 DEF LineageOk
  <2>2. \A a \in Attempts : Fresh(a) => execution'.attempt = execution.attempt
    <3> SUFFICES ASSUME NEW a \in Attempts, Fresh(a), New(l) # execution.attempt PROVE FALSE
        BY <1>4
    <3>1. execution.attempt = a /\ a # 0
        BY DEF SerialInv, Workforce
    <3>2. Old(l) = a
        BY <2>1, <3>1
    <3> QED
        BY <1>u, <3>2 DEF SerialInv, Serves, Succeeds, Succeeding, Preparing
  <2>3. Workforce'
      BY <1>t, <1>u, <1>1, <2>2, WorkforceKept DEF SerialInv, Workforce, Tended
  <2>4. New(l) # 0
      BY <1>4 DEF LineageOk
  <2>5. Serves(l)'
    <3>1. New(l)' = New(l) /\ (Restart(l)' <=> Restart(l))
        BY <1>4 DEF New, Restart
    <3>2. Restart(l) => lane = l
        BY <1>u DEF SerialInv, Serves, Inside
    <3> QED
        BY <1>4, <2>4, <3>1, <3>2 DEF Serves, Founded, Inside, Succeeds, Succeeding, Awaited, Recorded, Preparing,
                        Retiring
  <2>6. ASSUME NEW k \in Launchers, k # l PROVE Serves(k)'
    <3>1. launcher'[k] = launcher[k] /\ lane' = lane
        BY <1>a, <1>4, <2>6 DEF Advances
    <3>2. Awaited(k)'
      <4> SUFFICES ASSUME At("wait"), pass.child = k, launcher[k].at \in {"mint", "spawn"}
                   PROVE  execution'.attempt = New(k) /\ claim = execution'.lineage
          BY <1>u, <3>1 DEF Awaited, At, New
      <4>1. execution.attempt = New(k) /\ claim = execution.lineage
          BY DEF SerialInv, Serves, Awaited
      <4>2. lane = k
          BY DEF FenceInv, InLane
      <4>3. ~Restart(l)
          BY <1>u, <2>6, <4>2 DEF SerialInv, Serves, Inside
      <4>4. execution.attempt # 0
          BY <1>4, <4>1 DEF LineageOk, SerialInv, Descent
      <4>5. New(l) = execution.attempt
          BY <1>4, <2>1, <4>1, <4>3, <4>4 DEF LineageOk
      <4> QED
          BY <1>4, <4>1, <4>5
    <3>3. Old(k) \in Attempts /\ ~Fresh(Old(k)) => ~Fresh(Old(k))'
        BY <1>u, <3>1 DEF Fresh, Old
    <3> QED
        BY <1>t, <1>u, <1>1, <3>1, <3>2, <3>3, Undisturbed DEF Tended
  <2> QED
      BY <1>t, <1>1, <2>3, <2>5, <2>6 DEF SerialInv
<1> QED
    BY <1>2, <1>3, <1>4

LEMMA LauncherSerial ==
    ASSUME AttemptsAssumption, TypeInv, TypeInv', FenceInv, CountInv, SerialInv, NEW l \in Launchers,
           LauncherStep(l)
    PROVE  SerialInv' /\ Keeping
<1>a. Advances(l)
    BY LauncherSteps
<1> USE Figures DEF TypeInv, Types, ProcessTypes
<1>m. ASSUME NEW at \in Stations, Move(l, at)
      PROVE  /\ launcher'[l].at = at /\ New(l)' = New(l) /\ Old(l)' = Old(l)
             /\ Restart(l)' <=> Restart(l)
    BY <1>m, MoveFacts DEF New, Old, Restart
<1>v. ASSUME Leave(l) PROVE launcher'[l].at = "off"
    BY <1>v, LeaveFacts DEF Gone
<1>p. ASSUME NEW ok, NEW at \in Stations, Proceed(l, ok, at)
      PROVE  \/ launcher'[l].at = "off"
             \/ /\ launcher'[l].at = at /\ ok /\ UNCHANGED lane
                /\ New(l)' = New(l) /\ Old(l)' = Old(l) /\ (Restart(l)' <=> Restart(l))
    BY <1>p, <1>m, <1>v DEF Proceed
<1>s. Serves(l)
    BY DEF SerialInv
<1>w. \A a \in Attempts : worker[a].alive => worker[a].record # 0
    BY DEF SerialInv, Workforce
\* A launcher that is gone.
<1>f. launcher'[l].at = "off" => Serves(l)'
    BY DEF Serves, Founded, Inside, Succeeds, Succeeding, Awaited, Recorded, Preparing, Retiring
\* Nothing but the launcher, its lane and the policy is written.
<1>q. ASSUME UNCHANGED <<tracker, claim, execution, tree, worker, pass>>, Serves(l)'
      PROVE  SerialInv' /\ Keeping
    BY <1>a, <1>q, <1>w, LauncherStays, TreesStay
<1>1. CASE Admit(l)
  <2>1. UNCHANGED <<tracker, claim, execution, tree, worker, pass>> /\ launcher[l].at = "admit"
      BY <1>1 DEF Admit, In, records, work
  <2>2. \/ launcher'[l].at = "off"
        \/ launcher'[l].at = "revoke" /\ lane' = l /\ (Restart(l)' <=> Restart(l))
      BY <1>1, <1>m, <1>v DEF Admit, Stations
  <2>3. Restart(l)
      BY <1>s, <2>1 DEF Serves, Inside
  <2>4. Serves(l)'
      BY <1>f, <2>2, <2>3
         DEF Serves, Founded, Inside, Succeeds, Succeeding, Awaited, Recorded, Preparing, Retiring
  <2> QED
      BY <1>q, <2>1, <2>4
<1>2. CASE Revoke(l)
  <2>1. UNCHANGED <<tracker, claim, execution, tree, worker, pass>> /\ launcher[l].at = "revoke"
      BY <1>2 DEF Revoke, In, records
  <2>2. \/ launcher'[l].at = "off"
        \/ launcher'[l].at = "halt" /\ UNCHANGED lane /\ (Restart(l)' <=> Restart(l))
      BY <1>2, <1>p DEF Revoke, Stations
  <2>3. Restart(l) /\ lane = l
      BY <1>s, <2>1 DEF Serves, Inside
  <2>4. Serves(l)'
      BY <1>f, <2>2, <2>3
         DEF Serves, Founded, Inside, Succeeds, Succeeding, Awaited, Recorded, Preparing, Retiring
  <2> QED
      BY <1>q, <2>1, <2>4
<1>3. CASE Halt(l)
  <2>1. UNCHANGED <<tracker, claim, execution, tree, pass, lane>> /\ launcher[l].at = "halt"
      BY <1>3 DEF Halt, In, records
  <2>2. launcher'[l].at = "inspect" /\ Old(l)' = Old(l) /\ (Restart(l)' <=> Restart(l))
      BY <1>3, <1>m DEF Halt, Stations
  <2>3. Restart(l) /\ lane = l
      BY <1>s, <2>1 DEF Serves, Inside
  <2>4. /\ \A a \in Attempts : /\ worker'[a].late = worker[a].late
                               /\ worker'[a].alive => worker[a].alive /\ worker'[a] = worker[a]
        /\ Old(l) \in Attempts => ~worker'[Old(l)].alive
      BY <1>3 DEF Halt, WorkTypes, Workers
  <2>5. Serves(l)'
      BY <2>1, <2>2, <2>3, <2>4
         DEF Serves, Founded, Inside, Succeeds, Succeeding, Fresh, Awaited, Recorded, Preparing, Retiring
  <2>6. \A a \in Attempts : /\ worker'[a].alive => worker[a].alive /\ worker'[a].record # 0
                            /\ worker'[a].late = worker[a].late
      BY <1>w, <2>4
  <2> QED
      BY <1>a, <2>1, <2>5, <2>6, LauncherStays, TreesStay
<1>4. CASE Begin(l)
  <2>1. UNCHANGED <<tracker, claim, execution, tree, worker, pass>> /\ launcher[l].at = "begin"
      BY <1>4 DEF Begin, In, records, work
  <2>2. \/ launcher'[l].at = "off"
        \/ /\ LineageOk(New(l), Restart(l))
           /\ execution.attempt # 0 /\ New(l) > execution.attempt =>
                 worker[Old(l)].record = 0 \/ ~worker[Old(l)].alive
           /\ launcher'[l].at \in {"inspect", "tree"} /\ UNCHANGED lane
           /\ New(l)' = New(l) /\ Old(l)' = Old(l) /\ (Restart(l)' <=> Restart(l))
      BY <1>4, <1>p DEF Begin, Stations
  <2>3. CASE launcher'[l].at = "off"
      BY <1>f, <1>q, <2>1, <2>3
  <2>4. CASE launcher'[l].at # "off"
    <3>1. Inside(l)'
        BY <1>s, <2>1, <2>2, <2>4 DEF Serves, Inside
    <3>2. Founded(l)'
      <4>1. ASSUME ~Restart(l)
            PROVE  /\ New(l) <= execution.attempt + 1
                   /\ execution.attempt # 0 /\ New(l) = execution.attempt + 1 => claim # execution.lineage
        <5>1. execution.attempt = 0 => claim = New(l) /\ claim \in {0, 1}
            BY <2>2, <2>4 DEF LineageOk, CountInv, Wanted
        <5> QED
            BY <2>2, <2>4, <4>1, <5>1 DEF LineageOk
      <4> QED
          BY <2>1, <2>2, <2>4, <4>1 DEF Founded, Recorded
    <3>3. Old(l) \in Attempts => ~Fresh(Old(l))
      <4> SUFFICES ASSUME Old(l) \in Attempts, Fresh(Old(l)) PROVE FALSE
          OBVIOUS
      <4>1. execution.attempt = Old(l) /\ execution.attempt # 0
          BY InRange DEF SerialInv, Workforce
      <4>2. New(l) > execution.attempt
          BY <4>1
      <4> QED
          BY <1>w, <2>2, <2>4, <4>1, <4>2 DEF Fresh
    <3>4. Succeeds(l)'
        BY <2>1, <2>2, <2>4, <3>3 DEF Succeeds, Succeeding, Fresh
    <3>5. Serves(l)'
        BY <2>2, <2>4, <3>1, <3>2, <3>4 DEF Serves, Awaited
    <3> QED
        BY <1>q, <2>1, <3>5
  <2> QED
      BY <2>3, <2>4
\* The way through a retirement.
<1>i. ASSUME launcher[l].at \in Retiring, UNCHANGED <<claim, execution, worker, lane>>,
             launcher'[l].at \in Retiring \union {"begin", "tree"},
             launcher'[l].at = "begin" => Restart(l),
             New(l)' = New(l) /\ Old(l)' = Old(l) /\ (Restart(l)' <=> Restart(l)),
             Old(l) \in Attempts =>
               /\ launcher'[l].at = "remove" => ~tree'[Old(l)].dirty
               /\ launcher'[l].at = "move" => tree'[Old(l)].receipt # "none"
      PROVE  Serves(l)'
  <2>1. Founded(l)'
      BY <1>i, <1>s DEF Serves, Founded, Recorded, Preparing, Retiring
  <2>2. Inside(l)'
      BY <1>i, <1>s DEF Serves, Inside, Retiring
  <2>3. Succeeds(l)'
      BY <1>i, <1>s DEF Serves, Succeeds, Succeeding, Preparing, Fresh
  <2> QED
      BY <1>i, <2>1, <2>2, <2>3 DEF Serves, Awaited, Retiring
<1>t. Retired(l) \in {"begin", "tree"} /\ (Retired(l) = "begin" => Restart(l))
    BY DEF Retired
<1>5. CASE Inspect(l)
  <2>1. UNCHANGED <<tracker, claim, execution, tree, worker, pass>> /\ launcher[l].at = "inspect"
      BY <1>5 DEF Inspect, In, records, work
  <2>2. \/ launcher'[l].at = "off"
        \/ /\ launcher'[l].at \in {Retired(l), "finalize", "remove", "switch"}
           /\ launcher'[l].at = "remove" => ~tree[Old(l)].dirty
           /\ New(l)' = New(l) /\ Old(l)' = Old(l) /\ (Restart(l)' <=> Restart(l)) /\ UNCHANGED lane
    <3>1. \/ Proceed(l, tree[Old(l)].branch # launcher[l].control, Retired(l))
          \/ Move(l, IF tree[Old(l)].branch = launcher[l].control THEN "finalize" ELSE Retired(l))
                /\ UNCHANGED lane
          \/ ~Unclean(Old(l)) /\ Move(l, "remove") /\ UNCHANGED lane
          \/ Proceed(l, tree[Old(l)].branch \in {TaskBranch, launcher[l].control}, "switch")
        BY <1>5 DEF Inspect
    <3>2. {Retired(l), "finalize", "remove", "switch"} \subseteq Stations
        BY <1>t DEF Stations
    <3> QED
        BY <1>m, <1>p, <1>t, <3>1, <3>2 DEF Unclean
  <2>3. Serves(l)'
      BY <1>f, <1>i, <1>t, <2>1, <2>2 DEF Retiring
  <2> QED
      BY <1>q, <2>1, <2>3
\* A step of a retirement.
<1>r. ASSUME NEW at \in Retiring \ {"inspect"}, NEW was, NEW next,
             NEW then \in {"prepare", "move", "finalize", Retired(l)},
             Retire(l, at, was, next, then),
             Old(l) \in Attempts =>
               /\ tree[Old(l)].dirty /\ tree[Old(l)].at # "none" =>
                    worker[Old(l)].late \/
                      (next.at # "none" /\ (next.at = "quarantine" => next.receipt # "none"))
               /\ next.dirty => tree[Old(l)].dirty
               /\ next.receipt = "none" => tree[Old(l)].receipt = "none" \/ ~next.dirty
               /\ next.at = "quarantine" /\ next.dirty => next.receipt # "none" \/ worker[Old(l)].late
               /\ then = "move" => next.receipt # "none"
      PROVE  SerialInv' /\ Keeping
  <2>1. UNCHANGED <<tracker, claim, execution, worker, pass>> /\ launcher[l].at = at
      BY <1>r DEF Retire, In, records
  <2>2. then \in Stations
      BY <1>t DEF Stations
  <2>3. \/ launcher'[l].at = "off" /\ UNCHANGED tree
        \/ /\ tree' = [tree EXCEPT ![Old(l)] = next] /\ UNCHANGED lane
           /\ launcher'[l].at = then
           /\ New(l)' = New(l) /\ Old(l)' = Old(l) /\ (Restart(l)' <=> Restart(l))
      BY <1>r, <1>m, <1>v, <2>2 DEF Retire
  <2>4. \A a \in Attempts : tree'[a] = tree[a] \/ (a = Old(l) /\ tree'[a] = next)
      BY <2>3 DEF WorkTypes
  <2>5. Tended /\ Keeping
      BY <1>r, <2>4 DEF SerialInv, Workforce, Tended, Keeping
  <2>6. Serves(l)'
    <3>1. CASE launcher'[l].at = "off"
        BY <1>f, <3>1
    <3>2. CASE launcher'[l].at # "off"
      <4>1. Old(l) \in Attempts => tree'[Old(l)] = next
          BY <2>3, <3>2 DEF WorkTypes
      <4> QED
          BY <1>i, <1>r, <1>t, <2>1, <2>3, <3>2, <4>1 DEF Retiring
    <3> QED
        BY <3>1, <3>2
  <2> QED
      BY <1>a, <1>w, <2>1, <2>5, <2>6, LauncherStays
<1>k. Old(l) \in Attempts => tree[Old(l)] \in Trees
    BY DEF WorkTypes
<1>6. CASE Remove(l)
  <2> DEFINE next == [NoTree EXCEPT !.branch = tree[Old(l)].branch]
  <2>1. next.at = "none" /\ ~next.dirty
      BY DEF NoTree
  <2>2. Old(l) \in Attempts /\ tree[Old(l)].dirty => worker[Old(l)].late
      BY <1>6, <1>s DEF Remove, Retire, In, Serves, Succeeds
  <2>3. Retire(l, "remove", "here", next, Retired(l))
      BY <1>6 DEF Remove
  <2> HIDE DEF next
  <2> QED
      BY <1>r, <1>t, <2>1, <2>2, <2>3 DEF Retiring
<1>7. CASE Switch(l)
  <2> DEFINE next == [tree[Old(l)] EXCEPT !.branch = launcher[l].control]
  <2>1. Old(l) \in Attempts => /\ next.at = tree[Old(l)].at /\ next.receipt = tree[Old(l)].receipt
                               /\ next.dirty = tree[Old(l)].dirty
      BY <1>k DEF Trees
  <2>2. Retire(l, "switch", "here", next, "prepare")
      BY <1>7 DEF Switch
  <2>3. Old(l) \in Attempts /\ tree[Old(l)].dirty =>
            (tree[Old(l)].at = "quarantine" => tree[Old(l)].receipt # "none" \/ worker[Old(l)].late)
      BY DEF SerialInv, Workforce
  <2> HIDE DEF next
  <2> QED
      BY <1>r, <2>1, <2>2, <2>3 DEF Retiring
<1>8. CASE Prepare(l)
  <2> DEFINE next == [tree[Old(l)] EXCEPT !.receipt = "prepare"]
  <2>1. Old(l) \in Attempts => /\ next.at = tree[Old(l)].at /\ next.receipt = "prepare"
                               /\ next.dirty = tree[Old(l)].dirty
      BY <1>k DEF Trees
  <2>2. Retire(l, "prepare", "here", next, "move")
      BY <1>8 DEF Prepare
  <2> HIDE DEF next
  <2> QED
      BY <1>r, <2>1, <2>2 DEF Retiring
<1>9. CASE MoveTree(l)
  <2> DEFINE next == [tree[Old(l)] EXCEPT !.at = "quarantine"]
  <2>1. Old(l) \in Attempts => /\ next.at = "quarantine" /\ next.receipt = tree[Old(l)].receipt
                               /\ next.dirty = tree[Old(l)].dirty
      BY <1>k DEF Trees
  <2>2. Retire(l, "move", "here", next, "finalize")
      BY <1>9 DEF MoveTree
  <2>3. Old(l) \in Attempts /\ tree[Old(l)].dirty => tree[Old(l)].receipt # "none" \/ worker[Old(l)].late
      BY <1>9, <1>s DEF MoveTree, Retire, In, Serves, Succeeds
  <2> HIDE DEF next
  <2> QED
      BY <1>r, <2>1, <2>2, <2>3 DEF Retiring
<1>10. CASE Finalize(l)
  <2> DEFINE next == [tree[Old(l)] EXCEPT !.receipt = "final"]
  <2>1. Old(l) \in Attempts => /\ next.at = tree[Old(l)].at /\ next.receipt = "final"
                               /\ next.dirty = tree[Old(l)].dirty
      BY <1>k DEF Trees
  <2>2. Retire(l, "finalize", "quarantine", next, Retired(l))
      BY <1>10 DEF Finalize
  <2> HIDE DEF next
  <2> QED
      BY <1>r, <2>1, <2>2 DEF Retiring
<1>11. CASE MakeTree(l)
  <2>1. UNCHANGED <<tracker, claim, execution, worker, pass>> /\ launcher[l].at = "tree"
      BY <1>11 DEF MakeTree, In, records
  <2>2. \/ launcher'[l].at = "off"
        \/ /\ launcher'[l].at = "packet" /\ UNCHANGED lane
           /\ New(l)' = New(l) /\ Old(l)' = Old(l) /\ (Restart(l)' <=> Restart(l))
      BY <1>11, <1>p DEF MakeTree, Stations
  <2>3. Serves(l)'
    <3>1. CASE launcher'[l].at # "off"
      <4>1. Founded(l)' /\ Inside(l)'
          BY <1>s, <2>1, <2>2, <3>1 DEF Serves, Founded, Inside, Recorded, Preparing, Retiring
      <4>2. Succeeds(l)'
          BY <1>s, <2>1, <2>2, <3>1 DEF Serves, Succeeds, Succeeding, Fresh, Preparing
      <4> QED
          BY <2>2, <3>1, <4>1, <4>2 DEF Serves, Awaited
    <3> QED
        BY <1>f, <3>1
  <2>4. \A a \in Attempts : tree'[a] = tree[a] \/ (tree'[a].at = "here" /\ ~tree'[a].dirty)
    <3>1. tree' = tree \/ tree' = [tree EXCEPT ![New(l)] = [NoTree EXCEPT !.at = "here"]]
        BY <1>11 DEF MakeTree
    <3>2. [NoTree EXCEPT !.at = "here"].at = "here" /\ ~[NoTree EXCEPT !.at = "here"].dirty
        BY DEF NoTree
    <3> QED
        BY <3>1, <3>2 DEF WorkTypes
  <2>5. Tended /\ Keeping
      BY <2>4 DEF SerialInv, Workforce, Tended, Keeping
  <2> QED
      BY <1>a, <1>w, <2>1, <2>3, <2>5, LauncherStays
<1>12. CASE Packet(l)
    BY <1>12, PacketSerial
\* Behind the packet, under its lane.
<1>c. ASSUME launcher[l].at \in Recorded, launcher'[l].at \in Recorded,
             UNCHANGED <<execution, claim, pass>>,
             New(l)' = New(l) /\ (Restart(l)' <=> Restart(l)), Restart(l) => lane' = l,
             Awaited(l)'
      PROVE  Serves(l)'
    BY <1>c, <1>s DEF Serves, Founded, Inside, Succeeds, Succeeding, Recorded, Preparing, Retiring
<1>13. CASE TakeLane(l)
  <2>1. UNCHANGED <<tracker, claim, execution, tree, worker, pass>> /\ launcher[l].at = "lane" /\ lane' = l
      BY <1>13 DEF TakeLane, In, records, work
  <2>2. launcher'[l].at = "check" /\ New(l)' = New(l) /\ (Restart(l)' <=> Restart(l))
      BY <1>13, <1>m DEF TakeLane, Stations
  <2>3. Serves(l)'
      BY <1>c, <2>1, <2>2 DEF Recorded, Awaited
  <2> QED
      BY <1>q, <2>1, <2>3
<1>14. CASE Check(l)
  <2>1. UNCHANGED <<tracker, claim, execution, tree, worker, pass>> /\ launcher[l].at = "check"
      BY <1>14 DEF Check, In, records, work
  <2>2. \/ launcher'[l].at = "off"
        \/ /\ launcher'[l].at = "mint" /\ LineageOk(New(l), Restart(l)) /\ UNCHANGED lane
           /\ New(l)' = New(l) /\ (Restart(l)' <=> Restart(l))
      BY <1>14, <1>p DEF Check, Startable, Stations
  <2>3. CASE launcher'[l].at # "off"
    <3>1. New(l) \in 1 .. execution.attempt
        BY <1>s, <2>1 DEF Serves, Founded, Recorded
    <3>2. execution.attempt = New(l) /\ claim = execution.lineage
        BY <2>2, <2>3, <3>1, Current DEF SerialInv
    <3>3. Awaited(l)'
        BY <2>1, <2>2, <2>3, <3>2 DEF Awaited
    <3>4. Restart(l) => lane = l
        BY <1>s, <2>1 DEF Serves, Inside
    <3>5. Serves(l)'
        BY <1>c, <2>1, <2>2, <2>3, <3>3, <3>4 DEF Recorded
    <3> QED
        BY <1>q, <2>1, <3>5
  <2> QED
      BY <1>f, <1>q, <2>1, <2>3
<1>15. CASE Mint(l)
  <2>1. UNCHANGED <<tracker, claim, execution, tree, worker, pass, lane>> /\ launcher[l].at = "mint"
      BY <1>15 DEF Mint, In, records
  <2>2. launcher'[l].at = "spawn" /\ New(l)' = New(l) /\ (Restart(l)' <=> Restart(l))
      BY <1>15, <1>m DEF Mint, Stations
  <2>3. Restart(l) => lane = l
      BY <1>s, <2>1 DEF Serves, Inside
  <2>4. Awaited(l)'
      BY <1>s, <2>1, <2>2 DEF Serves, Awaited, At
  <2>5. Serves(l)'
      BY <1>c, <2>1, <2>2, <2>3, <2>4 DEF Recorded
  <2> QED
      BY <1>q, <2>1, <2>5
<1>16. CASE Spawn(l)
    BY <1>16, SpawnSerial
<1> QED
    BY <1>1, <1>2, <1>3, <1>4, <1>5, <1>6, <1>7, <1>8, <1>9, <1>10, <1>11, <1>12, <1>13, <1>14,
       <1>15, <1>16 DEF LauncherStep

\* A step of no launcher: each keeps its place, or is gone, or has just begun.
LEMMA LaunchersKept ==
    ASSUME AttemptsAssumption, TypeInv, TypeInv', SerialInv, Descent', Onward,
           \A l \in Launchers : \/ launcher'[l] = launcher[l] /\ (lane = l => lane' = l)
                                \/ launcher'[l].at = "off"
                                \/ launcher'[l].at = "begin" /\ ~Restart(l)'
                                \/ launcher'[l].at = "admit" /\ Restart(l)',
           \/ UNCHANGED <<claim, execution, pass>>
           \/ \A l \in Launchers : pass'.at = "wait" /\ pass'.child = l =>
                  launcher'[l].at \notin {"mint", "spawn"},
           Tended, Keeping, execution'.attempt = execution.attempt,
           \A a \in Attempts : /\ worker'[a].alive => worker[a].alive /\ worker'[a].record # 0
                               /\ worker'[a].late = worker[a].late
    PROVE  SerialInv' /\ Keeping
<1>1. Workforce'
    BY WorkforceKept DEF SerialInv, Tended
<1>2. ASSUME NEW l \in Launchers PROVE Serves(l)'
  <2>1. CASE launcher'[l] = launcher[l] /\ (lane = l => lane' = l)
    <3>1. Awaited(l)'
        BY <2>1 DEF SerialInv, Serves, Awaited, At, New
    <3>2. Old(l) \in Attempts /\ ~Fresh(Old(l)) => ~Fresh(Old(l))'
        BY <2>1 DEF Fresh, Old
    <3> QED
        BY <2>1, <3>1, <3>2, Undisturbed DEF Tended
  <2>2. CASE \/ launcher'[l].at = "off"
             \/ launcher'[l].at = "begin" /\ ~Restart(l)'
             \/ launcher'[l].at = "admit" /\ Restart(l)'
      BY <2>2 DEF Serves, Founded, Inside, Succeeds, Succeeding, Awaited, Recorded, Preparing, Retiring
  <2> QED
      BY <1>2, <2>1, <2>2
<1> QED
    BY <1>1, <1>2 DEF SerialInv

LEMMA LaunchSerial ==
    ASSUME AttemptsAssumption, TypeInv, TypeInv', SerialInv, NEW a, NEW control \in Controls,
           NEW generation \in Nat, Launch(a, control, generation),
           UNCHANGED <<tracker, claim, execution, tree, worker, lane>>
    PROVE  SerialInv' /\ Keeping
<1> USE DEF TypeInv, Types
<1>1. PICK l \in Launchers : Starts(l, a, control, generation)
    BY LaunchFacts
<1>2. \A k \in Launchers : \/ launcher'[k] = launcher[k] /\ (lane = k => lane' = k)
                           \/ launcher'[k].at = "begin" /\ ~Restart(k)'
                           \/ launcher'[k].at = "admit" /\ Restart(k)'
    BY <1>1 DEF Starts, Restart
<1>3. /\ pass'.at = "wait" /\ launcher'[pass'.child].at \in {"begin", "admit"}
    BY LaunchFacts
<1>4. Descent' /\ Onward
    BY <1>3, DescentKept DEF SerialInv
<1>5. \A b \in Attempts : worker[b].alive => worker[b].record # 0
    BY DEF SerialInv, Workforce
<1> QED
    BY <1>2, <1>3, <1>4, <1>5, LaunchersKept, TreesStay

LEMMA PassSerial ==
    ASSUME AttemptsAssumption, TypeInv, TypeInv', CountInv, CountInv', SerialInv, PassStep
    PROVE  SerialInv' /\ Keeping
<1> USE DEF TypeInv, Types, ProcessTypes
<1>d. Descent' /\ Onward
    BY DescentByPass DEF SerialInv, CountInv
<1>w. \A a \in Attempts : worker[a].alive => worker[a].record # 0
    BY DEF SerialInv, Workforce
<1>s. ASSUME UNCHANGED <<execution, tree, launcher, lane>>, pass'.at # "wait" \/ UNCHANGED <<claim, pass>>,
             \A a \in Attempts : /\ worker'[a].alive => worker[a].alive /\ worker'[a].record # 0
                                 /\ worker'[a].late = worker[a].late
      PROVE  SerialInv' /\ Keeping
    BY <1>s, <1>d, LaunchersKept, TreesStay
<1>r. ASSUME PassEnds PROVE pass'.at = "idle"
    BY <1>r DEF PassEnds, Resting
<1>g. ASSUME NEW at \in Places, Goto(at) PROVE pass'.at = at
    BY <1>g, GotoFacts
<1>f. ASSUME NEW at \in Places, Refused(at) PROVE pass'.at \in {at, "idle"}
    BY <1>f, RefusedFacts
<1>1. CASE Observe \/ Plan \/ Preflight \/ Sync \/ Clear
  <2>1. UNCHANGED <<execution, tree, worker, launcher, lane>>
      BY <1>1 DEF Observe, Plan, Preflight, Sync, Clear, records, work
  <2>2. pass'.at # "wait"
    <3>1. CASE Observe
        BY <3>1 DEF Observe, Resting
    <3>2. CASE Plan
        BY <1>r, <3>2 DEF Plan, Passes
    <3>3. CASE Preflight
        BY <1>f, <1>g, <1>r, <3>3 DEF Preflight, Places
    <3>4. CASE Sync \/ Clear
        BY <1>g, <3>4 DEF Sync, Clear, Places
    <3> QED
        BY <1>1, <3>1, <3>2, <3>3, <3>4
  <2> QED
      BY <1>s, <1>w, <2>1, <2>2
<1>2. CASE ArchiveClaim \/ EvacuateClaim \/ PublishClaim
  <2>1. UNCHANGED <<execution, tree, worker, launcher, lane>> /\ pass.at = "local"
      BY <1>2 DEF ArchiveClaim, EvacuateClaim, PublishClaim, At, work
  <2>2. pass'.at # "wait"
    <3>1. UNCHANGED pass \/ Refused("receipt") \/ Goto("receipt")
        BY <1>2 DEF ArchiveClaim, EvacuateClaim, PublishClaim
    <3> QED
        BY <1>f, <1>g, <2>1, <3>1 DEF Places
  <2> QED
      BY <1>s, <1>w, <2>1, <2>2
<1>3. CASE PostReceipt \/ Assign \/ SetState
  <2>1. UNCHANGED <<execution, tree, worker, launcher, lane>>
      BY <1>3 DEF PostReceipt, Assign, SetState, ClaimStep, records, work
  <2>2. pass'.at # "wait"
    <3>1. Refused("lineage") \/ Goto("assign") \/ Goto("state") \/ Goto("lineage")
        BY <1>3 DEF PostReceipt, Assign, SetState, ClaimStep
    <3> QED
        BY <1>f, <1>g, <3>1 DEF Places
  <2> QED
      BY <1>s, <1>w, <2>1, <2>2
<1>4. CASE Stop
  <2>1. \A a \in Attempts : ~worker'[a].alive /\ worker'[a].late = worker[a].late
    <3> SUFFICES ASSUME NEW a \in Attempts
               PROVE  ~worker'[a].alive /\ worker'[a].late = worker[a].late
        OBVIOUS
    <3>1. worker[a] \in Workers
        BY DEF WorkTypes
    <3>2. worker'[a] = [worker[a] EXCEPT !.alive = FALSE, !.record = 0]
        BY <1>4 DEF Stop
    <3> QED
        BY <3>1, <3>2 DEF Workers
  <2>2. UNCHANGED <<execution, tree, launcher, lane>> /\ pass'.at = "control"
      BY <1>4, <1>g DEF Stop, Places
  <2> QED
      BY <1>s, <2>1, <2>2
<1>5. CASE Wait
  <2>1. UNCHANGED <<execution, tree, worker, launcher, lane>>
      BY <1>5 DEF Wait, records, work
  <2>2. pass'.at # "wait"
    <3>1. \/ PassEnds
          \/ \E seen \in {pass.seen, tracker} : pass' = [pass EXCEPT !.seen = seen, !.at = "plan"]
        BY <1>5 DEF Wait
    <3> QED
        BY <1>r, <3>1 DEF Passes
  <2> QED
      BY <1>s, <1>w, <2>1, <2>2
<1>6. CASE Control \/ DispatchLineage
  <2>1. UNCHANGED <<tracker, claim, execution, tree, worker, lane>>
      BY <1>6, Launching DEF records, work
  <2>2. CASE \E a \in Attempts, control \in Controls, generation \in Nat : Launch(a, control, generation)
      BY <2>1, <2>2, LaunchSerial
  <2>3. CASE UNCHANGED launcher
    <3>1. pass'.at # "wait"
      <4>1. Goto("plan") \/ PassEnds \/ \E a, c, g : Launch(a, c, g)
          BY <1>6 DEF Control, DispatchLineage
      <4>2. \A a, c, g : ~Launch(a, c, g)
        <5> SUFFICES ASSUME NEW a, NEW c, NEW g, Launch(a, c, g) PROVE FALSE
            OBVIOUS
        <5>1. PICK l \in Launchers :
                /\ launcher[l].at = "off"
                /\ launcher' = [launcher EXCEPT ![l] =
                     [at |-> IF c[1] = "start" THEN "begin" ELSE "admit", attempt |-> a,
                      control |-> c, generation |-> g]]
            BY DEF Launch
        <5>2. launcher'[l].at \in {"begin", "admit"}
            BY <5>1
        <5> QED
            BY <2>3, <5>1, <5>2
      <4> QED
          BY <1>g, <1>r, <4>1, <4>2 DEF Places
    <3> QED
        BY <1>s, <1>w, <2>1, <2>3, <3>1
  <2> QED
      BY <1>6, <2>2, <2>3, Launching
<1> QED
    BY <1>1, <1>2, <1>3, <1>4, <1>5, <1>6 DEF PassStep

\* A kill, a worker, or a person.
LEMMA OtherSerial ==
    ASSUME AttemptsAssumption, TypeInv, TypeInv', SerialInv,
           \/ KillPass \/ Crash
           \/ \E l \in Launchers : KillLauncher(l)
           \/ \E a \in Attempts : Edit(a) \/ Submit(a) \/ Quit(a) \/ Die(a)
           \/ People \/ UNCHANGED vars
    PROVE  SerialInv' /\ Keeping
<1> USE DEF TypeInv, Types, ProcessTypes
<1>w. \A a \in Attempts : worker[a].alive => worker[a].record # 0
    BY DEF SerialInv, Workforce
<1>s. ASSUME UNCHANGED <<claim, execution>>, tracker.receipts \subseteq tracker'.receipts,
             UNCHANGED pass \/ pass'.at = "idle", Tended, Keeping,
             \A l \in Launchers : \/ launcher'[l] = launcher[l] /\ (lane = l => lane' = l)
                                  \/ launcher'[l].at = "off",
             \A a \in Attempts : /\ worker'[a].alive => worker[a].alive /\ worker'[a].record # 0
                                 /\ worker'[a].late = worker[a].late
      PROVE  SerialInv' /\ Keeping
  <2>1. Descent' /\ Onward
      BY <1>s, DescentKept DEF SerialInv
  <2> QED
      BY <1>s, <2>1, LaunchersKept
<1>e. ASSUME NEW a \in Attempts, worker' = [worker EXCEPT ![a].alive = FALSE]
      PROVE  \A b \in Attempts : /\ worker'[b].alive => worker[b].alive /\ worker'[b].record # 0
                                 /\ worker'[b].late = worker[b].late
    BY <1>e, <1>w DEF WorkTypes, Workers
\* A worktree becomes dirty under its worker, or is cleaned.
<1>t. ASSUME NEW a, NEW d \in BOOLEAN, tree' = [tree EXCEPT ![a].dirty = d],
             a \in Attempts /\ d => worker[a].alive /\ tree[a].at = "here"
      PROVE  Tended /\ Keeping
  <2>1. \A b \in Attempts : /\ tree'[b].at = tree[b].at /\ tree'[b].receipt = tree[b].receipt
                            /\ tree'[b].dirty => tree[b].dirty \/ (worker[b].alive /\ tree[b].at = "here")
      BY <1>t DEF WorkTypes, Trees
  <2> QED
      BY <2>1 DEF SerialInv, Workforce, Tended, Keeping
<1>1. CASE KillPass
  <2>1. pass'.at = "idle"
      BY <1>1 DEF KillPass, PassEnds, Resting
  <2> QED
      BY <1>1, <1>s, <1>w, <2>1, TreesStay DEF KillPass, records, work
<1>2. CASE Crash
  <2>1. pass'.at = "idle" /\ \A l \in Launchers : launcher'[l].at = "off"
      BY <1>2 DEF Crash, PassEnds, Resting, Gone
  <2> QED
      BY <1>2, <1>s, <1>w, <2>1, TreesStay DEF Crash, records, work
<1>3. ASSUME NEW l \in Launchers, KillLauncher(l) PROVE SerialInv' /\ Keeping
  <2>1. \A k \in Launchers : \/ launcher'[k] = launcher[k] /\ (lane = k => lane' = k)
                             \/ launcher'[k].at = "off"
      BY <1>3, LeaveFacts DEF KillLauncher, Gone
  <2> QED
      BY <1>3, <1>s, <1>w, <2>1, TreesStay DEF KillLauncher, records, work
<1>4. ASSUME NEW a \in Attempts, Edit(a) PROVE SerialInv' /\ Keeping
  <2>1. Tended /\ Keeping
      BY <1>4, <1>t DEF Edit, Running
  <2> QED
      BY <1>4, <1>s, <1>w, <2>1 DEF Edit, records
<1>5. ASSUME NEW a \in Attempts, Submit(a) PROVE SerialInv' /\ Keeping
  <2>1. Tended /\ Keeping
      BY <1>5, <1>t DEF Submit
  <2>2. tracker'.receipts = tracker.receipts
      BY <1>5 DEF Submit, RecordTypes, Trackers
  <2> QED
      BY <1>5, <1>e, <1>s, <2>1, <2>2 DEF Submit, records
<1>6. ASSUME NEW a \in Attempts, Quit(a) \/ Die(a) PROVE SerialInv' /\ Keeping
    BY <1>6, <1>e, <1>s, TreesStay DEF Quit, Die, records
<1>7. CASE Findings \/ Block \/ UnblockEarly \/ TakeOver \/ Unblock \/ HandBack
  <2>1. UNCHANGED <<claim, execution, tree, worker, launcher, lane, pass>>
      BY <1>7 DEF Findings, Block, UnblockEarly, TakeOver, Unblock, HandBack, records, work
  <2>2. tracker'.receipts = tracker.receipts
      BY <1>7 DEF Findings, Block, UnblockEarly, TakeOver, Unblock, HandBack, RecordTypes, Trackers
  <2> QED
      BY <1>s, <1>w, <2>1, <2>2, TreesStay
<1>8. CASE Resolve
  <2>1. UNCHANGED <<claim, execution, worker, launcher, lane, pass>>
      BY <1>8 DEF Resolve, records
  <2>2. tracker'.receipts = tracker.receipts
      BY <1>8 DEF Resolve, RecordTypes, Trackers
  <2>3. Tended /\ Keeping
      BY <1>8, <1>t, TreesStay DEF Resolve
  <2> QED
      BY <1>s, <1>w, <2>1, <2>2, <2>3
<1>9. CASE Ask
    BY <1>9, <1>s, <1>w, TreesStay DEF Ask, records, work
<1>10. CASE UNCHANGED vars
    BY <1>10, <1>s, <1>w, TreesStay DEF vars, records, work
<1> QED
    BY <1>1, <1>2, <1>3, <1>4, <1>5, <1>6, <1>7, <1>8, <1>9, <1>10 DEF People

LEMMA NextSerial ==
    ASSUME AttemptsAssumption, TypeInv, TypeInv', FenceInv, CountInv, CountInv', SerialInv, [Next]_vars
    PROVE  SerialInv' /\ Keeping
    BY PassSerial, LauncherSerial, OtherSerial DEF Next

------------------------------------------------------------------------------
(* The theorems. *)

IInv == TypeInv /\ FenceInv /\ CountInv

LEMMA InitInvariant == AttemptsAssumption /\ Init => IInv
<1> SUFFICES ASSUME AttemptsAssumption, Init PROVE IInv
    OBVIOUS
<1> USE DEF Init
<1>1. TypeInv
    BY InitTypes
<1>2. FenceInv
  <2>1. \A l \in Launchers : launcher[l].at = "off"
      BY DEF Gone
  <2>2. ~Held
      BY DEF Held, HoldStates
  <2> QED
      BY <2>1, <2>2 DEF FenceInv, InLane, Fence
<1>3. Wanted
    BY RestFacts DEF Wanted, At, AttemptsAssumption
<1>4. Controlled
    BY DEF Controlled, Issued, TaskBranch, Gone, NoRequest
<1>5. Covered
  <2>1. ~Pending
      BY DEF Pending, TaskBranch, Gone
  <2>2. Uncovered(execution.attempt, tracker.receipts) = {}
      BY DEF Uncovered
  <2>3. Cardinality(Uncovered(execution.attempt, tracker.receipts)) = 0
      BY <2>2, FS_EmptySet
  <2> QED
      BY <2>1, <2>3 DEF Covered
<1> QED
    BY <1>1, <1>2, <1>3, <1>4, <1>5 DEF IInv, CountInv

\* Every reachable state is typed, fenced where it must be, and has its restarts counted:
\* the invariant that dispatch.sh, runtime-state.py and launch-team.sh keep together.
THEOREM Invariance == Spec => []IInv
<1>1. Init => IInv
    BY AttemptsAssumption, InitInvariant
<1>2. IInv /\ [Next]_vars => IInv'
    BY AttemptsAssumption, NextTypes, NextFence, NextCount DEF IInv
<1> QED
    BY <1>1, <1>2, PTL DEF Spec

\* The variables keep their shape, and the counts of the restart policy their limits.
THEOREM TypeCorrect == Spec => []TypeOK
<1>1. IInv => TypeOK
    BY TypesSuffice DEF IInv, TypeInv
<1> QED
    BY <1>1, Invariance, PTL

\* Whatever passes, launchers and workers are killed, and whatever launch was under way
\* when the hold was registered: a held task whose workers were stopped has no worker and
\* no capability until the hold ends (launch-team.sh:3474-3483, 4283-4377).
THEOREM HoldsFence == Spec => []HeldIsFenced
<1>1. IInv => HeldIsFenced
    BY DEF IInv, FenceInv, Fence, HeldIsFenced
<1> QED
    BY <1>1, Invariance, PTL

\* However often a recovery is killed and replayed, each attempt without a claim of its
\* own is a restart that restart-policy.py counted, so that there are never more of them
\* than its limits (restart-policy.py:150-208, runtime-state.py:2798-2947).
THEOREM RestartsCounted == Spec => []RestartsAreCounted
<1>1. IInv => RestartsAreCounted
  <2> SUFFICES ASSUME IInv PROVE RestartsAreCounted
      OBVIOUS
  <2>1. /\ Cardinality(Uncovered(execution.attempt, tracker.receipts)) \in Nat
        /\ restarts.automatic \in Nat /\ restarts.authorized \in Nat
      BY AttemptsAssumption, Numbers, UncoveredFinite DEF IInv
  <2>2. Cardinality(Uncovered(execution.attempt, tracker.receipts))
          <= restarts.automatic + restarts.authorized
      BY <2>1 DEF IInv, CountInv, Covered
  <2> QED
      BY <2>2 DEF RestartsAreCounted, Uncovered
<1> QED
    BY <1>1, Invariance, PTL

LEMMA SerialInvariance == Spec => [](IInv /\ SerialInv)
<1>1. Init => SerialInv
  <2> SUFFICES ASSUME Init PROVE SerialInv
      OBVIOUS
  <2>1. Descent
    <3>1. execution.attempt = 0 /\ execution.lineage = 0 /\ claim = 0 /\ ~At("local")
        BY DEF Init, At, Resting
    <3> QED
        BY <3>1 DEF Descent
  <2>2. Workforce
    <3>1. \A a \in Attempts : ~worker[a].alive /\ ~worker[a].late /\ tree[a].at = "none"
        BY DEF Init, NoWorker, NoTree
    <3> QED
        BY <3>1 DEF Workforce, Fresh
  <2>3. \A l \in Launchers : launcher[l].at = "off"
      BY DEF Init, Gone
  <2> QED
      BY <2>1, <2>2, <2>3
         DEF SerialInv, Serves, Founded, Inside, Succeeds, Succeeding, Awaited, Retiring,
             Preparing, Recorded
<1>2. IInv /\ SerialInv /\ [Next]_vars => SerialInv'
  <2> SUFFICES ASSUME IInv, SerialInv, [Next]_vars PROVE SerialInv'
      OBVIOUS
  <2>1. IInv'
      BY AttemptsAssumption, NextTypes, NextFence, NextCount DEF IInv
  <2> QED
      BY <2>1, AttemptsAssumption, NextSerial DEF IInv
<1> QED
    BY <1>1, <1>2, Invariance, PTL DEF Spec

\* Whatever dies, and whichever launcher outlives its pass: the worker of the attempt on
\* record is the only one but for those that such a launcher starts after the claim passed
\* on between its last look and the start, and a launcher its pass still waits for starts
\* none of these (launch-team.sh:3429-3437, 3466-3494).
THEOREM OneWorkerStands == Spec => []OneWorker
<1>1. IInv /\ SerialInv => OneWorker
  <2> SUFFICES ASSUME IInv, SerialInv PROVE OneWorker
      OBVIOUS
  <2>1. TypeOK /\ execution.attempt \in Nat
      BY TypesSuffice, AttemptsAssumption, Figures DEF IInv, TypeInv
  <2>2. \A a \in Attempts : worker[a].alive => worker[a].late \/ execution.attempt = a
      BY DEF SerialInv, Workforce, Fresh
  <2>3. \A a \in Attempts : execution.attempt = a => execution.lineage \in tracker.receipts
      BY InRange, AttemptsAssumption DEF SerialInv, Descent
  <2>4. ASSUME NEW l \in Launchers, At("wait"), pass.child = l, In(l, "spawn")
        PROVE  LineageOk(New(l), Restart(l))
    <3>1. execution.attempt = New(l) /\ claim = execution.lineage
        BY <2>4 DEF SerialInv, Serves, Awaited, In
    <3>2. New(l) \in 1 .. execution.attempt
        BY <2>4 DEF SerialInv, Serves, Founded, Recorded, In
    <3>3. execution.lineage \in 1 .. execution.attempt /\ execution.lineage \in tracker.receipts
        BY <2>1, <3>2 DEF SerialInv, Descent
    <3> QED
        BY <2>1, <3>1, <3>2, <3>3 DEF LineageOk
  <2> QED
      BY <2>1, <2>2, <2>3, <2>4 DEF OneWorker
<1> QED
    BY <1>1, SerialInvariance, PTL

\* And no step of a retirement, of its replay after a kill by another control, or of a
\* launch erases uncommitted work but that of a worker started too late, and a quarantined
\* worktree has its receipt from the moment it is moved (launch-team.sh:3185-3283).
THEOREM WorkStays == Spec => WorkKept
<1>1. IInv /\ IInv' /\ SerialInv /\ [Next]_vars
        => [\A a \in Attempts : tree[a].at # "none" /\ tree[a].dirty =>
               \/ tree'[a].at # "none" /\ (tree'[a].at = "quarantine" => tree'[a].receipt # "none")
               \/ worker[a].late]_vars
    BY AttemptsAssumption, NextSerial DEF IInv, Keeping
<1> QED
    BY <1>1, SerialInvariance, PTL DEF Spec, WorkKept
=============================================================================
