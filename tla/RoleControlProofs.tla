------------------------ MODULE RoleControlProofs ------------------------
(* Proofs about RoleControl, for any controls, launchers, limits and budgets. *)
EXTENDS RoleControl, FiniteSetTheorems, TLAPS

\* The types of the launchers and of the pass.
OpType == [kind: {"none", "start", "stop", "restart", "retire"}, c: Controls \union {Nobody},
           at: Places, gen: 0..MaxGen]
PassType == [at: {"idle", "retire", "run", "wait", "store", "move"},
             c: Controls \union {Nobody}, by: Launchers \union {Nobody}, ok: BOOLEAN]

\* The parts of TypeOK, as the steps change them.
RoleTypes ==
    /\ record \in Lifecycles /\ cap \in 0..MaxGen /\ minted \in 0..MaxGen
    /\ waiting \subseteq alive /\ alive \subseteq Gens /\ forked \subseteq Gens
OpTypes == op \in [Launchers -> OpType] /\ lane \in Launchers \union {Nobody}
ControlTypes ==
    /\ policy \in Policies
    /\ request \in [Controls -> Requests] /\ result \in [Controls -> Results]
    /\ consumed \subseteq Controls
    /\ did \subseteq Controls \X {"signal", "launch", "completed"} \X Gens
    /\ stopped \in BOOLEAN
BudgetType == budget \in [{"starts", "stops", "requests", "exits", "faults"} -> Nat]

\* The parts are the whole: a step is checked against the part it changes.
LEMMA TypeParts ==
    TypeOK <=> RoleTypes /\ OpTypes /\ pass \in PassType /\ ControlTypes /\ BudgetType
BY DEF TypeOK, RoleTypes, OpTypes, ControlTypes, BudgetType, OpType, PassType

\* A launcher that holds the lane; a control that was ever requested, and the generation
\* it names; that generation gone for good; a control that completed, and one whose pass
\* already has its launcher's success.
InLane(l) == op[l].at \notin {"idle", "lane"}
Known(c) == request[c].at # "none"
Named(c) == request[c].expected
Gone(c) == Named(c) \notin alive \union forked \union {record}
Ended(c) == <<c, "completed", Named(c)>> \in did
Finished(c) == Ended(c) \/ (pass.at = "store" /\ pass.ok /\ pass.c = c)
\* The restarts that signalled, and these with the one that may.
Signalled == {c \in Controls: request[c].action = "restart"
                              /\ \E g \in Gens: <<c, "signal", g>> \in did}
Counted == Signalled \union ({policy.last} \ {Nobody})

\* At most the recorded generation lives, and whatever runs or is named was registered.
Generations ==
    /\ record <= minted /\ cap <= minted
    /\ alive \subseteq 1..minted /\ forked \subseteq 1..minted
    /\ alive \subseteq {record} /\ record \notin forked
    /\ \A g \in Running : cap \in {0, g}
    /\ stopped => Running = {} /\ cap = 0
    /\ \A c \in Controls : Known(c) => Named(c) \in (1..minted) \ forked

\* A launcher's command and the control it serves; the one in the lane holds it.
Commands(l) ==
    /\ op[l].kind \in {"restart", "retire"} =>
         /\ op[l].c \in Controls /\ Known(op[l].c) /\ op[l].kind = request[op[l].c].action
    /\ op[l].kind \in {"none", "start", "stop"} => op[l].c = Nobody
    /\ op[l].at = "idle" <=> op[l].kind = "none"
    /\ InLane(l) => lane = l /\ ~stopped

StopPlaces == {"fence", "signal", "forget"}
LaunchPlaces == {"mint", "fork", "go", "ready", "complete"}

\* What holds where a launcher stands: nothing is signalled or forgotten before its
\* capability is fenced, and nothing is launched before what it replaces is gone.
Stands(l) ==
    LET o == op[l] IN
    /\ o.at = "look" => o.kind \in {"stop", "restart"}
    /\ o.at = "authorize" => o.kind = "restart"
    /\ o.at \in StopPlaces => /\ o.kind \in {"stop", "restart", "retire"}
                              /\ o.kind = "restart" => Prepared(o.c)
                              /\ o.kind = "stop" => o.gen \notin forked /\ o.gen <= minted
    /\ o.at \in {"signal", "forget"} => cap = 0
    /\ o.at = "forget" => Target(l) \notin alive
    /\ o.at \in LaunchPlaces => /\ o.kind \in {"start", "restart"}
                                /\ o.kind = "restart" => Gone(o.c)
    /\ o.at \in LaunchPlaces \ {"mint"} => o.gen \in 1..minted
    /\ o.at \in {"fork", "go"} => cap = o.gen
    /\ o.at = "complete" => o.kind = "restart"
    /\ o.at = "fork" => /\ o.gen = minted
                        /\ o.gen \notin alive \union forked \union {record}
                        /\ \A c \in Controls : Known(c) => Named(c) # o.gen

\* Every control that signalled for a restart is one the policy has counted.
Breaker ==
    /\ policy.last \in Controls => request[policy.last].action = "restart" /\ Known(policy.last)
    /\ policy.done # 0 => policy.last \in Controls /\ Gone(policy.last)
    /\ policy.count <= Maximum
    /\ IsFiniteSet(Counted) /\ Cardinality(Counted) <= policy.count

\* A pass has a request, and waits for a launcher that carries its control.
Passing ==
    /\ pass.at # "idle" => pass.c \in Controls /\ Known(pass.c)
    /\ pass.at = "wait" => /\ pass.by \in Launchers /\ op[pass.by].c = pass.c
                           /\ op[pass.by].at # "idle"

\* The history against the requests and the stored results.
History ==
    /\ \A d \in did : Known(d[1]) /\ (d[2] = "signal" => d[3] = Named(d[1]))
    /\ \A c \in Controls : /\ Ended(c) => result[c] # "none" \/ c \in consumed
                           /\ result[c] = "completed" => Ended(c)

\* A control that finished has ended its generation, the policy waits for no replacement
\* of it, and a launcher that still comes for it is before its first look.
Settled(c) ==
    Finished(c) => /\ Gone(c) /\ Known(c)
                   /\ policy.last = c => policy.done # 0
                   /\ \A l \in Launchers : op[l].c = c =>
                        op[l].at \in {"lane", IF request[c].action = "restart" THEN "look" ELSE "fence"}

\* The inductive invariant.
IInv ==
    /\ TypeOK /\ Generations /\ Breaker /\ Passing /\ History
    /\ \A l \in Launchers : Commands(l) /\ Stands(l)
    /\ \A c \in Controls : Settled(c)

------------------------------------------------------------------------------
(* What the launcher's steps have in common. *)

\* A step of a launcher leaves the others alone.
Others(l) == \A m \in Launchers \ {l} : op'[m] = op[m]

\* A launcher that goes to another place keeps its command.
LEMMA GoFacts ==
    ASSUME OpTypes, NEW l \in Launchers, NEW at \in Places, Go(l, at)
    PROVE  /\ op' \in [Launchers -> OpType] /\ Others(l) /\ op'[l].at = at
           /\ op'[l].kind = op[l].kind /\ op'[l].c = op[l].c /\ op'[l].gen = op[l].gen
BY DEF OpTypes, OpType, Go, Others

\* So does one that notes a generation on its way.
LEMMA NamedFacts ==
    ASSUME OpTypes, NEW l \in Launchers, NEW at \in Places, NEW g \in 0..MaxGen,
           op' = [op EXCEPT ![l].at = at, ![l].gen = g]
    PROVE  /\ op' \in [Launchers -> OpType] /\ Others(l) /\ op'[l].at = at
           /\ op'[l].kind = op[l].kind /\ op'[l].c = op[l].c /\ op'[l].gen = g
BY DEF OpTypes, OpType, Others

\* A launcher that is started waits at the lane.
LEMMA CommandFacts ==
    ASSUME OpTypes, NEW l \in Launchers, NEW kind \in {"start", "stop", "restart", "retire"},
           NEW c \in Controls \union {Nobody}, Command(l, kind, c)
    PROVE  /\ op' \in [Launchers -> OpType] /\ Others(l) /\ op'[l].at = "lane"
           /\ op'[l].kind = kind /\ op'[l].c = c /\ op'[l].gen = 0
BY ControlAssumption DEF OpTypes, OpType, Command, At, Others, Places

\* The launcher is through, and a pass that waits for it has its answer.
LEMMA ExitFacts ==
    ASSUME OpTypes, pass \in PassType, NEW l \in Launchers, NEW ok \in BOOLEAN, Exit(l, ok)
    PROVE  /\ op' \in [Launchers -> OpType] /\ Others(l) /\ op'[l] = Idle
           /\ pass' \in PassType /\ lane' = IF lane = l THEN Nobody ELSE lane
           /\ lane' \in Launchers \union {Nobody}
           /\ \/ pass' = pass /\ ~(pass.at = "wait" /\ pass.by = l)
              \/ /\ pass.at = "wait" /\ pass.by = l
                 /\ pass'.at = "store" /\ pass'.ok = ok /\ pass'.c = pass.c /\ pass'.by = l
<1>1. Idle \in OpType
  BY ControlAssumption DEF Idle, OpType, Places
<1>2. op' = [op EXCEPT ![l] = Idle]
  BY DEF Exit
<1> QED BY <1>1, <1>2 DEF OpTypes, Exit, Reply, Others, PassType

------------------------------------------------------------------------------
(* What the steps leave alone. *)

\* A step of the role's processes, and a step of a launcher that has taken the lane.
RoleStep == \E g \in Gens : Register(g) \/ BarrierTimeout(g) \/ RoleExits(g)
LaneStep(l) == LauncherStep(l) \/ SupervisorFails(l)

\* A step beside the launchers.
Aside ==
    \/ RoleStep \/ RetireResults \/ StoreResult \/ MoveRequest \/ KillPass
    \/ \E c \in Controls : Request(c) \/ Isolate(c) \/ Begin(c)

\* The actors of a step.
LEMMA Actors ==
    Next => \/ Aside \/ LauncherTimeout
            \/ \E l \in Launchers : \/ Start(l) \/ Stop(l) \/ RunLauncher(l)
                                    \/ TakeLane(l) \/ LaneStep(l) \/ KillLauncher(l)
BY DEF Next, Aside, RoleStep, LaneStep, PassStep

\* Steps beside the launchers change neither a launcher nor the lane.
LEMMA AsideFacts ==
    ASSUME Aside
    PROVE  UNCHANGED <<op, lane, stopped, policy, minted, cap>> /\ forked' \subseteq forked
BY DEF Aside, RoleStep, Register, BarrierTimeout, RoleExits, RetireResults, StoreResult,
       MoveRequest, KillPass, Request, Isolate, Begin, roleVars, ctlVars

\* Which steps touch the role, its policy, the requests and their results.
LEMMA Frame ==
    ASSUME Next
    PROVE  /\ \/ UNCHANGED roleVars \/ RoleStep
              \/ \E l \in Launchers : \/ Fence(l) \/ Signal(l) \/ Forget(l) \/ Mint(l)
                                      \/ Fork(l) \/ Release(l) \/ SupervisorFails(l)
           /\ UNCHANGED policy \/ \E l \in Launchers : Authorize(l) \/ Complete(l)
           /\ UNCHANGED request \/ MoveRequest \/ \E c \in Controls : Request(c) \/ Isolate(c)
           /\ \/ UNCHANGED <<result, consumed>> \/ RetireResults \/ StoreResult
              \/ \E c \in Controls : Begin(c)
           /\ UNCHANGED did \/ StoreResult \/ \E l \in Launchers : Signal(l) \/ Release(l)
           /\ UNCHANGED stopped \/ \E l \in Launchers : TakeLane(l) \/ Fence(l) \/ Forget(l)
           /\ UNCHANGED budget \/ \E what \in {"starts", "stops", "requests", "exits", "faults"} : Spend(what)
<1>1. RoleStep => UNCHANGED <<policy, ctlVars, did, stopped>>
                  /\ (UNCHANGED budget \/ Spend("exits"))
  BY DEF RoleStep, Register, BarrierTimeout, RoleExits, roleVars, ctlVars
<1>2. ASSUME NEW l \in Launchers
      PROVE  /\ Start(l) \/ Stop(l) => /\ UNCHANGED <<roleVars, policy, ctlVars, did, stopped>>
                                       /\ Spend("starts") \/ Spend("stops")
             /\ RunLauncher(l) => UNCHANGED <<roleVars, policy, request, result, consumed, did, stopped, budget>>
             /\ TakeLane(l) => UNCHANGED <<roleVars, policy, ctlVars, did, budget>>
             /\ KillLauncher(l) => /\ UNCHANGED <<roleVars, policy, request, result, consumed, did, stopped>>
                                   /\ Spend("faults")
  BY DEF Start, Stop, RunLauncher, TakeLane, KillLauncher
<1>3. ASSUME NEW l \in Launchers
      PROVE  /\ Look(l) \/ Ready(l) => UNCHANGED <<roleVars, policy, request, result, consumed, did, stopped, budget>>
             /\ Authorize(l) \/ Complete(l) => UNCHANGED <<roleVars, request, result, consumed, did, stopped, budget>>
             /\ Fence(l) \/ Forget(l) => UNCHANGED <<policy, request, result, consumed, did, budget>>
             /\ Signal(l) \/ Release(l) => UNCHANGED <<policy, request, result, consumed, stopped, budget>>
             /\ Mint(l) => UNCHANGED <<policy, request, result, consumed, did, stopped, budget>>
             /\ Fork(l) => UNCHANGED <<policy, ctlVars, did, stopped, budget>>
             /\ SupervisorFails(l) => /\ UNCHANGED <<policy, request, result, consumed, did, stopped>>
                                      /\ Spend("faults")
  BY DEF Look, Ready, Authorize, Complete, Fence, Forget, Signal, Release, Mint, Fork, SupervisorFails
<1>4. ASSUME NEW c \in Controls
      PROVE  /\ Request(c) => /\ UNCHANGED <<roleVars, policy, result, consumed, did, stopped>>
                              /\ Spend("requests")
             /\ Isolate(c) => UNCHANGED <<roleVars, policy, result, consumed, did, stopped, budget>>
             /\ Begin(c) => UNCHANGED <<roleVars, policy, request, did, stopped, budget>>
  BY DEF Request, Isolate, Begin
<1>5. /\ RetireResults => UNCHANGED <<roleVars, policy, request, did, stopped, budget>>
      /\ StoreResult => UNCHANGED <<roleVars, policy, request, stopped, budget>>
      /\ MoveRequest => UNCHANGED <<roleVars, policy, result, consumed, did, stopped, budget>>
      /\ LauncherTimeout \/ KillPass => /\ UNCHANGED <<roleVars, policy, request, result, consumed, did, stopped>>
                                        /\ Spend("faults")
  BY DEF RetireResults, StoreResult, MoveRequest, LauncherTimeout, KillPass
<1>6. Next => \/ RoleStep \/ RetireResults \/ StoreResult \/ MoveRequest \/ LauncherTimeout \/ KillPass
              \/ \E c \in Controls : Request(c) \/ Isolate(c) \/ Begin(c)
              \/ \E l \in Launchers : \/ Start(l) \/ Stop(l) \/ RunLauncher(l) \/ TakeLane(l) \/ KillLauncher(l)
                                      \/ Look(l) \/ Ready(l) \/ Authorize(l) \/ Complete(l) \/ Fence(l)
                                      \/ Forget(l) \/ Signal(l) \/ Release(l) \/ Mint(l) \/ Fork(l)
                                      \/ SupervisorFails(l)
  BY DEF Next, RoleStep, PassStep, LauncherStep
<1> QED BY <1>1, <1>2, <1>3, <1>4, <1>5, <1>6 DEF roleVars, ctlVars

------------------------------------------------------------------------------
(* Types. *)

\* Each step keeps the types of what concerns the role's processes.
LEMMA RoleTypesKept ==
    ASSUME IInv, Next
    PROVE  RoleTypes'
<1> DEFINE T(r, a, w, f, m, k) == /\ r \in 0..MaxGen /\ k \in 0..MaxGen /\ m \in 0..MaxGen
                                   /\ w \subseteq a /\ a \subseteq Gens /\ f \subseteq Gens
<1>0. T(record, alive, waiting, forked, minted, cap)
  BY TypeParts DEF IInv, RoleTypes, Lifecycles
<1>g. Gens \subseteq 0..MaxGen /\ 0 \in 0..MaxGen
  BY ControlAssumption DEF Gens
<1>1. ASSUME NEW g \in Gens, Register(g) PROVE RoleTypes'
  <2>1. CASE Live
    <3>1. UNCHANGED <<record, alive, waiting, minted, cap>> /\ forked' = forked \ {g}
      BY <1>1, <2>1 DEF Register
    <3> QED BY <1>0, <3>1 DEF RoleTypes, Lifecycles
  <2>2. CASE ~Live
    <3>1. /\ record' = g /\ alive' = alive \union {g} /\ waiting' = waiting \union {g}
          /\ forked' = forked \ {g} /\ minted' = minted /\ cap' = cap
      BY <1>1, <2>2 DEF Register
    <3> QED BY <1>0, <1>g, <3>1 DEF RoleTypes, Lifecycles
  <2> QED BY <2>1, <2>2
<1>2. ASSUME NEW g \in Gens, BarrierTimeout(g) \/ RoleExits(g) PROVE RoleTypes'
  <2>1. /\ UNCHANGED <<record, forked, minted, cap>> /\ alive' = alive \ {g}
        /\ waiting' = waiting \ {g} \/ (waiting' = waiting /\ g \notin waiting)
    BY <1>2 DEF BarrierTimeout, RoleExits, Running
  <2> QED BY <1>0, <2>1 DEF RoleTypes, Lifecycles
<1>3. ASSUME NEW l \in Launchers, Fence(l) PROVE RoleTypes'
  <2>1. UNCHANGED <<record, alive, waiting, forked, minted>> /\ cap' \in {0, cap}
    BY <1>3 DEF Fence
  <2> QED BY <1>0, <1>g, <2>1 DEF RoleTypes, Lifecycles
<1>4. ASSUME NEW l \in Launchers, Signal(l) PROVE RoleTypes'
  <2>1. /\ UNCHANGED <<record, forked, minted, cap>>
        /\ \E x : alive' = alive \ x /\ waiting' = waiting \ x
    <3>1. CASE record # Target(l)
      <4>1. UNCHANGED <<record, alive, waiting, forked, minted, cap>>
        BY <1>4, <3>1 DEF Signal
      <4>2. alive' = alive \ {} /\ waiting' = waiting \ {}
        BY <4>1
      <4> QED BY <4>1, <4>2
    <3>2. CASE record = Target(l)
      BY <1>4, <3>2 DEF Signal
    <3> QED BY <3>1, <3>2
  <2> QED BY <1>0, <2>1 DEF RoleTypes, Lifecycles
<1>5. ASSUME NEW l \in Launchers, Forget(l) PROVE RoleTypes'
  <2>1. UNCHANGED <<alive, waiting, forked, minted, cap>> /\ record' \in {0, record}
    BY <1>5 DEF Forget
  <2> QED BY <1>0, <1>g, <2>1 DEF RoleTypes, Lifecycles
<1>6. ASSUME NEW l \in Launchers, Mint(l) PROVE RoleTypes'
  <2>1. /\ UNCHANGED <<alive, waiting, forked>> /\ record' \in {0, record}
        /\ \/ UNCHANGED <<minted, cap>>
           \/ minted # MaxGen /\ minted' = minted + 1 /\ cap' = minted + 1
    BY <1>6 DEF Mint
  <2>2. minted # MaxGen => minted + 1 \in 0..MaxGen
    BY <1>0, ControlAssumption
  <2> QED BY <1>0, <1>g, <2>1, <2>2 DEF RoleTypes, Lifecycles
<1>7. ASSUME NEW l \in Launchers, Fork(l) PROVE RoleTypes'
  <2>1. op[l].gen \in 1..minted
    BY <1>7 DEF IInv, Stands, Fork, At, LaunchPlaces
  <2>2. op[l].gen \in Gens
    BY <1>0, <2>1, ControlAssumption DEF Gens
  <2>3. forked' = forked \union {op[l].gen} /\ UNCHANGED <<record, alive, waiting, minted, cap>>
    BY <1>7 DEF Fork
  <2> QED BY <1>0, <2>2, <2>3 DEF RoleTypes, Lifecycles
<1>8. ASSUME NEW l \in Launchers, Release(l) \/ SupervisorFails(l) PROVE RoleTypes'
  <2>1. UNCHANGED <<forked, minted>>
    BY <1>8 DEF Release, SupervisorFails
  <2>2. CASE Undo(l)
    <3>1. /\ cap' \in {0, cap} /\ record' \in {0, record}
          /\ alive' = alive \ {op[l].gen} /\ waiting' = waiting \ {op[l].gen}
      BY <2>2 DEF Undo
    <3> QED BY <1>0, <1>g, <2>1, <3>1 DEF RoleTypes, Lifecycles
  <2>3. CASE ~Undo(l)
    <3>1. waiting' = waiting \ {op[l].gen} /\ UNCHANGED <<record, alive, cap>>
      BY <1>8, <2>3 DEF Release, SupervisorFails
    <3> QED BY <1>0, <2>1, <3>1 DEF RoleTypes, Lifecycles
  <2> QED BY <2>2, <2>3
<1>9. CASE UNCHANGED roleVars
  BY <1>0, <1>9 DEF roleVars, RoleTypes, Lifecycles
<1> QED BY <1>1, <1>2, <1>3, <1>4, <1>5, <1>6, <1>7, <1>8, <1>9, Frame DEF RoleStep

\* What a step in the lane does: the launcher goes on, or it exits. An exit that reports
\* success does so for a control that is through: the generation it names is gone, and
\* the policy no longer waits for its replacement.
Walks(l) ==
    /\ op' \in [Launchers -> OpType] /\ Others(l) /\ InLane(l)'
    /\ op'[l].kind = op[l].kind /\ op'[l].c = op[l].c /\ UNCHANGED <<lane, pass>>
Through(c) == Gone(c) /\ (policy.last = c => policy.done # 0)

\* One more step of the command is a walk, and so is one that notes a generation.
LEMMA Steps ==
    ASSUME OpTypes, NEW l \in Launchers,
           NEW at \in {"look", "authorize", "fence", "signal", "forget", "mint", "fork", "go",
                       "ready", "complete"}, Step(l, at)
    PROVE  Walks(l) /\ op'[l].at = at /\ op'[l].gen = op[l].gen
BY GoFacts DEF Step, Walks, InLane, Places

LEMMA Leaps ==
    ASSUME OpTypes, NEW l \in Launchers, NEW at \in {"fence", "fork", "complete"},
           NEW g \in 0..MaxGen,
           op' = [op EXCEPT ![l].at = at, ![l].gen = g], UNCHANGED <<lane, pass>>
    PROVE  Walks(l) /\ op'[l].at = at /\ op'[l].gen = g
BY NamedFacts DEF Walks, InLane, Places

\* Every step in the lane is a walk or an exit, case by case of LauncherStep.
LEMMA LaneMoves ==
    ASSUME IInv, NEW l \in Launchers, LaneStep(l)
    PROVE  /\ InLane(l)
           /\ \/ Walks(l) /\ ~stopped'
              \/ Exit(l, FALSE)
              \/ Exit(l, TRUE) /\ (\A c \in Controls : c = op[l].c => Through(c)')
<1> DEFINE Fine == /\ InLane(l)
                   /\ \/ Walks(l) /\ ~stopped'
                      \/ Exit(l, FALSE)
                      \/ Exit(l, TRUE) /\ (\A c \in Controls : c = op[l].c => Through(c)')
<1> OpTypes /\ RoleTypes /\ Generations /\ Breaker BY TypeParts DEF IInv
<1> Commands(l) /\ Stands(l) BY DEF IInv
<1>n. Nobody \notin Controls
  BY ControlAssumption
<1>i. InLane(l) => ~stopped /\ op[l].kind # "none"
  BY DEF Commands, InLane
<1>c. /\ op[l].c \in Controls <=> op[l].kind \in {"restart", "retire"}
      /\ op[l].c \in Controls => op[l].kind = request[op[l].c].action
  BY <1>i, <1>n DEF Commands, OpTypes, OpType
<1>1. CASE Look(l)
  <2>0. /\ InLane(l) /\ op[l].kind \in {"stop", "restart"}
        /\ UNCHANGED <<roleVars, policy, request, stopped>>
    BY <1>1 DEF Look, At, InLane, Stands
  <2>1. CASE op[l].kind = "stop"
    <3>1. op' = [op EXCEPT ![l].at = "fence", ![l].gen = record] /\ UNCHANGED <<lane, pass>>
      BY <1>1, <2>1 DEF Look
    <3>2. record \in 0..MaxGen
      BY DEF RoleTypes, Lifecycles
    <3> QED BY <1>i, <2>0, <3>1, <3>2, Leaps
  <2>2. CASE op[l].kind # "stop"
    <3>1. \/ Step(l, "authorize") \/ Exit(l, FALSE) \/ Step(l, "fence")
          \/ Exit(l, TRUE) /\ Prepared(op[l].c) /\ policy.done # 0
          \/ op' = [op EXCEPT ![l].at = "complete", ![l].gen = record] /\ UNCHANGED <<lane, pass>>
      BY <1>1, <2>2 DEF Look
    <3>2. record \in 0..MaxGen
      BY DEF RoleTypes, Lifecycles
    <3>3. CASE op' = [op EXCEPT ![l].at = "complete", ![l].gen = record] /\ UNCHANGED <<lane, pass>>
      BY <1>i, <2>0, <3>2, <3>3, Leaps
    <3>4. CASE Exit(l, TRUE) /\ Prepared(op[l].c) /\ policy.done # 0
      BY <2>0, <3>4 DEF Breaker, Prepared, Through, Gone, Named, roleVars
    <3> QED BY <1>i, <2>0, <3>1, <3>3, <3>4, Steps
  <2> QED BY <2>1, <2>2
<1>2. CASE Authorize(l)
  <2>0. InLane(l) /\ UNCHANGED <<roleVars, request, stopped>>
    BY <1>2 DEF Authorize, At, InLane
  <2>1. \/ Exit(l, TRUE) /\ Prepared(op[l].c) /\ policy.done # 0 /\ policy' = policy
        \/ Step(l, "fence") \/ Exit(l, FALSE)
    BY <1>2 DEF Authorize
  <2>2. CASE Exit(l, TRUE) /\ Prepared(op[l].c) /\ policy.done # 0 /\ policy' = policy
    BY <2>0, <2>2 DEF Breaker, Prepared, Through, Gone, Named, roleVars
  <2> QED BY <1>i, <2>0, <2>1, <2>2, Steps
<1>3. CASE Fence(l)
  <2>0. /\ InLane(l) /\ UNCHANGED <<record, alive, forked, policy, request>>
        /\ stopped' = (op[l].kind = "stop" /\ record = 0)
    BY <1>3 DEF Fence, At, InLane
  <2>1. \/ Exit(l, FALSE)
        \/ record # 0 /\ Step(l, "signal")
        \/ record = 0 /\ op[l].kind = "restart" /\ Step(l, "mint")
        \/ record = 0 /\ op[l].kind # "restart" /\ Exit(l, TRUE)
    <3>1. CASE record = 0
      BY <1>3, <3>1 DEF Fence, AfterStop
    <3>2. CASE record # 0
      BY <1>3, <3>2 DEF Fence
    <3> QED BY <3>1, <3>2
  <2>2. CASE record = 0 /\ op[l].kind # "restart" /\ Exit(l, TRUE)
    <3>1. SUFFICES ASSUME NEW c \in Controls, c = op[l].c PROVE Through(c)'
      BY <2>0, <2>2
    <3>2. Named(op[l].c) \notin forked /\ Named(op[l].c) # 0 /\ alive \subseteq {0}
      BY <1>c, <2>2, <3>1, ControlAssumption DEF Generations, Commands, RoleTypes
    <3>3. 0 \notin alive
      BY ControlAssumption DEF RoleTypes, Gens
    <3>4. policy.last # op[l].c
      BY <1>c, <2>2, <3>1 DEF Breaker
    <3> QED BY <2>0, <2>2, <3>1, <3>2, <3>3, <3>4 DEF Through, Gone, Named
  <2> QED BY <2>0, <2>1, <2>2, Steps
<1>4. CASE Signal(l)
  <2>1. InLane(l) /\ stopped' = stopped /\ (Exit(l, FALSE) \/ Step(l, "forget"))
    BY <1>4 DEF Signal, At, InLane
  <2> QED BY <1>i, <2>1, Steps
<1>5. CASE Forget(l)
  <2>0. InLane(l) /\ UNCHANGED <<alive, forked, policy, request>>
    BY <1>5 DEF Forget, At, InLane
  <2>1. \/ Exit(l, FALSE)
        \/ op[l].kind = "restart" /\ Step(l, "mint") /\ ~stopped'
        \/ op[l].kind # "restart" /\ Exit(l, TRUE) /\ record' = 0
    BY <1>5 DEF Forget, AfterStop
  <2>2. CASE op[l].kind # "restart" /\ Exit(l, TRUE) /\ record' = 0
    <3>1. SUFFICES ASSUME NEW c \in Controls, c = op[l].c PROVE Through(c)'
      BY <2>0, <2>2
    <3>2. Named(op[l].c) \notin forked /\ Named(op[l].c) # 0
      BY <1>c, <3>1, ControlAssumption DEF Generations, Commands, RoleTypes
    <3>3. Named(op[l].c) \notin alive
      BY <1>5, <1>c, <3>1 DEF Forget, At, Stands, Target, Named
    <3>4. policy.last # op[l].c
      BY <1>c, <2>2, <3>1 DEF Breaker
    <3> QED BY <2>0, <2>2, <3>1, <3>2, <3>3, <3>4 DEF Through, Gone, Named
  <2> QED BY <2>0, <2>1, <2>2, Steps
<1>6. CASE Mint(l)
  <2>0. InLane(l) /\ stopped' = stopped
    BY <1>6 DEF Mint, At, InLane
  <2>1. minted \in 0..MaxGen
    BY DEF RoleTypes
  <2>2. CASE Live \/ minted = MaxGen
    BY <1>6, <1>c, <2>0, <2>2 DEF Mint
  <2>3. CASE ~Live /\ minted # MaxGen
    <3>1. op' = [op EXCEPT ![l].at = "fork", ![l].gen = minted + 1] /\ UNCHANGED <<lane, pass>>
      BY <1>6, <2>3 DEF Mint
    <3>2. minted + 1 \in 0..MaxGen
      BY <2>1, <2>3, ControlAssumption
    <3> QED BY <1>i, <2>0, <3>1, <3>2, Leaps
  <2> QED BY <2>2, <2>3
<1>7. CASE Fork(l)
  <2>1. InLane(l) /\ stopped' = stopped /\ Step(l, "go")
    BY <1>7 DEF Fork, At, InLane, Step, ctlVars
  <2> QED BY <1>i, <2>1, Steps
<1>8. CASE Release(l)
  <2>1. InLane(l) /\ stopped' = stopped /\ (Exit(l, FALSE) \/ Step(l, "ready"))
    BY <1>8 DEF Release, At, InLane, Undo
  <2> QED BY <1>i, <2>1, Steps
<1>9. CASE Ready(l)
  <2>1. /\ InLane(l) /\ stopped' = stopped
        /\ Exit(l, FALSE) \/ Step(l, "complete") \/ (op[l].kind = "start" /\ Exit(l, TRUE))
    <3>1. InLane(l) /\ stopped' = stopped
      BY <1>9 DEF Ready, At, InLane
    <3>2. Exit(l, FALSE) \/ Step(l, "complete") \/ (op[l].kind = "start" /\ Exit(l, TRUE))
      BY <1>9 DEF Ready
    <3> QED BY <3>1, <3>2
  <2> QED BY <1>c, <1>i, <2>1, Steps
<1>10. CASE Complete(l)
  <2>0. InLane(l) /\ UNCHANGED <<roleVars, request>>
    BY <1>10 DEF Complete, At, InLane
  <2>1. Gone(op[l].c) /\ op[l].gen # 0
    BY <1>10, ControlAssumption DEF Complete, At, Stands, LaunchPlaces, RoleTypes
  <2>2. CASE Prepared(op[l].c) /\ policy.done \in {0, op[l].gen}
    <3>1. policy' = [policy EXCEPT !.done = op[l].gen] /\ Exit(l, TRUE)
      BY <1>10, <2>2 DEF Complete
    <3>2. policy'.done = op[l].gen
      BY <3>1, TypeParts DEF IInv, ControlTypes, Policies
    <3> QED BY <2>0, <2>1, <3>1, <3>2 DEF Through, Gone, Named, roleVars
  <2>3. CASE ~(Prepared(op[l].c) /\ policy.done \in {0, op[l].gen})
    BY <1>10, <2>0, <2>3 DEF Complete
  <2> QED BY <2>2, <2>3
<1>11. CASE SupervisorFails(l)
  BY <1>11 DEF SupervisorFails, Undo, At, InLane
<1> QED
  BY <1>1, <1>2, <1>3, <1>4, <1>5, <1>6, <1>7, <1>8, <1>9, <1>10, <1>11 DEF LaneStep, LauncherStep

\* A launcher that takes the lane looks, fences or mints, as its command says.
LEMMA TakeFacts ==
    ASSUME OpTypes, NEW l \in Launchers, TakeLane(l)
    PROVE  /\ op' \in [Launchers -> OpType] /\ Others(l)
           /\ op'[l].kind = op[l].kind /\ op'[l].c = op[l].c
           /\ op'[l].at = CASE op[l].kind = "start" -> "mint"
                            [] op[l].kind = "retire" -> "fence" [] OTHER -> "look"
           /\ At(l, "lane") /\ lane' = l /\ ~stopped'
           /\ UNCHANGED <<roleVars, policy, ctlVars>>
<1> DEFINE at == CASE op[l].kind = "start" -> "mint" [] op[l].kind = "retire" -> "fence" [] OTHER -> "look"
<1>1. at \in Places
  BY DEF Places
<1>2. Go(l, at) /\ At(l, "lane") /\ lane' = l /\ ~stopped' /\ UNCHANGED <<roleVars, policy, ctlVars>>
  BY DEF TakeLane
<1> HIDE DEF at
<1>3. op' \in [Launchers -> OpType] /\ Others(l) /\ op'[l].kind = op[l].kind /\ op'[l].c = op[l].c /\ op'[l].at = at
  BY <1>1, <1>2, GoFacts
<1> QED BY <1>2, <1>3 DEF at

\* A launcher that exits, or is killed with the pass that waits for it.
LEMMA TimeoutFacts ==
    ASSUME IInv, LauncherTimeout
    PROVE  /\ pass.by \in Launchers /\ op' = [op EXCEPT ![pass.by] = Idle]
           /\ op' \in [Launchers -> OpType] /\ Others(pass.by) /\ op'[pass.by] = Idle
           /\ lane' \in Launchers \union {Nobody}
           /\ \A m \in Launchers \ {pass.by} : lane = m => lane' = m
           /\ pass' = Resting
           /\ UNCHANGED <<roleVars, policy, request, stopped>>
<1>1. Idle \in OpType /\ OpTypes
  BY ControlAssumption, TypeParts DEF Idle, OpType, Places, IInv
<1> QED BY <1>1 DEF LauncherTimeout, IInv, Passing, OpTypes, Others

\* The pass at rest is a pass.
LEMMA RestingFact == Resting \in PassType
BY DEF Resting, PassType

\* A launcher that the pass starts carries the pass's control.
LEMMA RunFacts ==
    ASSUME IInv, NEW l \in Launchers, RunLauncher(l)
    PROVE  /\ pass.c \in Controls /\ Known(pass.c)
           /\ op' \in [Launchers -> OpType] /\ Others(l) /\ op'[l].at = "lane" /\ op'[l].c = pass.c
           /\ op'[l].kind = request[pass.c].action /\ op'[l].kind \in {"restart", "retire"}
           /\ pass.at = "run" /\ pass' = [pass EXCEPT !.at = "wait", !.by = l]
           /\ At(l, "idle") /\ UNCHANGED <<roleVars, policy, request, lane, stopped>>
<1>1. OpTypes /\ request \in [Controls -> Requests]
  BY TypeParts DEF IInv, ControlTypes
<1>2. /\ pass.at = "run" /\ Command(l, request[pass.c].action, pass.c)
      /\ pass' = [pass EXCEPT !.at = "wait", !.by = l]
      /\ UNCHANGED <<roleVars, policy, request, lane, stopped>>
  BY DEF RunLauncher
<1>3. pass.c \in Controls /\ Known(pass.c) /\ request[pass.c].action \in {"restart", "retire"}
  BY <1>1, <1>2 DEF IInv, Passing, Requests
<1>4. At(l, "idle")
  BY <1>2 DEF Command
<1> QED BY <1>1, <1>2, <1>3, <1>4, CommandFacts

\* A start or a stop carries none.
LEMMA HumanFacts ==
    ASSUME OpTypes, NEW l \in Launchers, Start(l) \/ Stop(l)
    PROVE  /\ op' \in [Launchers -> OpType] /\ Others(l) /\ op'[l].at = "lane" /\ op'[l].c = Nobody
           /\ op'[l].kind \in {"start", "stop"} /\ At(l, "idle")
           /\ UNCHANGED <<roleVars, policy, ctlVars, lane, stopped>>
<1>1. /\ Command(l, "start", Nobody) \/ Command(l, "stop", Nobody)
      /\ UNCHANGED <<roleVars, policy, ctlVars, lane, stopped>>
  BY DEF Start, Stop
<1>2. At(l, "idle")
  BY <1>1 DEF Command
<1> QED BY <1>1, <1>2, CommandFacts

\* Each step keeps the types of the launchers and of the pass.
LEMMA OpTypesKept ==
    ASSUME IInv, Next
    PROVE  OpTypes' /\ pass' \in PassType
<1> OpTypes /\ pass \in PassType BY TypeParts DEF IInv
<1>1. CASE Aside
  <2>1. UNCHANGED <<op, lane>>
    BY <1>1, AsideFacts
  <2>2. CASE UNCHANGED pass
    BY <2>1, <2>2 DEF OpTypes
  <2>3. CASE RetireResults \/ StoreResult \/ MoveRequest \/ KillPass
    BY <2>1, <2>3, RestingFact DEF RetireResults, StoreResult, MoveRequest, KillPass, OpTypes, PassType
  <2>4. ASSUME NEW c \in Controls, Begin(c) PROVE pass' \in PassType
    BY <2>4 DEF Begin, Resting, PassType
  <2>5. UNCHANGED pass \/ RetireResults \/ StoreResult \/ MoveRequest \/ KillPass
        \/ \E c \in Controls : Begin(c)
    BY <1>1 DEF Aside, RoleStep, Register, BarrierTimeout, RoleExits, Request, Isolate, ctlVars
  <2> QED BY <2>1, <2>2, <2>3, <2>4, <2>5 DEF OpTypes
<1>2. CASE LauncherTimeout
  BY <1>2, TimeoutFacts, RestingFact DEF OpTypes
<1>3. ASSUME NEW l \in Launchers, Start(l) \/ Stop(l) PROVE OpTypes' /\ pass' \in PassType
  BY <1>3, HumanFacts DEF OpTypes, ctlVars
<1>4. ASSUME NEW l \in Launchers, RunLauncher(l) PROVE OpTypes' /\ pass' \in PassType
  <2>1. pass' \in PassType
    BY <1>4, RunFacts DEF PassType
  <2> QED BY <1>4, <2>1, RunFacts DEF OpTypes
<1>5. ASSUME NEW l \in Launchers, TakeLane(l) PROVE OpTypes' /\ pass' \in PassType
  BY <1>5, TakeFacts DEF OpTypes, ctlVars
<1>6. ASSUME NEW l \in Launchers, LaneStep(l) PROVE OpTypes' /\ pass' \in PassType
  BY <1>6, LaneMoves, ExitFacts DEF OpTypes, Walks
<1>7. ASSUME NEW l \in Launchers, KillLauncher(l) PROVE OpTypes' /\ pass' \in PassType
  BY <1>7, ExitFacts DEF KillLauncher, OpTypes
<1> QED BY <1>1, <1>2, <1>3, <1>4, <1>5, <1>6, <1>7, Actors

\* A request stays what it was first made: its action and the generation it names.
LEMMA RequestsStand ==
    ASSUME IInv, Next, NEW c \in Controls
    PROVE  /\ Known(c) => Known(c)' /\ Named(c)' = Named(c) /\ request'[c].action = request[c].action
           /\ ~Known(c) /\ Known(c)' => Named(c)' = record /\ record # 0
<1> DEFINE Same == /\ Known(c) => Known(c)' /\ Named(c)' = Named(c) /\ request'[c].action = request[c].action
                   /\ ~Known(c) /\ Known(c)' => Named(c)' = record /\ record # 0
<1> USE DEF Known, Named
<1> request \in [Controls -> Requests] /\ Passing BY DEF IInv, TypeOK
<1>1. ASSUME NEW b \in Controls, Request(b) PROVE Same
  BY <1>1 DEF Request, Requests
<1>2. ASSUME NEW b \in Controls, Isolate(b) PROVE Same
  BY <1>2 DEF Isolate, Requests
<1>3. CASE MoveRequest
  BY <1>3 DEF MoveRequest, Requests, Passing
<1> QED BY <1>1, <1>2, <1>3, Frame

\* Each step keeps the types of the policy, the requests, their results and the bounds.
LEMMA ControlTypesKept ==
    ASSUME IInv, Next
    PROVE  ControlTypes' /\ BudgetType'
<1> /\ OpTypes /\ RoleTypes /\ BudgetType /\ Passing /\ policy \in Policies
    /\ request \in [Controls -> Requests] /\ result \in [Controls -> Results]
    /\ consumed \subseteq Controls
    /\ did \subseteq Controls \X {"signal", "launch", "completed"} \X Gens /\ stopped \in BOOLEAN
  BY TypeParts DEF IInv, ControlTypes
<1>1. policy' \in Policies
  <2>1. ASSUME NEW l \in Launchers, Authorize(l) PROVE policy' \in Policies
    <3>1. policy' = policy \/ policy' = [last |-> op[l].c, count |-> policy.count + 1, done |-> 0]
      BY <2>1 DEF Authorize
    <3>2. policy.count + 1 \in Nat /\ 0 \in 0..MaxGen
      BY ControlAssumption DEF Policies
    <3> QED BY <3>1, <3>2 DEF Policies, OpTypes, OpType, Lifecycles
  <2>2. ASSUME NEW l \in Launchers, Complete(l) PROVE policy' \in Policies
    <3>1. policy' = policy \/ policy' = [policy EXCEPT !.done = op[l].gen]
      BY <2>2 DEF Complete
    <3> QED BY <3>1 DEF Policies, OpTypes, OpType, Lifecycles
  <2> QED BY <2>1, <2>2, Frame
<1>2. request' \in [Controls -> Requests]
  <2>0. ASSUME NEW c \in Controls, NEW at \in {"none", "pending", "done", "failed"},
               request' = [request EXCEPT ![c].at = at]
        PROVE  request' \in [Controls -> Requests]
    BY <2>0 DEF Requests
  <2>1. ASSUME NEW c \in Controls, Request(c) PROVE request' \in [Controls -> Requests]
    <3>1. ASSUME NEW a \in {"restart", "retire"},
                 request' = [request EXCEPT ![c] = [action |-> a, expected |-> record, at |-> "pending"]]
          PROVE  request' \in [Controls -> Requests]
      <4>1. [action |-> a, expected |-> record, at |-> "pending"] \in Requests
        BY DEF RoleTypes, Requests
      <4> QED BY <3>1, <4>1
    <3> QED BY <2>0, <2>1, <3>1 DEF Request
  <2>2. ASSUME NEW c \in Controls, Isolate(c) PROVE request' \in [Controls -> Requests]
    BY <2>0, <2>2 DEF Isolate
  <2>3. CASE MoveRequest
    <3>1. pass.c \in Controls
      BY <2>3 DEF MoveRequest, Passing
    <3>2. \E at \in {"done", "failed"} : request' = [request EXCEPT ![pass.c].at = at]
      BY <2>3 DEF MoveRequest
    <3> QED BY <2>0, <3>1, <3>2
  <2> QED BY <2>1, <2>2, <2>3, Frame
<1>3. result' \in [Controls -> Results] /\ consumed' \subseteq Controls
  <2>1. ASSUME NEW c \in Controls, Begin(c) PROVE result' = result /\ consumed' \subseteq Controls
    BY <2>1 DEF Begin, Resulted
  <2>2. CASE RetireResults
    BY <2>2 DEF RetireResults, Results
  <2>3. CASE StoreResult
    BY <2>3 DEF StoreResult, Results
  <2> QED BY <2>1, <2>2, <2>3, Frame
<1>4. did' \subseteq Controls \X {"signal", "launch", "completed"} \X Gens
  <2>1. ASSUME NEW l \in Launchers, Signal(l)
        PROVE  did' \subseteq Controls \X {"signal", "launch", "completed"} \X Gens
    <3>1. \/ did' = did
          \/ record \in alive /\ op[l].c # Nobody /\ did' = did \union {<<op[l].c, "signal", record>>}
      BY <2>1 DEF Signal, Live
    <3> QED BY <3>1 DEF OpTypes, OpType, RoleTypes
  <2>2. ASSUME NEW l \in Launchers, Release(l)
        PROVE  did' \subseteq Controls \X {"signal", "launch", "completed"} \X Gens
    <3>1. \/ did' = did
          \/ /\ op[l].gen \in waiting /\ op[l].c # Nobody
             /\ did' = did \union {<<op[l].c, "launch", op[l].gen>>}
      BY <2>2 DEF Release
    <3> QED BY <3>1 DEF OpTypes, OpType, RoleTypes
  <2>3. CASE StoreResult
    <3>1. pass.c \in Controls /\ Known(pass.c)
      BY <2>3 DEF StoreResult, Passing
    <3>2. Named(pass.c) \in Gens
      BY <3>1, ControlAssumption DEF IInv, Generations, RoleTypes, Gens
    <3>3. did' = did \/ did' = did \union {<<pass.c, "completed", Named(pass.c)>>}
      BY <2>3 DEF StoreResult, Named
    <3> QED BY <3>1, <3>2, <3>3
  <2> QED BY <2>1, <2>2, <2>3, Frame
<1>5. stopped' \in BOOLEAN
  BY Frame DEF TakeLane, Fence, Forget
<1>6. BudgetType'
  BY Frame DEF Spend, BudgetType
<1> QED BY <1>1, <1>2, <1>3, <1>4, <1>5, <1>6 DEF ControlTypes

------------------------------------------------------------------------------
(* Generations. *)

\* How generations move in a step: only a forked one comes to life, only a minted one
\* is forked, and only one that registers gets the record.
LEMMA GenerationsMove ==
    ASSUME IInv, Next
    PROVE  /\ minted <= minted' /\ minted' \in Nat
           /\ \A g \in forked' : g \in forked \/ \E m \in Launchers : At(m, "fork") /\ g = op[m].gen
           /\ \A g \in alive' : g \in alive \/ g \in forked
           /\ record' = 0 \/ record' = record \/ record' \in forked
<1> DEFINE Move == /\ minted <= minted' /\ minted' \in Nat
                   /\ \A g \in forked' : g \in forked \/ \E m \in Launchers : At(m, "fork") /\ g = op[m].gen
                   /\ \A g \in alive' : g \in alive \/ g \in forked
                   /\ record' = 0 \/ record' = record \/ record' \in forked
<1> minted \in Nat BY ControlAssumption DEF IInv, TypeOK
<1>1. ASSUME NEW g \in Gens, Register(g) \/ BarrierTimeout(g) \/ RoleExits(g) PROVE Move
  BY <1>1 DEF Register, BarrierTimeout, RoleExits
<1>2. ASSUME NEW l \in Launchers, Fence(l) PROVE Move
  <2>1. UNCHANGED <<record, alive, forked, minted>>
    BY <1>2 DEF Fence
  <2> QED BY <2>1
<1>3. ASSUME NEW l \in Launchers, Signal(l) PROVE Move
  <2>1. alive' \subseteq alive /\ UNCHANGED <<record, forked, minted>>
    BY <1>3 DEF Signal
  <2> QED BY <2>1
<1>4. ASSUME NEW l \in Launchers, Forget(l) PROVE Move
  <2>1. (record' = 0 \/ record' = record) /\ UNCHANGED <<alive, forked, minted>>
    BY <1>4 DEF Forget
  <2> QED BY <2>1
<1>5. ASSUME NEW l \in Launchers, Mint(l) PROVE Move
  <2>1. /\ record' = 0 \/ record' = record
        /\ minted' = minted \/ minted' = minted + 1
        /\ UNCHANGED <<alive, forked>>
    BY <1>5 DEF Mint
  <2> QED BY <2>1
<1>6. ASSUME NEW l \in Launchers, Fork(l) PROVE Move
  BY <1>6 DEF Fork
<1>7. ASSUME NEW l \in Launchers, Release(l) \/ SupervisorFails(l) PROVE Move
  <2>1. /\ record' = 0 \/ record' = record
        /\ alive' \subseteq alive /\ UNCHANGED <<minted, forked>>
    BY <1>7 DEF Release, SupervisorFails, Undo
  <2> QED BY <2>1
<1> QED BY <1>1, <1>2, <1>3, <1>4, <1>5, <1>6, <1>7, Frame DEF RoleStep, roleVars

\* A generation that is gone never comes back.
LEMMA GoneStays ==
    ASSUME IInv, Next, NEW c \in Controls, Known(c), Gone(c)
    PROVE  Gone(c)'
<1>1. Named(c)' = Named(c)
  BY RequestsStand
<1>2. Named(c) # 0 /\ Named(c) \notin forked
  BY ControlAssumption DEF IInv, Generations, TypeOK
<1>3. \A l \in Launchers : At(l, "fork") => op[l].gen # Named(c)
  BY DEF IInv, Stands, At
<1> QED BY <1>1, <1>2, <1>3, GenerationsMove DEF Gone

\* The generation a request names was registered before: none names one still to come.
LEMMA NamesKept ==
    ASSUME IInv, Next, NEW c \in Controls, Known(c)'
    PROVE  Named(c)' \in (1..minted') \ forked'
<1>0. minted \in Nat /\ record \in Nat
  BY ControlAssumption DEF IInv, TypeOK, Lifecycles
<1>1. CASE Known(c)
  <2>1. Named(c)' = Named(c) /\ Named(c) \in 1..minted /\ Named(c) \notin forked
    BY <1>1, RequestsStand DEF IInv, Generations
  <2>2. \A l \in Launchers : At(l, "fork") => op[l].gen # Named(c)
    BY <1>1 DEF IInv, Stands, At
  <2> QED BY <1>0, <2>1, <2>2, GenerationsMove
<1>2. CASE ~Known(c)
  <2>1. Named(c)' = record /\ record # 0
    BY <1>2, RequestsStand
  <2>2. record \in 1..minted /\ record \notin forked
    BY <1>0, <2>1 DEF IInv, Generations
  <2>3. \A l \in Launchers : At(l, "fork") => op[l].gen # record
    BY DEF IInv, Stands, At
  <2> QED BY <1>0, <2>1, <2>2, <2>3, GenerationsMove
<1> QED BY <1>1, <1>2

\* The launcher that is in the lane is the only one.
LEMMA OthersWait ==
    ASSUME IInv, NEW l \in Launchers, InLane(l), NEW m \in Launchers \ {l}
    PROVE  ~InLane(m)
BY DEF IInv, Commands

\* Each step keeps what Generations says of the record, the processes and the capability.
LEMMA GenerationsKept ==
    ASSUME IInv, Next
    PROVE  Generations'
<1> DEFINE Rest == /\ record <= minted /\ cap <= minted
                   /\ alive \subseteq 1..minted /\ forked \subseteq 1..minted
                   /\ alive \subseteq {record} /\ record \notin forked
                   /\ \A g \in Running : cap \in {0, g}
                   /\ stopped => Running = {} /\ cap = 0
<1> Rest BY DEF IInv, Generations
<1> minted \in Nat /\ record \in Nat /\ cap \in Nat /\ waiting \subseteq alive
  BY ControlAssumption DEF IInv, TypeOK, Lifecycles
<1> \A l \in Launchers : Commands(l) /\ Stands(l) BY DEF IInv
<1>s. \A l \in Launchers : LaneStep(l) => ~stopped
  BY LaneMoves DEF Commands
<1>f. ASSUME minted' = minted, forked' \subseteq forked, cap' \in {0, cap}, alive' \subseteq alive,
             Running' \subseteq Running, stopped' => stopped,
             record' = record \/ (record' = 0 /\ alive' = {})
      PROVE  Rest'
  <2>1. stopped' => Running' = {} /\ cap' = 0
    BY <1>f
  <2>2. \A g \in Running' : cap' \in {0, g}
    BY <1>f
  <2>3. alive' \subseteq {record'} /\ record' \notin forked' /\ record' <= minted'
    BY <1>f
  <2>4. cap' <= minted' /\ alive' \subseteq 1..minted' /\ forked' \subseteq 1..minted'
    BY <1>f
  <2> QED BY <2>1, <2>2, <2>3, <2>4
<1>1. ASSUME NEW g \in Gens, Register(g) PROVE Rest'
  <2>1. forked' = forked \ {g} /\ UNCHANGED <<minted, cap, stopped>> /\ g \in forked
    BY <1>1 DEF Register
  <2>2. CASE Live
    <3>1. UNCHANGED <<record, alive, waiting>>
      BY <1>1, <2>2 DEF Register
    <3> QED BY <2>1, <3>1 DEF Running
  <2>3. CASE ~Live
    <3>1. record' = g /\ alive' = alive \union {g} /\ waiting' = waiting \union {g}
      BY <1>1, <2>3 DEF Register
    <3>2. alive = {}
      BY <2>3 DEF Live
    <3>3. Running' = {}
      BY <3>1, <3>2 DEF Running
    <3> QED BY <2>1, <3>1, <3>2, <3>3
  <2> QED BY <2>2, <2>3
<1>2. ASSUME NEW g \in Gens, BarrierTimeout(g) \/ RoleExits(g) PROVE Rest'
  <2>1. UNCHANGED <<record, forked, minted, cap, stopped>> /\ alive' = alive \ {g}
    BY <1>2 DEF BarrierTimeout, RoleExits
  <2>2. Running' \subseteq Running
    BY <1>2 DEF BarrierTimeout, RoleExits, Running
  <2> QED BY <1>f, <2>1, <2>2
<1>3. ASSUME NEW l \in Launchers, Fence(l) PROVE Rest'
  <2>1. UNCHANGED <<record, alive, waiting, forked, minted>> /\ cap' \in {0, cap}
    BY <1>3 DEF Fence
  <2>2. CASE op[l].kind = "stop" /\ record = 0
    <3>1. cap' = 0 /\ alive = {}
      BY <1>3, <2>2, ControlAssumption DEF Fence
    <3> QED BY <2>1, <3>1 DEF Running
  <2>3. CASE ~(op[l].kind = "stop" /\ record = 0)
    <3>1. ~stopped'
      BY <1>3, <2>3 DEF Fence
    <3> QED BY <2>1, <3>1 DEF Running
  <2> QED BY <2>2, <2>3
<1>4. ASSUME NEW l \in Launchers, Signal(l) PROVE Rest'
  <2>1. /\ UNCHANGED <<record, forked, minted, cap, stopped>>
        /\ \/ UNCHANGED <<alive, waiting>>
           \/ alive' = alive \ {record} /\ waiting' = waiting \ {record}
    BY <1>4 DEF Signal
  <2> QED BY <2>1 DEF Running
<1>5. ASSUME NEW l \in Launchers, Forget(l) PROVE Rest'
  <2>1. /\ UNCHANGED <<alive, waiting, forked, minted, cap>>
        /\ \/ UNCHANGED <<record, stopped>>
           \/ record = Target(l) /\ record' = 0
    BY <1>5 DEF Forget
  <2>2. cap = 0 /\ Target(l) \notin alive
    BY <1>5 DEF Forget, At, Stands
  <2>3. CASE UNCHANGED <<record, stopped>>
    BY <2>1, <2>3 DEF Running
  <2>4. CASE record = Target(l) /\ record' = 0
    <3>1. alive = {} /\ 0 \notin forked
      BY <2>2, <2>4
    <3> QED BY <2>1, <2>2, <2>4, <3>1 DEF Running
  <2> QED BY <2>1, <2>3, <2>4
<1>6. ASSUME NEW l \in Launchers, Mint(l) PROVE Rest'
  <2>1. ~stopped /\ stopped' = stopped /\ UNCHANGED <<alive, waiting, forked>>
    BY <1>6, <1>s DEF Mint, LaneStep, LauncherStep
  <2>2. CASE Live
    <3>1. UNCHANGED <<record, minted, cap>>
      BY <1>6, <2>2 DEF Mint
    <3> QED BY <2>1, <3>1 DEF Running
  <2>3. CASE ~Live
    <3>1. alive = {} /\ Running' = {}
      BY <2>1, <2>3 DEF Live, Running
    <3>2. /\ record' = 0
          /\ UNCHANGED <<minted, cap>> \/ (minted' = minted + 1 /\ cap' = minted + 1)
      BY <1>6, <2>3 DEF Mint
    <3>3. forked \subseteq 1..minted'
      BY <3>2
    <3> QED BY <2>1, <3>1, <3>2, <3>3
  <2> QED BY <2>2, <2>3
<1>7. ASSUME NEW l \in Launchers, Fork(l) PROVE Rest'
  <2>1. op[l].gen \in 1..minted /\ op[l].gen # record
    BY <1>7 DEF Fork, At, Stands, LaunchPlaces
  <2>2. forked' = forked \union {op[l].gen} /\ UNCHANGED <<record, alive, waiting, minted, cap, stopped>>
    BY <1>7 DEF Fork
  <2> QED BY <2>1, <2>2 DEF Running
<1>8. ASSUME NEW l \in Launchers, Release(l) \/ SupervisorFails(l) PROVE Rest'
  <2>1. ~stopped /\ UNCHANGED <<stopped, forked, minted>>
    BY <1>8, <1>s DEF Release, SupervisorFails, LaneStep, LauncherStep
  <2>2. CASE Undo(l)
    <3>1. /\ cap' \in {0, cap} /\ alive' = alive \ {op[l].gen} /\ waiting' = waiting \ {op[l].gen}
          /\ record' = record \/ (record = op[l].gen /\ record' = 0)
      BY <2>2 DEF Undo
    <3>2. Running' \subseteq Running
      BY <3>1 DEF Running
    <3>3. record = op[l].gen => alive' = {}
      BY <3>1
    <3> QED BY <1>f, <2>1, <3>1, <3>2, <3>3
  <2>3. CASE ~Undo(l)
    <3>1. cap = op[l].gen /\ record = op[l].gen
      BY <1>8, <2>3 DEF Release, SupervisorFails, At, Stands
    <3>2. waiting' = waiting \ {op[l].gen} /\ UNCHANGED <<record, alive, cap>>
      BY <1>8, <2>3 DEF Release, SupervisorFails
    <3> QED BY <2>1, <3>1, <3>2 DEF Running
  <2> QED BY <2>2, <2>3
<1>9. ASSUME UNCHANGED roleVars, \A l \in Launchers : ~Fence(l) /\ ~Forget(l) PROVE Rest'
  <2>1. UNCHANGED <<record, alive, forked, minted, cap>> /\ Running' = Running
    BY <1>9 DEF roleVars, Running
  <2>2. stopped' => stopped
    BY <1>9, Frame DEF TakeLane
  <2> QED BY <1>f, <2>1, <2>2
<1>10. Rest'
  <2> HIDE DEF Rest
  <2>1. RoleStep => Rest'
    BY <1>1, <1>2 DEF RoleStep
  <2>2. (\E l \in Launchers : \/ Fence(l) \/ Signal(l) \/ Forget(l) \/ Mint(l)
                              \/ Fork(l) \/ Release(l) \/ SupervisorFails(l)) => Rest'
    BY <1>3, <1>4, <1>5, <1>6, <1>7, <1>8
  <2> QED BY <1>9, <2>1, <2>2, Frame
<1> QED BY <1>10, NamesKept DEF Generations

------------------------------------------------------------------------------
(* The launchers. *)

\* A launcher outside the lane holds nothing that a step of another could break, and so
\* does one that the step leaves alone.
LEMMA StandsOut ==
    ASSUME NEW m \in Launchers, ~InLane(m)'
    PROVE  Stands(m)'
BY DEF Stands, InLane, StopPlaces, LaunchPlaces

\* A launcher that did not move stands as it stood: what it relies on is out of reach.
LEMMA StandsStill ==
    ASSUME IInv, Next, NEW m \in Launchers, op'[m] = op[m],
           UNCHANGED <<cap, policy, minted>>, forked' \subseteq forked
    PROVE  Stands(m)'
<1> DEFINE o == op[m]
<1>1. /\ Stands(m) /\ Commands(m) /\ o' = o
  BY DEF IInv
<1>2. o.kind \in {"restart", "retire"} => o.c \in Controls /\ Known(o.c) /\ Known(o.c)' /\ Target(m)' = Target(m)
  BY <1>1, RequestsStand DEF Commands, Target, Named
<1>3. ASSUME o.kind = "restart", Gone(o.c) PROVE Gone(o.c)'
  <2>1. \A c \in Controls : Known(c) /\ Gone(c) => Gone(c)'
    BY GoneStays
  <2> QED BY <1>1, <1>2, <1>3, <2>1 DEF Gone, Named
<1>4. o.at = "forget" => Target(m)' \notin alive'
  <2>1. ASSUME o.at = "forget" PROVE Target(m) \notin forked /\ Target(m) \notin alive /\ Target(m)' = Target(m)
    <3>1. o.kind \in {"stop", "restart", "retire"}
      BY <1>1, <2>1 DEF Stands, StopPlaces
    <3>2. CASE o.kind = "stop"
      BY <1>1, <2>1, <3>2 DEF Stands, StopPlaces, Target
    <3>3. CASE o.kind # "stop"
      BY <1>1, <1>2, <2>1, <3>1, <3>3 DEF Stands, Target, IInv, Generations, Named
    <3> QED BY <3>2, <3>3
  <2> QED BY <2>1, GenerationsMove
<1>5. o.at = "fork" => /\ o.gen \notin alive' \union forked' \union {record'}
                       /\ \A c \in Controls : Known(c)' => Named(c)' # o.gen
  <2>1. SUFFICES ASSUME o.at = "fork" PROVE /\ o.gen \notin alive' \union forked' \union {record'}
                                            /\ \A c \in Controls : Known(c)' => Named(c)' # o.gen
    OBVIOUS
  <2>2. /\ o.gen \notin alive \union forked \union {record} /\ o.gen # 0
        /\ \A c \in Controls : Known(c) => Named(c) # o.gen
    BY <1>1, <2>1, ControlAssumption DEF Stands, LaunchPlaces, IInv, TypeOK
  <2> QED BY <2>2, GenerationsMove, RequestsStand
<1>6. o.kind = "restart" => (Prepared(o.c)' <=> Prepared(o.c))
  BY <1>1 DEF Prepared
<1> QED BY <1>1, <1>2, <1>3, <1>4, <1>5, <1>6 DEF Stands, StopPlaces, LaunchPlaces, Prepared, Gone, Named

\* The generation a launching restart replaces stays gone.
LEMMA GoneFor ==
    ASSUME IInv, Next, NEW l \in Launchers, op[l].kind = "restart", op[l].at \in LaunchPlaces,
           op'[l].c = op[l].c
    PROVE  Gone(op[l].c)'
<1>1. op[l].c \in Controls /\ Known(op[l].c) /\ Gone(op[l].c)
  BY DEF IInv, Commands, Stands
<1>2. \A c \in Controls : Known(c) /\ Gone(c) => Gone(c)'
  BY GoneStays
<1> QED BY <1>1, <1>2 DEF Gone, Named

\* Where a launcher stands after its own step.
LEMMA StandsNext ==
    ASSUME IInv, Next, NEW l \in Launchers, LaneStep(l), InLane(l)'
    PROVE  Stands(l)'
<1> DEFINE o == op[l]
<1> /\ OpTypes /\ RoleTypes /\ pass \in PassType /\ Generations /\ Stands(l) /\ Commands(l)
  BY TypeParts DEF IInv
<1>t. /\ minted \in Nat /\ record \in 0..MaxGen /\ o.gen \in 0..MaxGen /\ 0 \notin alive
  BY ControlAssumption DEF RoleTypes, Lifecycles, Gens, OpTypes, OpType
<1>c. /\ o.kind \in {"restart", "retire"} =>
           /\ o.c \in Controls /\ Known(o.c) /\ Named(o.c) \in (1..minted) \ forked
           /\ Target(l) = Named(o.c) /\ Named(o.c)' = request'[op'[l].c].expected
      /\ o.kind \in {"none", "start", "stop", "restart", "retire"}
  BY DEF Commands, Generations, Target, Named, OpTypes, OpType
<1>n. \A c \in Controls : Known(c) => Named(c)' = Named(c)
  BY RequestsStand DEF Named
<1>s. \A at \in Places : Step(l, at) => op'[l].at = at /\ op'[l].gen = o.gen /\ op'[l].kind = o.kind /\ op'[l].c = o.c
  BY GoFacts DEF Step
<1>x. ~Exit(l, TRUE) /\ ~Exit(l, FALSE)
  <2>1. \A ok \in BOOLEAN : Exit(l, ok) => op'[l].at = "idle"
    BY ExitFacts DEF Idle
  <2> QED BY <2>1 DEF InLane
<1>w. Walks(l)
  BY <1>x, LaneMoves
<1>1. CASE Look(l)
  <2>0. o.at = "look" /\ UNCHANGED <<record, alive, forked, minted, policy, request>>
    BY <1>1 DEF Look, At, roleVars
  <2>1. CASE o.kind = "stop"
    <3>1. op' = [op EXCEPT ![l].at = "fence", ![l].gen = record] /\ UNCHANGED <<lane, pass>>
      BY <1>1, <2>1 DEF Look
    <3>2. op'[l].at = "fence" /\ op'[l].gen = record /\ op'[l].kind = "stop"
      BY <1>t, <2>1, <3>1, Leaps DEF Walks
    <3>3. record \notin forked' /\ record <= minted'
      BY <2>0 DEF Generations
    <3> QED BY <3>2, <3>3 DEF Stands, StopPlaces, LaunchPlaces
  <2>2. CASE o.kind = "restart"
    <3>1. \/ Step(l, "authorize")
          \/ Step(l, "fence") /\ Prepared(o.c)
          \/ /\ record # 0 /\ record # request[o.c].expected
             /\ op' = [op EXCEPT ![l].at = "complete", ![l].gen = record] /\ UNCHANGED <<lane, pass>>
      BY <1>1, <1>x, <2>2 DEF Look
    <3>2. CASE Step(l, "authorize")
      BY <2>2, <3>2, <1>s DEF Stands, StopPlaces, LaunchPlaces, Places
    <3>3. CASE Step(l, "fence") /\ Prepared(o.c)
      BY <2>0, <2>2, <3>3, <1>s DEF Stands, StopPlaces, LaunchPlaces, Places, Prepared
    <3>4. CASE /\ record # 0 /\ record # request[o.c].expected
               /\ op' = [op EXCEPT ![l].at = "complete", ![l].gen = record] /\ UNCHANGED <<lane, pass>>
      <4>1. op'[l].at = "complete" /\ op'[l].gen = record /\ op'[l].kind = "restart" /\ op'[l].c = o.c
        BY <1>t, <2>2, <3>4, Leaps DEF Walks
      <4>2. Gone(o.c)'
        BY <1>c, <2>0, <2>2, <3>4, <4>1 DEF Generations, Gone, Named
      <4> QED BY <1>t, <2>0, <3>4, <4>1, <4>2 DEF Stands, StopPlaces, LaunchPlaces, Generations, Gone, Named
    <3> QED BY <3>1, <3>2, <3>3, <3>4
  <2> QED BY <2>0, <2>1, <2>2 DEF Stands
<1>2. CASE Authorize(l)
  <2>0. o.at = "authorize" /\ (Exit(l, TRUE) \/ Exit(l, FALSE) \/ Step(l, "fence"))
    BY <1>2 DEF Authorize, At
  <2>1. o.at = "authorize" /\ Step(l, "fence") /\ policy'.last = o.c
    <3>1. \/ policy.last = o.c /\ policy' = policy
          \/ policy' = [last |-> o.c, count |-> policy.count + 1, done |-> 0]
      BY <1>2, <1>x DEF Authorize, Prepared
    <3>2. policy' = [last |-> o.c, count |-> policy.count + 1, done |-> 0] => policy'.last = o.c
      OBVIOUS
    <3>3. policy.last = o.c /\ policy' = policy => policy'.last = o.c
      OBVIOUS
    <3> QED BY <2>0, <3>1, <3>2, <3>3, <1>x
  <2>2. o.kind = "restart"
    BY <2>1 DEF Stands
  <2> QED BY <2>1, <2>2, <1>s DEF Stands, StopPlaces, LaunchPlaces, Places, Prepared
<1>3. CASE Fence(l)
  <2>0. o.at = "fence" /\ UNCHANGED <<record, alive, forked, minted, policy, request>>
    BY <1>3 DEF Fence, At
  <2>1. CASE record # 0
    <3>1. Step(l, "signal") /\ cap' = 0
      BY <1>3, <1>x, <2>1 DEF Fence
    <3> QED BY <2>0, <3>1, <1>s DEF Stands, StopPlaces, LaunchPlaces, Places, Prepared
  <2>2. CASE record = 0
    <3>1. o.kind = "restart" /\ Step(l, "mint")
      BY <1>3, <1>x, <2>2 DEF Fence, AfterStop
    <3>2. op'[l].at = "mint" /\ op'[l].kind = "restart" /\ op'[l].c = o.c
      BY <3>1, <1>s DEF Places
    <3>3. Gone(o.c)'
      BY <1>c, <1>t, <2>0, <2>2, <3>1, <3>2 DEF Generations, Gone, Named
    <3> QED BY <3>2, <3>3 DEF Stands, StopPlaces, LaunchPlaces, Gone, Named
  <2> QED BY <2>1, <2>2
<1>4. CASE Signal(l)
  <2>1. /\ o.at = "signal" /\ Step(l, "forget") /\ record = Target(l) /\ alive' = alive \ {record}
        /\ UNCHANGED <<record, forked, minted, cap, policy, request>>
    BY <1>4, <1>x DEF Signal, At
  <2>2. /\ op'[l].at = "forget" /\ op'[l].kind = o.kind /\ op'[l].c = o.c /\ op'[l].gen = o.gen
    BY <2>1, <1>s DEF Places
  <2>3. Target(l)' = Target(l)
    BY <2>1, <2>2 DEF Target
  <2> QED BY <2>1, <2>2, <2>3 DEF Stands, StopPlaces, LaunchPlaces, Prepared
<1>5. CASE Forget(l)
  <2>1. /\ o.at = "forget" /\ record = Target(l) /\ record' = 0 /\ o.kind = "restart" /\ Step(l, "mint")
        /\ UNCHANGED <<alive, forked, minted, cap, policy, request>>
    BY <1>5, <1>x DEF Forget, At, AfterStop
  <2>2. op'[l].at = "mint" /\ op'[l].kind = "restart" /\ op'[l].c = o.c
    BY <2>1, <1>s DEF Places
  <2>3. Gone(o.c)'
    BY <1>c, <2>1, <2>2 DEF Stands, Gone, Named
  <2> QED BY <2>2, <2>3 DEF Stands, StopPlaces, LaunchPlaces, Gone, Named
<1>6. CASE Mint(l)
  <2>1. /\ o.at = "mint" /\ ~Live /\ minted # MaxGen
    BY <1>6, <1>x DEF Mint, At
  <2>2. /\ record' = 0 /\ minted' = minted + 1 /\ cap' = minted + 1
        /\ op' = [op EXCEPT ![l].at = "fork", ![l].gen = minted + 1]
        /\ UNCHANGED <<alive, forked, policy, request, lane, pass>>
    BY <1>6, <2>1 DEF Mint
  <2>3. minted + 1 \in 0..MaxGen
    BY <2>1, ControlAssumption DEF RoleTypes
  <2>4. op'[l].at = "fork" /\ op'[l].gen = minted + 1 /\ op'[l].kind = o.kind /\ op'[l].c = o.c
    BY <2>2, <2>3, Leaps DEF Walks
  <2>5. o.kind = "restart" => Gone(o.c)'
    BY <2>1, <2>4, GoneFor DEF LaunchPlaces
  <2>6. minted + 1 \notin alive' \union forked' \union {record'} /\ minted + 1 \in 1..minted'
    BY <1>t, <2>2 DEF Generations
  <2>7. \A c \in Controls : Known(c)' => Named(c)' # minted + 1
    BY <1>t, <2>2 DEF Generations, Known, Named
  <2>8. o.kind \in {"start", "restart"}
    BY <2>1 DEF Stands, LaunchPlaces
  <2> QED BY <2>2, <2>4, <2>5, <2>6, <2>7, <2>8 DEF Stands, StopPlaces, LaunchPlaces, Gone, Named
<1>7. CASE Fork(l) \/ Release(l) \/ Ready(l)
  <2>1. /\ o.at \in {"fork", "go", "ready"} /\ UNCHANGED minted
        /\ \/ o.at = "fork" /\ Step(l, "go") /\ UNCHANGED cap
           \/ Step(l, "ready")
           \/ Step(l, "complete") /\ o.kind # "start"
    BY <1>7, <1>x DEF Fork, Release, Ready, At, roleVars, ctlVars, Step, Undo
  <2>2. op'[l].gen = o.gen /\ op'[l].kind = o.kind /\ op'[l].c = o.c
    BY <2>1, <1>s DEF Places
  <2>3. o.kind = "restart" => Gone(o.c)'
    BY <2>1, <2>2, GoneFor DEF LaunchPlaces
  <2>4. o.kind \in {"start", "restart"} /\ o.gen \in 1..minted
    BY <2>1 DEF Stands, LaunchPlaces
  <2>5. \/ op'[l].at = "go" /\ cap' = o.gen
        \/ op'[l].at = "ready"
        \/ op'[l].at = "complete" /\ o.kind = "restart"
    BY <2>1, <2>4, <1>s DEF Stands, Places
  <2> QED BY <2>1, <2>2, <2>3, <2>4, <2>5 DEF Stands, StopPlaces, LaunchPlaces, Gone, Named
<1>8. ~Complete(l) /\ ~SupervisorFails(l)
  BY <1>x DEF Complete, SupervisorFails, Undo
<1> QED BY <1>1, <1>2, <1>3, <1>4, <1>5, <1>6, <1>7, <1>8 DEF LaneStep, LauncherStep

\* Each step leaves every launcher where it may stand.
LEMMA StandsKept ==
    ASSUME IInv, Next
    PROVE  \A m \in Launchers : Stands(m)'
<1> SUFFICES ASSUME NEW m \in Launchers PROVE Stands(m)' OBVIOUS
<1> OpTypes /\ pass \in PassType BY TypeParts DEF IInv
<1>1. CASE Aside
  BY <1>1, AsideFacts, StandsStill
<1>2. CASE LauncherTimeout
  <2>1. CASE m = pass.by
    BY <1>2, <2>1, TimeoutFacts, StandsOut DEF Idle, InLane
  <2>2. CASE m # pass.by
    BY <1>2, <2>2, TimeoutFacts, StandsStill DEF Others, roleVars
  <2> QED BY <2>1, <2>2
<1>3. ASSUME NEW l \in Launchers, Start(l) \/ Stop(l) \/ RunLauncher(l) PROVE Stands(m)'
  <2>1. /\ Others(l) /\ op'[l].at = "lane" /\ UNCHANGED <<cap, policy, minted, forked>>
    BY <1>3, HumanFacts, RunFacts DEF roleVars
  <2>2. CASE m = l
    BY <2>1, <2>2, StandsOut DEF InLane
  <2>3. CASE m # l
    BY <2>1, <2>3, StandsStill DEF Others
  <2> QED BY <2>2, <2>3
<1>4. ASSUME NEW l \in Launchers, TakeLane(l) PROVE Stands(m)'
  <2>1. CASE m = l
    <3>1. op[l].kind \in {"start", "stop", "restart", "retire"}
      BY <1>4, TakeFacts DEF IInv, Commands, At, OpTypes, OpType
    <3>2. CASE op[l].kind = "start"
      BY <1>4, <2>1, <3>2, TakeFacts DEF Stands, StopPlaces, LaunchPlaces
    <3>3. CASE op[l].kind = "retire"
      BY <1>4, <2>1, <3>3, TakeFacts DEF Stands, StopPlaces, LaunchPlaces
    <3>4. CASE op[l].kind \in {"stop", "restart"}
      BY <1>4, <2>1, <3>4, TakeFacts DEF Stands, StopPlaces, LaunchPlaces
    <3> QED BY <3>1, <3>2, <3>3, <3>4
  <2>2. CASE m # l
    BY <1>4, <2>2, TakeFacts, StandsStill DEF Others, roleVars
  <2> QED BY <2>1, <2>2
<1>5. ASSUME NEW l \in Launchers, LaneStep(l) PROVE Stands(m)'
  <2>1. CASE m = l
    BY <1>5, <2>1, StandsNext, StandsOut
  <2>2. CASE m # l
    <3>1. ~InLane(m) /\ op'[m] = op[m]
      BY <1>5, <2>2, LaneMoves, OthersWait, ExitFacts DEF Walks, Others
    <3> QED BY <3>1, StandsOut DEF InLane
  <2> QED BY <2>1, <2>2
<1>6. ASSUME NEW l \in Launchers, KillLauncher(l) PROVE Stands(m)'
  <2>1. Others(l) /\ op'[l].at = "idle" /\ UNCHANGED <<cap, policy, minted, forked>>
    <3>1. Exit(l, FALSE) /\ UNCHANGED <<roleVars, policy>>
      BY <1>6 DEF KillLauncher
    <3>2. UNCHANGED <<cap, policy, minted, forked>>
      BY <3>1 DEF roleVars
    <3>3. Others(l) /\ op'[l] = Idle
      BY <3>1, ExitFacts
    <3> QED BY <3>2, <3>3 DEF Idle
  <2>2. CASE m = l
    BY <2>1, <2>2, StandsOut DEF InLane
  <2>3. CASE m # l
    BY <2>1, <2>3, StandsStill DEF Others
  <2> QED BY <2>2, <2>3
<1> QED BY <1>1, <1>2, <1>3, <1>4, <1>5, <1>6, Actors

\* The command of a launcher that does not take this step, or goes on with it.
LEMMA CommandsStill ==
    ASSUME IInv, Next, NEW m \in Launchers,
           op'[m].kind = op[m].kind, op'[m].c = op[m].c,
           op[m].at = "idle" <=> op'[m].at = "idle",
           InLane(m)' => lane' = m /\ ~stopped'
    PROVE  Commands(m)'
BY RequestsStand DEF IInv, Commands, Known, InLane

\* Each step keeps the commands, and the lane with the launcher that took it.
LEMMA CommandsKept ==
    ASSUME IInv, Next
    PROVE  \A m \in Launchers : Commands(m)'
<1> SUFFICES ASSUME NEW m \in Launchers PROVE Commands(m)' OBVIOUS
<1> OpTypes /\ pass \in PassType /\ Commands(m) BY TypeParts DEF IInv
<1>i. op'[m] = Idle => Commands(m)'
  BY DEF Idle, Commands, InLane
<1>1. CASE Aside
  BY <1>1, AsideFacts, CommandsStill DEF Commands, InLane
<1>2. CASE LauncherTimeout
  <2>1. CASE m # pass.by
    <3>1. op'[m] = op[m] /\ (lane = m => lane' = m) /\ stopped' = stopped
      BY <1>2, <2>1, TimeoutFacts DEF Others
    <3> QED BY <3>1, CommandsStill DEF Commands, InLane
  <2> QED BY <1>2, <1>i, <2>1, TimeoutFacts
<1>3. ASSUME NEW l \in Launchers, Start(l) \/ Stop(l) PROVE Commands(m)'
  <2>1. CASE m = l
    BY <1>3, <2>1, HumanFacts DEF Commands, InLane
  <2>2. CASE m # l
    <3>1. op'[m] = op[m] /\ UNCHANGED <<lane, stopped>>
      BY <1>3, <2>2, HumanFacts DEF Others
    <3> QED BY <3>1, CommandsStill DEF Commands, InLane
  <2> QED BY <2>1, <2>2
<1>4. ASSUME NEW l \in Launchers, RunLauncher(l) PROVE Commands(m)'
  <2>1. CASE m = l
    BY <1>4, <2>1, RunFacts DEF Commands, InLane, Known
  <2>2. CASE m # l
    <3>1. op'[m] = op[m] /\ UNCHANGED <<lane, stopped>>
      BY <1>4, <2>2, RunFacts DEF Others
    <3> QED BY <3>1, CommandsStill DEF Commands, InLane
  <2> QED BY <2>1, <2>2
<1>5. ASSUME NEW l \in Launchers, TakeLane(l) PROVE Commands(m)'
  <2>1. CASE m = l
    <3>1. /\ op'[l].kind = op[l].kind /\ op'[l].c = op[l].c /\ lane' = l /\ ~stopped'
          /\ op[l].at # "idle" /\ op'[l].at \in {"mint", "fence", "look"}
      BY <1>5, TakeFacts DEF At
    <3> QED BY <2>1, <3>1, CommandsStill
  <2>2. CASE m # l
    <3>1. op'[m] = op[m] /\ lane = Nobody
      BY <1>5, <2>2, TakeFacts DEF Others, TakeLane
    <3>2. ~InLane(m)
      BY <3>1, ControlAssumption DEF Commands
    <3> QED BY <3>1, <3>2, CommandsStill DEF InLane
  <2> QED BY <2>1, <2>2
<1>6. ASSUME NEW l \in Launchers, LaneStep(l) PROVE Commands(m)'
  <2>1. CASE m # l
    <3>1. ~InLane(m) /\ op'[m] = op[m]
      BY <1>6, <2>1, LaneMoves, OthersWait, ExitFacts DEF Walks, Others
    <3> QED BY <3>1, CommandsStill DEF InLane
  <2>2. CASE m = l /\ Walks(l) /\ ~stopped'
    <3>1. InLane(l) /\ InLane(l)' /\ lane' = l /\ op'[l].kind = op[l].kind /\ op'[l].c = op[l].c
      BY <1>6, <2>2, LaneMoves DEF Walks, Commands
    <3> QED BY <2>2, <3>1, CommandsStill DEF InLane
  <2>3. CASE m = l /\ (Exit(l, TRUE) \/ Exit(l, FALSE))
    BY <1>i, <2>3, ExitFacts
  <2> QED BY <1>6, <2>1, <2>2, <2>3, LaneMoves
<1>7. ASSUME NEW l \in Launchers, KillLauncher(l) PROVE Commands(m)'
  <2>1. CASE m # l
    <3>1. op'[m] = op[m] /\ (lane = m => lane' = m) /\ stopped' = stopped
      BY <1>7, <2>1, ExitFacts DEF KillLauncher, Others
    <3> QED BY <3>1, CommandsStill DEF Commands, InLane
  <2> QED BY <1>7, <1>i, <2>1, ExitFacts DEF KillLauncher
<1> QED BY <1>1, <1>2, <1>3, <1>4, <1>5, <1>6, <1>7, Actors

------------------------------------------------------------------------------
(* The pass, the policy and the history. *)

\* Each step keeps the pass with its control and with the launcher it waits for.
LEMMA PassingKept ==
    ASSUME IInv, Next
    PROVE  Passing'
<1> /\ OpTypes /\ pass \in PassType /\ Passing BY TypeParts DEF IInv
<1>k. \A c \in Controls : Known(c) => Known(c)'
  BY RequestsStand
<1>r. pass' = Resting => Passing'
  BY DEF Resting, Passing
<1>1. CASE Aside
  <2>1. op' = op
    BY <1>1, AsideFacts
  <2>2. CASE pass' = pass
    BY <1>k, <2>1, <2>2 DEF Passing, Known
  <2>3. CASE RetireResults \/ StoreResult
    <3>1. pass'.c = pass.c /\ pass'.at \in {"run", "move"} /\ pass.at # "idle"
      BY <2>3 DEF RetireResults, StoreResult, PassType
    <3> QED BY <1>k, <3>1 DEF Passing, Known
  <2>4. ASSUME NEW c \in Controls, Begin(c) PROVE Passing'
    <3>1. pass'.c = c /\ pass'.at # "wait" /\ Known(c) /\ request' = request
      BY <2>4 DEF Begin, Resting, Known
    <3> QED BY <3>1 DEF Passing, Known
  <2>5. pass' = pass \/ RetireResults \/ StoreResult \/ pass' = Resting \/ \E c \in Controls : Begin(c)
    BY <1>1 DEF Aside, RoleStep, Register, BarrierTimeout, RoleExits, Request, Isolate, ctlVars,
                MoveRequest, KillPass
  <2> QED BY <1>r, <2>2, <2>3, <2>4, <2>5
<1>2. CASE LauncherTimeout
  BY <1>2, <1>r, TimeoutFacts
<1>3. ASSUME NEW l \in Launchers, Start(l) \/ Stop(l) PROVE Passing'
  <2>1. pass' = pass /\ At(l, "idle") /\ Others(l)
    BY <1>3, HumanFacts DEF ctlVars
  <2>2. pass.at = "wait" => op'[pass.by] = op[pass.by]
    BY <2>1 DEF Passing, At, Others
  <2> QED BY <1>k, <2>1, <2>2 DEF Passing, Known
<1>4. ASSUME NEW l \in Launchers, RunLauncher(l) PROVE Passing'
  <2>1. pass'.at = "wait" /\ pass'.by = l /\ pass'.c = pass.c /\ op'[l].c = pass.c /\ op'[l].at # "idle"
        /\ pass.c \in Controls /\ Known(pass.c)
    BY <1>4, RunFacts DEF PassType
  <2> QED BY <1>k, <2>1 DEF Passing, Known
<1>5. ASSUME NEW l \in Launchers, TakeLane(l) PROVE Passing'
  <2>1. pass' = pass /\ Others(l) /\ op'[l].c = op[l].c /\ op'[l].at # "idle"
    BY <1>5, TakeFacts DEF ctlVars
  <2> QED BY <1>k, <2>1 DEF Passing, Known, Others
<1>6. ASSUME NEW l \in Launchers, Exit(l, TRUE) \/ Exit(l, FALSE) PROVE Passing'
  <2>1. Others(l) /\ pass'.c = pass.c /\ (pass'.at = "idle" => pass.at = "idle")
        /\ (pass.at = "idle" => pass'.at = "idle")
        /\ (pass'.at = "wait" => pass.at = "wait" /\ pass'.by = pass.by /\ pass.by # l)
    BY <1>6, ExitFacts
  <2> QED BY <1>k, <2>1 DEF Passing, Known, Others
<1>7. ASSUME NEW l \in Launchers, Walks(l) PROVE Passing'
  BY <1>k, <1>7 DEF Passing, Known, Others, Walks, InLane
<1>8. (\E l \in Launchers : LaneStep(l) \/ KillLauncher(l)) => Passing'
  BY <1>6, <1>7, LaneMoves DEF KillLauncher
<1> QED BY <1>1, <1>2, <1>3, <1>4, <1>5, <1>8, Actors

\* A pass that a launcher answers, or that stores, had a control before.
LEMMA StoreFacts ==
    ASSUME IInv, StoreResult
    PROVE  /\ pass.at = "store" /\ pass.c \in Controls /\ Known(pass.c) /\ pass'.at = "move"
           /\ request' = request /\ consumed' = consumed
           /\ \/ result' = result /\ did' = did
              \/ /\ pass.ok /\ result' = [result EXCEPT ![pass.c] = "completed"]
                 /\ did' = did \union {<<pass.c, "completed", Named(pass.c)>>}
              \/ result' = [result EXCEPT ![pass.c] = "failed"] /\ did' = did
           /\ result' # result => result[pass.c] = "none"
<1> /\ Passing /\ result \in [Controls -> Results] /\ pass \in PassType
  BY TypeParts DEF IInv, ControlTypes
<1>1. pass.at = "store" /\ pass.c \in Controls /\ Known(pass.c) /\ pass'.at = "move"
      /\ request' = request /\ consumed' = consumed
  BY DEF StoreResult, Passing, PassType
<1>2. CASE result' = result
  BY <1>1, <1>2 DEF StoreResult
<1>3. CASE result' # result
  <2>1. result[pass.c] = "none"
        /\ result' = [result EXCEPT ![pass.c] = IF pass.ok THEN "completed" ELSE "failed"]
        /\ did' = IF pass.ok THEN did \union {<<pass.c, "completed", Named(pass.c)>>} ELSE did
    BY <1>3 DEF StoreResult, Named
  <2>2. CASE pass.ok
    BY <1>1, <2>1, <2>2
  <2>3. CASE ~pass.ok
    BY <1>1, <2>1, <2>3
  <2> QED BY <2>2, <2>3
<1> QED BY <1>2, <1>3

\* A signal in the history is one at the generation its control names, and a restart's
\* is the one the policy authorized last.
LEMMA SignalFacts ==
    ASSUME IInv, NEW l \in Launchers, Signal(l)
    PROVE  \/ did' = did
           \/ /\ did' = did \union {<<op[l].c, "signal", Named(op[l].c)>>}
              /\ op[l].c \in Controls /\ Known(op[l].c)
              /\ request[op[l].c].action = "restart" => policy.last = op[l].c
<1> SUFFICES ASSUME did' # did
    PROVE  /\ did' = did \union {<<op[l].c, "signal", Named(op[l].c)>>}
           /\ op[l].c \in Controls /\ Known(op[l].c)
           /\ request[op[l].c].action = "restart" => policy.last = op[l].c
  OBVIOUS
<1>1. /\ op[l].at = "signal" /\ op[l].c # Nobody /\ record = Target(l)
      /\ did' = did \union {<<op[l].c, "signal", record>>}
  BY DEF Signal, At
<1>2. op[l].kind \in {"restart", "retire"} /\ (op[l].kind = "restart" => policy.last = op[l].c)
  BY <1>1 DEF IInv, Commands, Stands, StopPlaces, Prepared
<1> QED BY <1>1, <1>2 DEF IInv, Commands, Target, Named

\* A launch in the history is a restart's.
LEMMA ReleaseFacts ==
    ASSUME IInv, NEW l \in Launchers, Release(l)
    PROVE  \/ did' = did
           \/ /\ did' = did \union {<<op[l].c, "launch", op[l].gen>>}
              /\ op[l].c \in Controls /\ Known(op[l].c) /\ op[l].kind = "restart" /\ InLane(l)
              /\ request[op[l].c].action = "restart" /\ op[l].at = "go"
<1> SUFFICES ASSUME did' # did
    PROVE  /\ did' = did \union {<<op[l].c, "launch", op[l].gen>>}
           /\ op[l].c \in Controls /\ Known(op[l].c) /\ op[l].kind = "restart" /\ InLane(l)
           /\ request[op[l].c].action = "restart" /\ op[l].at = "go"
  OBVIOUS
<1>1. op[l].at = "go" /\ op[l].c # Nobody /\ did' = did \union {<<op[l].c, "launch", op[l].gen>>}
  BY DEF Release, At
<1>2. op[l].kind = "restart"
  BY <1>1 DEF IInv, Commands, Stands, LaunchPlaces
<1> QED BY <1>1, <1>2 DEF IInv, Commands, InLane

\* What a step writes into the history.
LEMMA DidGrows ==
    ASSUME IInv, Next
    PROVE  \/ did' = did
           \/ StoreResult /\ did' = did \union {<<pass.c, "completed", Named(pass.c)>>}
              /\ pass.c \in Controls /\ Known(pass.c) /\ pass.at = "store" /\ pass.ok
           \/ \E l \in Launchers :
                /\ Signal(l) \/ Release(l)
                /\ op[l].c \in Controls /\ Known(op[l].c)
                /\ \/ did' = did \union {<<op[l].c, "signal", Named(op[l].c)>>}
                   \/ did' = did \union {<<op[l].c, "launch", op[l].gen>>}
BY Frame, StoreFacts, SignalFacts, ReleaseFacts

\* Nothing is taken back from the history.
LEMMA DidStays ==
    ASSUME IInv, Next
    PROVE  did \subseteq did'
BY DidGrows

\* A control is completed by its pass, which had its launcher's success.
LEMMA EndedFrom ==
    ASSUME IInv, Next, NEW c \in Controls, Ended(c)'
    PROVE  Known(c) /\ (Ended(c) \/ (StoreResult /\ pass.c = c /\ pass.at = "store" /\ pass.ok))
<1>1. CASE <<c, "completed", Named(c)'>> \in did
  <2>1. Known(c)
    <3>1. <<c, "completed", Named(c)'>>[1] = c
      OBVIOUS
    <3> QED BY <1>1, <3>1 DEF IInv, History
  <2> QED BY <1>1, <2>1, RequestsStand DEF Ended
<1>2. CASE <<c, "completed", Named(c)'>> \notin did
  <2>1. <<c, "completed", Named(c)'>> \in did'
    BY DEF Ended, Named
  <2> QED BY <1>2, <2>1, DidGrows
<1> QED BY <1>1, <1>2

\* A completed control stays completed.
LEMMA EndedStays ==
    ASSUME IInv, Next, NEW c \in Controls, Ended(c)
    PROVE  Known(c) /\ Ended(c)'
<1>1. Known(c)
  <2>1. <<c, "completed", Named(c)>>[1] = c /\ <<c, "completed", Named(c)>> \in did
    BY DEF Ended
  <2> QED BY <2>1 DEF IInv, History
<1>2. Named(c)' = Named(c)
  BY <1>1, RequestsStand
<1> QED BY <1>1, <1>2, DidStays DEF Ended, Named

\* Each step keeps the history in line with the requests and their results.
LEMMA HistoryKept ==
    ASSUME IInv, Next
    PROVE  History'
<1> /\ History /\ result \in [Controls -> Results]
    /\ did \subseteq Controls \X {"signal", "launch", "completed"} \X Gens
  BY TypeParts DEF IInv, ControlTypes
<1>1. \A d \in did' : Known(d[1])' /\ (d[2] = "signal" => d[3] = Named(d[1])')
  <2>1. ASSUME NEW d \in did PROVE Known(d[1])' /\ (d[2] = "signal" => d[3] = Named(d[1])')
    BY <2>1, RequestsStand DEF History
  <2>2. ASSUME NEW c \in Controls, Known(c), NEW g, NEW d, d = <<c, "completed", g>> \/ d = <<c, "launch", g>>
        PROVE  Known(d[1])' /\ (d[2] = "signal" => d[3] = Named(d[1])')
    BY <2>2, RequestsStand
  <2>3. ASSUME NEW c \in Controls, Known(c), NEW d, d = <<c, "signal", Named(c)>>
        PROVE  Known(d[1])' /\ (d[2] = "signal" => d[3] = Named(d[1])')
    BY <2>3, RequestsStand
  <2>4. ASSUME NEW d \in did', d \notin did
        PROVE  \E c \in Controls : /\ Known(c)
                                  /\ \/ \E g : d = <<c, "completed", g>> \/ d = <<c, "launch", g>>
                                     \/ d = <<c, "signal", Named(c)>>
    BY <2>4, DidGrows
  <2> QED BY <2>1, <2>2, <2>3, <2>4
<1>2. ASSUME NEW c \in Controls, Ended(c)' PROVE result'[c] # "none" \/ c \in consumed'
  <2>1. CASE StoreResult
    <3>1. CASE Ended(c)
      BY <2>1, <3>1, StoreFacts DEF History
    <3>2. CASE ~Ended(c)
      <4>1. did' # did /\ pass.c = c
        BY <1>2, <2>1, <3>2, EndedFrom, StoreFacts DEF Ended, Named
      <4> QED BY <2>1, <4>1, StoreFacts
    <3> QED BY <3>1, <3>2
  <2>2. CASE ~StoreResult
    <3>1. result[c] # "none" \/ c \in consumed
      BY <1>2, <2>2, EndedFrom DEF History
    <3>2. CASE RetireResults
      BY <3>1, <3>2 DEF RetireResults
    <3>3. ASSUME NEW b \in Controls, Begin(b) PROVE result' = result /\ consumed \subseteq consumed'
      BY <3>3 DEF Begin
    <3> QED BY <2>2, <3>1, <3>2, <3>3, Frame
  <2> QED BY <2>1, <2>2
<1>3. ASSUME NEW c \in Controls, result'[c] = "completed" PROVE Ended(c)'
  <2>1. result[c] = "completed" => Ended(c)'
    BY EndedStays DEF History
  <2>2. CASE StoreResult
    <3>1. CASE result[c] # "completed"
      <4>1. pass.c = c /\ did' = did \union {<<pass.c, "completed", Named(pass.c)>>} /\ request' = request
        BY <1>3, <2>2, <3>1, StoreFacts
      <4> QED BY <4>1 DEF Ended, Named
    <3> QED BY <2>1, <3>1
  <2>3. CASE RetireResults
    BY <1>3, <2>1, <2>3 DEF RetireResults
  <2>4. ASSUME NEW b \in Controls, Begin(b) PROVE result' = result
    BY <2>4 DEF Begin
  <2> QED BY <1>3, <2>1, <2>2, <2>3, <2>4, Frame
<1> QED BY <1>1, <1>2, <1>3 DEF History

\* Only a control that the policy counts signals for a restart.
LEMMA SignalledCounted ==
    ASSUME IInv, Next
    PROVE  Signalled' \subseteq Counted
<1> SUFFICES ASSUME NEW c \in Controls, request'[c].action = "restart",
                    NEW g \in Gens, <<c, "signal", g>> \in did'
             PROVE  c \in Counted
  BY DEF Signalled
<1>1. CASE <<c, "signal", g>> \in did
  <2>1. Known(c)
    <3>1. <<c, "signal", g>>[1] = c
      OBVIOUS
    <3> QED BY <1>1, <3>1 DEF IInv, History
  <2>2. request[c].action = "restart"
    BY <2>1, RequestsStand
  <2> QED BY <1>1, <2>2 DEF Counted, Signalled
<1>2. CASE <<c, "signal", g>> \notin did
  <2>1. PICK l \in Launchers : Signal(l) \/ Release(l)
    BY <1>2, DidGrows
  <2>2. Signal(l) /\ did' = did \union {<<op[l].c, "signal", Named(op[l].c)>>}
        /\ Known(op[l].c) /\ (request[op[l].c].action = "restart" => policy.last = op[l].c)
    BY <1>2, <2>1, SignalFacts, ReleaseFacts
  <2>3. c = op[l].c /\ Known(c)
    BY <1>2, <2>2
  <2>4. policy.last = c /\ c # Nobody
    BY <2>2, <2>3, RequestsStand, ControlAssumption
  <2> QED BY <2>4 DEF Counted
<1> QED BY <1>1, <1>2

\* Each step keeps the count of the circuit breaker.
LEMMA BreakerKept ==
    ASSUME IInv, Next
    PROVE  Breaker'
<1> /\ Breaker /\ policy \in Policies /\ OpTypes
    /\ policy' \in Policies
  BY TypeParts, ControlTypesKept DEF IInv, ControlTypes
<1>n. Nobody \notin Controls /\ Maximum \in Nat
  BY ControlAssumption
<1>k. /\ \A c \in Controls : Known(c) => Known(c)' /\ request'[c].action = request[c].action
      /\ \A c \in Controls : Known(c) /\ Gone(c) => Gone(c)'
  BY RequestsStand, GoneStays
<1>1. CASE UNCHANGED policy
  <2>1. Counted' \subseteq Counted
    BY <1>1, SignalledCounted DEF Counted
  <2>2. IsFiniteSet(Counted') /\ Cardinality(Counted') <= Cardinality(Counted)
    BY <2>1, FS_Subset DEF Breaker
  <2>3. Cardinality(Counted') \in Nat /\ Cardinality(Counted) \in Nat
    BY <2>2, FS_CardinalityType DEF Breaker
  <2>4. Cardinality(Counted') <= policy'.count
    BY <1>1, <2>2, <2>3 DEF Breaker, Policies
  <2>5. /\ policy'.last \in Controls => request'[policy'.last].action = "restart" /\ Known(policy.last)'
        /\ policy'.done # 0 => policy'.last \in Controls /\ Gone(policy.last)'
    BY <1>1, <1>k DEF Breaker, Known, Gone, Named
  <2> QED BY <1>1, <2>2, <2>4, <2>5 DEF Breaker
<1>2. ASSUME NEW l \in Launchers, Authorize(l), policy' # policy PROVE Breaker'
  <2>1. /\ policy' = [last |-> op[l].c, count |-> policy.count + 1, done |-> 0]
        /\ policy.count < Maximum /\ op[l].at = "authorize"
    BY <1>2 DEF Authorize, At
  <2>2. op[l].c \in Controls /\ Known(op[l].c) /\ request[op[l].c].action = "restart"
    BY <2>1 DEF IInv, Stands, Commands
  <2>3. policy'.last = op[l].c /\ policy'.count = policy.count + 1 /\ policy'.done = 0
    BY <2>1
  <2>4. Counted' \subseteq Counted \union {op[l].c}
    BY <2>3, SignalledCounted DEF Counted
  <2>5. /\ IsFiniteSet(Counted \union {op[l].c})
        /\ Cardinality(Counted \union {op[l].c}) <= Cardinality(Counted) + 1
    <3>1. IsFiniteSet(Counted) /\ Cardinality(Counted) \in Nat
      BY FS_CardinalityType DEF Breaker
    <3>2. /\ IsFiniteSet(Counted \union {op[l].c})
          /\ Cardinality(Counted \union {op[l].c}) =
               IF op[l].c \in Counted THEN Cardinality(Counted) ELSE Cardinality(Counted) + 1
      BY <3>1, FS_AddElement
    <3> QED BY <3>1, <3>2
  <2>6. IsFiniteSet(Counted') /\ Cardinality(Counted') <= Cardinality(Counted \union {op[l].c})
    BY <2>4, <2>5, FS_Subset
  <2>7. /\ Cardinality(Counted') \in Nat /\ Cardinality(Counted) \in Nat
        /\ Cardinality(Counted \union {op[l].c}) \in Nat
    BY <2>5, <2>6, FS_CardinalityType DEF Breaker
  <2>8. Cardinality(Counted') <= policy'.count /\ policy'.count <= Maximum
    BY <1>n, <2>1, <2>3, <2>5, <2>6, <2>7 DEF Breaker, Policies
  <2>9. request'[op[l].c].action = "restart" /\ Known(policy.last)'
    BY <1>k, <2>2, <2>3 DEF Known
  <2> QED BY <2>3, <2>6, <2>8, <2>9 DEF Breaker
<1>3. ASSUME NEW l \in Launchers, Complete(l), policy' # policy PROVE Breaker'
  <2>1. /\ policy' = [policy EXCEPT !.done = op[l].gen] /\ policy.last = op[l].c
        /\ op[l].at = "complete" /\ UNCHANGED <<roleVars, request>>
    BY <1>3 DEF Complete, At, Prepared
  <2>2. op[l].c \in Controls /\ Known(op[l].c) /\ request[op[l].c].action = "restart" /\ Gone(op[l].c)
    BY <2>1 DEF IInv, Stands, Commands, LaunchPlaces
  <2>3. policy'.last = policy.last /\ policy'.count = policy.count
    BY <2>1 DEF Policies
  <2>4. Counted' \subseteq Counted
    BY <2>3, SignalledCounted DEF Counted
  <2>5. IsFiniteSet(Counted') /\ Cardinality(Counted') <= Cardinality(Counted)
    BY <2>4, FS_Subset DEF Breaker
  <2>6. Cardinality(Counted') \in Nat /\ Cardinality(Counted) \in Nat
    BY <2>5, FS_CardinalityType DEF Breaker
  <2>7. Cardinality(Counted') <= policy'.count
    BY <2>3, <2>5, <2>6 DEF Breaker, Policies
  <2>8. request'[policy'.last].action = "restart" /\ Known(policy.last)' /\ Gone(policy.last)'
    BY <2>1, <2>2, <2>3 DEF Known, Gone, Named, roleVars
  <2> QED BY <2>1, <2>2, <2>3, <2>5, <2>7, <2>8 DEF Breaker
<1> QED BY <1>1, <1>2, <1>3, Frame

\* A control that is finished: its generation is gone, and whatever launcher still comes
\* for it finds nothing to do.
Idles(c, l) ==
    op[l].c = c => op[l].at \in {"lane", IF request[c].action = "restart" THEN "look" ELSE "fence"}

\* A launcher that comes for a finished control leaves without doing anything.
LEMMA FinishedExits ==
    ASSUME IInv, NEW c \in Controls, Finished(c), NEW l \in Launchers, op[l].c = c, LaneStep(l)
    PROVE  /\ Exit(l, TRUE) \/ Exit(l, FALSE)
           /\ ~Authorize(l) /\ ~Complete(l) /\ ~Signal(l) /\ ~Release(l)
<1>1. /\ Gone(c) /\ Known(c) /\ Idles(c, l) /\ (policy.last = c => policy.done # 0)
      /\ op[l].kind = request[c].action /\ op[l].kind \in {"restart", "retire"}
      /\ policy.last = c => op[l].kind = "restart"
  BY ControlAssumption DEF IInv, Settled, Idles, Commands, Breaker, TypeOK
<1>2. CASE op[l].kind = "restart"
  <2>1. InLane(l)
    BY LaneMoves
  <2>2. op[l].at = "look"
    BY <1>1, <1>2, <2>1 DEF Idles, InLane
  <2>3. Look(l)
    BY <2>2 DEF LaneStep, LauncherStep, Authorize, Fence, Signal, Forget, Mint, Fork, Release,
                Ready, Complete, SupervisorFails, At
  <2>4. record # request[c].expected
    BY <1>1 DEF Gone, Named
  <2>5. Exit(l, TRUE) \/ Exit(l, FALSE)
    BY <1>1, <1>2, <2>3, <2>4 DEF Look, Prepared
  <2> QED BY <2>2, <2>5 DEF Authorize, Complete, Signal, Release, At
<1>3. CASE op[l].kind = "retire"
  <2>1. InLane(l)
    BY LaneMoves
  <2>2. op[l].at = "fence"
    BY <1>1, <1>3, <2>1 DEF Idles, InLane
  <2>3. Fence(l)
    BY <2>2 DEF LaneStep, LauncherStep, Look, Authorize, Signal, Forget, Mint, Fork, Release,
                Ready, Complete, SupervisorFails, At
  <2>4. record # Target(l)
    BY <1>1, <1>3 DEF Gone, Named, Target
  <2>5. record = 0 => Exit(l, TRUE)
    BY <1>3, <2>3 DEF Fence, AfterStop
  <2>6. record # 0 => Exit(l, FALSE)
    BY <1>3, <2>3, <2>4 DEF Fence
  <2> QED BY <2>2, <2>5, <2>6 DEF Authorize, Complete, Signal, Release, At
<1> QED BY <1>1, <1>2, <1>3

\* The policy is not opened again for a finished control.
LEMMA PolicySettles ==
    ASSUME IInv, Next, NEW c \in Controls, Finished(c), policy'.last = c
    PROVE  policy'.done # 0
<1>1. policy.last = c => policy.done # 0
  BY DEF IInv, Settled
<1>2. ASSUME NEW l \in Launchers, Authorize(l), policy' # policy PROVE FALSE
  <2>1. policy' = [last |-> op[l].c, count |-> policy.count + 1, done |-> 0]
    BY <1>2 DEF Authorize
  <2>2. op[l].c = c
    BY <2>1
  <2> QED BY <1>2, <2>2, FinishedExits DEF LaneStep, LauncherStep
<1>3. ASSUME NEW l \in Launchers, Complete(l), policy' # policy PROVE FALSE
  <2>1. policy.last = op[l].c /\ policy' = [policy EXCEPT !.done = op[l].gen]
    BY <1>3 DEF Complete, Prepared
  <2>2. op[l].c = c
    BY <2>1, TypeParts DEF IInv, ControlTypes, Policies
  <2> QED BY <1>3, <2>2, FinishedExits DEF LaneStep, LauncherStep
<1> QED BY <1>1, <1>2, <1>3, Frame

\* No step brings a launcher of a finished control past its first look.
LEMMA IdlesOn ==
    ASSUME IInv, Next, NEW c \in Controls, Known(c), Finished(c),
           NEW m \in Launchers
    PROVE  Idles(c, m)'
<1> /\ OpTypes /\ pass \in PassType /\ Idles(c, m) BY TypeParts DEF IInv, Settled, Idles
<1>a. request'[c].action = request[c].action
  BY RequestsStand
<1>s. op'[m] = op[m] => Idles(c, m)'
  BY <1>a DEF Idles
<1>o. op'[m].at = "lane" => Idles(c, m)'
  BY DEF Idles
<1>i. op'[m] = Idle => Idles(c, m)'
  BY ControlAssumption DEF Idles, Idle
<1>1. CASE Aside
  BY <1>1, <1>s, AsideFacts
<1>2. CASE LauncherTimeout
  BY <1>2, <1>s, <1>i, TimeoutFacts DEF Others
<1>3. ASSUME NEW l \in Launchers, Start(l) \/ Stop(l) \/ RunLauncher(l) PROVE Idles(c, m)'
  BY <1>3, <1>s, <1>o, HumanFacts, RunFacts DEF Others
<1>4. ASSUME NEW l \in Launchers, TakeLane(l) PROVE Idles(c, m)'
  <2>1. CASE m # l
    BY <1>4, <1>s, <2>1, TakeFacts DEF Others
  <2>2. CASE m = l /\ op[l].c = c
    <3>1. op[l].kind = request[c].action /\ op[l].kind \in {"restart", "retire"}
      BY <1>4, <2>2, ControlAssumption, TakeFacts DEF IInv, Commands, At, OpTypes, OpType
    <3>2. op'[l].at = IF op[l].kind = "retire" THEN "fence" ELSE "look"
      BY <1>4, <3>1, TakeFacts
    <3> QED BY <1>a, <2>2, <3>1, <3>2 DEF Idles
  <2>3. CASE m = l /\ op[l].c # c
    BY <1>4, <2>3, TakeFacts DEF Idles
  <2> QED BY <2>1, <2>2, <2>3
<1>5. ASSUME NEW l \in Launchers, LaneStep(l) PROVE Idles(c, m)'
  <2>1. CASE m # l
    BY <1>5, <1>s, <2>1, LaneMoves, ExitFacts DEF Others, Walks
  <2>2. CASE m = l /\ op[l].c = c
    BY <1>5, <1>i, <2>2, FinishedExits, ExitFacts
  <2>3. CASE m = l /\ op[l].c # c
    <3>1. op'[l] = Idle \/ op'[l].c = op[l].c
      BY <1>5, LaneMoves, ExitFacts DEF Walks
    <3> QED BY <1>i, <2>3, <3>1 DEF Idles
  <2> QED BY <2>1, <2>2, <2>3
<1>6. ASSUME NEW l \in Launchers, KillLauncher(l) PROVE Idles(c, m)'
  BY <1>6, <1>s, <1>i, ExitFacts DEF KillLauncher, Others
<1> QED BY <1>1, <1>2, <1>3, <1>4, <1>5, <1>6, Actors

\* How a control comes to be finished: its launcher reports success to the pass.
LEMMA FinishedFrom ==
    ASSUME IInv, Next, NEW c \in Controls, Finished(c)', ~Finished(c)
    PROVE  \E l \in Launchers : /\ LaneStep(l) /\ op[l].c = c /\ Known(c)
                               /\ ~Walks(l) /\ ~Exit(l, FALSE) /\ Exit(l, TRUE)
<1> /\ OpTypes /\ pass \in PassType /\ Passing BY TypeParts DEF IInv
<1>0. ~Ended(c) /\ ~(pass.at = "store" /\ pass.ok /\ pass.c = c)
  BY DEF Finished
<1>1. pass'.at = "store" /\ pass'.ok /\ pass'.c = c
  BY <1>0, EndedFrom DEF Finished
<1>2. ASSUME NEW l \in Launchers, NEW ok \in BOOLEAN, Exit(l, ok)
      PROVE  ok /\ op[l].c = c /\ Known(c)
  BY <1>0, <1>1, <1>2, ExitFacts DEF Passing
<1>3. ~Aside
  <2>1. pass' = pass \/ pass'.at # "store"
        \/ ~Aside
    <3>1. ASSUME NEW b \in Controls, Begin(b) PROVE pass'.at # "store"
      BY <3>1 DEF Begin, Resting
    <3>2. RetireResults \/ StoreResult => pass'.at \in {"run", "move"}
      BY DEF RetireResults, StoreResult, PassType
    <3>3. MoveRequest \/ KillPass => pass'.at # "store"
      BY DEF MoveRequest, KillPass, Resting
    <3> QED BY <3>1, <3>2, <3>3 DEF Aside, RoleStep, Register, BarrierTimeout, RoleExits, Request,
               Isolate, ctlVars
  <2> QED BY <1>0, <1>1, <2>1
<1>4. ~LauncherTimeout
  BY <1>1, TimeoutFacts DEF Resting
<1>5. \A l \in Launchers : ~Start(l) /\ ~Stop(l) /\ ~RunLauncher(l) /\ ~TakeLane(l)
  BY <1>0, <1>1, HumanFacts, RunFacts, TakeFacts DEF ctlVars, PassType
<1>6. \A l \in Launchers : ~KillLauncher(l)
  BY <1>2 DEF KillLauncher
<1>7. PICK l \in Launchers : LaneStep(l)
  BY <1>3, <1>4, <1>5, <1>6, Actors
<1>8. ~Walks(l)
  BY <1>0, <1>1 DEF Walks
<1> QED BY <1>2, <1>7, <1>8, LaneMoves

\* Each step keeps a finished control settled, and settles one that finishes.
LEMMA SettledKept ==
    ASSUME IInv, Next
    PROVE  \A c \in Controls : Settled(c)'
<1> SUFFICES ASSUME NEW c \in Controls, Finished(c)' PROVE Settled(c)'
  BY DEF Settled
<1>1. CASE Finished(c)
  <2>1. Gone(c) /\ Known(c)
    BY <1>1 DEF IInv, Settled
  <2>2. Gone(c)' /\ Known(c)'
    BY <2>1, GoneStays, RequestsStand
  <2>3. \A m \in Launchers : Idles(c, m)'
    BY <1>1, <2>1, IdlesOn
  <2> QED BY <1>1, <2>2, <2>3, PolicySettles DEF Settled, Idles
<1>2. CASE ~Finished(c)
  <2>1. PICK l \in Launchers : /\ LaneStep(l) /\ op[l].c = c /\ Known(c)
                               /\ ~Walks(l) /\ ~Exit(l, FALSE) /\ Exit(l, TRUE)
    BY <1>2, FinishedFrom
  <2>2. InLane(l) /\ Through(c)'
    BY <2>1, LaneMoves
  <2>3. ASSUME NEW m \in Launchers PROVE Idles(c, m)'
    <3>1. OpTypes /\ pass \in PassType
      BY TypeParts DEF IInv
    <3>2. CASE m = l
      <4>1. op'[m] = Idle
        BY <2>1, <3>1, <3>2, ExitFacts
      <4> QED BY <4>1, ControlAssumption DEF Idles, Idle
    <3>3. CASE m # l
      <4>1. op'[m] = op[m] /\ ~InLane(m)
        BY <2>1, <2>2, <3>1, <3>3, ExitFacts, OthersWait DEF Others
      <4>2. op[m].c = c => op[m].at = "lane"
        BY <4>1, ControlAssumption DEF IInv, Commands, InLane
      <4> QED BY <4>1, <4>2 DEF Idles
    <3> QED BY <3>2, <3>3
  <2>4. Known(c)'
    BY <2>1, RequestsStand
  <2> QED BY <2>2, <2>3, <2>4 DEF Settled, Idles, Through
<1> QED BY <1>1, <1>2

------------------------------------------------------------------------------
(* The invariant and what follows. *)

\* The invariant holds at the start, and each step keeps it.
LEMMA InitIInv ==
    ASSUME Init
    PROVE  IInv
<1> USE ControlAssumption DEF Init
<1>1. TypeOK
  <2>1. RoleTypes
    BY DEF RoleTypes, Lifecycles
  <2>2. Idle \in OpType /\ Resting \in PassType
    BY DEF Idle, OpType, Places, Resting, PassType
  <2>3. OpTypes /\ pass \in PassType
    BY <2>2 DEF OpTypes
  <2>4. ControlTypes
    <3>1. [action |-> "restart", expected |-> 0, at |-> "none"] \in Requests
      BY DEF Requests, Lifecycles
    <3>2. policy \in Policies
      BY DEF Policies, Lifecycles
    <3> QED BY <3>1, <3>2 DEF ControlTypes, Results
  <2>5. BudgetType
    BY DEF BudgetType
  <2> QED BY <2>1, <2>3, <2>4, <2>5, TypeParts
<1>2. Generations
  BY DEF Generations, Running, Known
<1>3. Breaker
  <2>1. Counted = {}
    BY DEF Counted, Signalled
  <2>2. IsFiniteSet({}) /\ Cardinality({}) = 0
    BY FS_EmptySet
  <2> QED BY <2>1, <2>2 DEF Breaker
<1>4. Passing /\ History
  BY DEF Passing, Resting, History, Ended
<1>5. \A l \in Launchers : Commands(l) /\ Stands(l)
  BY DEF Commands, Stands, Idle, InLane, StopPlaces, LaunchPlaces
<1>6. \A c \in Controls : Settled(c)
  BY DEF Settled, Finished, Ended, Resting
<1> QED BY <1>1, <1>2, <1>3, <1>4, <1>5, <1>6 DEF IInv

LEMMA NextIInv ==
    ASSUME IInv, [Next]_vars
    PROVE  IInv'
<1>1. CASE Next
  <2>1. TypeOK'
    BY <1>1, RoleTypesKept, OpTypesKept, ControlTypesKept
       DEF TypeOK, RoleTypes, OpTypes, OpType, PassType, ControlTypes, BudgetType
  <2>2. Generations' /\ Breaker' /\ Passing' /\ History'
    BY <1>1, GenerationsKept, BreakerKept, PassingKept, HistoryKept
  <2>3. (\A l \in Launchers : Commands(l) /\ Stands(l))'
    BY <1>1, CommandsKept, StandsKept
  <2>4. (\A c \in Controls : Settled(c))'
    BY <1>1, SettledKept
  <2> QED BY <2>1, <2>2, <2>3, <2>4 DEF IInv
<1>2. CASE UNCHANGED vars
  BY <1>2 DEF vars, roleVars, ctlVars, IInv, TypeOK, Generations, Running, Known, Named, Breaker,
              Counted, Signalled, Gone, Passing, History, Ended, Commands, Stands, InLane,
              Prepared, Target, Settled, Finished
<1> QED BY <1>1, <1>2

\* The inductive invariant: the lifecycle record and the capability of the role, where
\* each launcher stands, and what a finished control has left behind.
THEOREM Invariance == Safety => []IInv
BY InitIInv, NextIInv, PTL DEF Safety

\* A role is one process, in every run: whatever launchers, passes and processes are
\* killed, and however often, for any number of launchers and controls.
THEOREM OneProcess == Safety => []OneGeneration
<1>1. IInv => OneGeneration
  <2> SUFFICES ASSUME IInv PROVE OneGeneration OBVIOUS
  <2>1. Running \subseteq {record}
    BY DEF IInv, Generations, Running
  <2>2. IsFiniteSet({record}) /\ Cardinality({record}) = 1
    BY FS_Singleton
  <2>3. Cardinality(Running) <= 1
    BY <2>1, <2>2, FS_Subset
  <2>4. Running # {} => record \in Running
    BY <2>1
  <2> QED BY <2>3, <2>4 DEF OneGeneration, IInv, Generations
<1> QED BY <1>1, Invariance, PTL

\* A control signals only the generation it names, no more controls have restarted the
\* role than its circuit breaker allows, and a completed control has ended what it names.
THEOREM ControlsSignal == Safety => []SignalsAllowed
<1>1. IInv => SignalsAllowed
  <2> SUFFICES ASSUME IInv PROVE SignalsAllowed OBVIOUS
  <2>1. \A d \in did : d[2] = "signal" => d[3] = request[d[1]].expected
    BY DEF IInv, History, Named
  <2>2. Cardinality(Signalled) <= Maximum
    <3>1. Signalled \subseteq Counted /\ IsFiniteSet(Counted)
      BY DEF Counted, IInv, Breaker
    <3>2. IsFiniteSet(Signalled) /\ Cardinality(Signalled) <= Cardinality(Counted)
      BY <3>1, FS_Subset
    <3>3. Cardinality(Signalled) \in Nat /\ Cardinality(Counted) \in Nat
      BY <3>1, <3>2, FS_CardinalityType
    <3> QED BY <3>2, <3>3, ControlAssumption DEF IInv, Breaker, TypeOK, Policies
  <2>3. \A c \in Controls : result[c] = "completed" => request[c].expected \notin alive
    BY DEF IInv, History, Settled, Finished, Gone, Named
  <2> QED BY <2>1, <2>2, <2>3 DEF SignalsAllowed, Signalled
<1> QED BY <1>1, Invariance, PTL

\* A step adds nothing to the history of a completed control.
LEMMA FinalStep ==
    ASSUME IInv, Next, NEW c \in Controls, Ended(c)
    PROVE  {d \in did' : d[1] = c} = {d \in did : d[1] = c}
<1>1. Known(c) /\ Finished(c) /\ did \subseteq did'
  BY EndedStays, DidStays DEF Finished
<1>2. SUFFICES ASSUME NEW d \in did', d \notin did, d[1] = c PROVE FALSE
  BY <1>1
<1>3. CASE StoreResult
  <2>1. d = <<pass.c, "completed", Named(pass.c)>> /\ pass.c = c
    BY <1>2, <1>3, StoreFacts
  <2> QED BY <1>2, <2>1 DEF Ended
<1>4. CASE ~StoreResult
  <2>1. PICK l \in Launchers :
          /\ Signal(l) \/ Release(l)
          /\ \/ did' = did \union {<<op[l].c, "signal", Named(op[l].c)>>}
             \/ did' = did \union {<<op[l].c, "launch", op[l].gen>>}
    BY <1>2, <1>4, DidGrows
  <2>2. d = <<op[l].c, "signal", Named(op[l].c)>> \/ d = <<op[l].c, "launch", op[l].gen>>
    BY <1>2, <2>1
  <2>3. op[l].c = c
    BY <1>2, <2>2
  <2> QED BY <1>1, <2>1, <2>3, FinishedExits DEF LaneStep, LauncherStep
<1> QED BY <1>3, <1>4

\* What a control completed stays as it is, through repeated requests, results retired to
\* the filter and late launchers of earlier passes.
THEOREM ResultsAreFinal == Safety => ResultIsFinal
<1>1. IInv /\ [Next]_vars =>
        [\A c \in Controls : <<c, "completed", request[c].expected>> \in did =>
           {d \in did' : d[1] = c} = {d \in did : d[1] = c}]_vars
  BY FinalStep DEF Ended, Named
<1> QED BY <1>1, Invariance, PTL DEF Safety, ResultIsFinal

=============================================================================
