---------------------------- MODULE RoleControl ----------------------------
(* One role of a team, and everything that starts, stops and replaces its process:
   launch-team.sh (start, stop, restart-role, retire-role), worker-control.py, whose
   pass runs authenticated control requests through the launcher, restart-policy.py
   with its circuit breaker, control-grant.py, and the lifecycle record of
   process-lifecycle.py. A generation is the createdAt of a launch. The launcher's
   commands exclude each other as LaneLock shows; the processes they fork do not. *)
EXTENDS Naturals, FiniteSets

CONSTANTS Controls, Launchers, Nobody,
          Maximum,     \* MAX_AUTHORIZED_RESTARTS
          Retention,   \* FULL_RESULT_RETENTION
          MaxGen,      \* bound: generations minted; a mint beyond it fails
          Budgets      \* bounds: how many start and stop commands, control requests
                       \* (repeated ones included), exits of the role's process, and
                       \* faults (a launcher or a pass killed, a timeout, a launch that
                       \* fails); one record per scenario

ASSUME ControlAssumption ==
    /\ Nobody \notin Controls \union Launchers
    /\ Maximum \in Nat /\ Retention \in Nat /\ MaxGen \in Nat
    /\ Budgets \subseteq [{"starts", "stops", "requests", "exits", "faults"} -> Nat]

VARIABLES
    record,    \* the generation of the lifecycle record, 0 for none
    alive,     \* generations with a process
    waiting,   \* of these, the ones at the barrier of their launcher
    forked,    \* generations forked and not yet registered
    minted,    \* the last generation minted
    cap,       \* the generation whose publication capability is active, 0 for none
    policy,    \* restart-policy: last control, its count, the generation it completed with
    request,   \* per control: action, generation observed, place in the control outbox
    result,    \* protected results
    consumed,  \* the filter of identities whose result was retired
    pass,      \* the reconciling pass: where, which control, which launcher, its answer
    op,        \* the launcher processes
    lane,      \* who holds the role's lane (or the fence, for a stop)
    did,       \* history: <<control, effect, generation>>
    stopped,   \* history: a stop was the last command
    budget     \* what is left of the bounds

roleVars == <<record, alive, waiting, forked, minted, cap>>
ctlVars  == <<request, result, consumed, pass>>
vars == <<roleVars, policy, ctlVars, op, lane, did, stopped, budget>>

Gens == 1..MaxGen
Places == {"idle", "lane", "look", "authorize", "fence", "signal", "forget", "mint",
           "fork", "go", "ready", "complete"}
Idle == [kind |-> "none", c |-> Nobody, at |-> "idle", gen |-> 0]
Resting == [at |-> "idle", c |-> Nobody, by |-> Nobody, ok |-> FALSE]

\* The records as their readers accept them.
Lifecycles == 0..MaxGen
Policies == [last: Controls \union {Nobody}, count: Nat, done: Lifecycles]
Requests == [action: {"restart", "retire"}, expected: Lifecycles,
             at: {"none", "pending", "done", "failed"}]
Results == {"none", "completed", "failed"}

TypeOK ==
    /\ record \in Lifecycles /\ cap \in 0..MaxGen /\ minted \in 0..MaxGen
    /\ waiting \subseteq alive /\ alive \subseteq Gens /\ forked \subseteq Gens
    /\ policy \in Policies
    /\ request \in [Controls -> Requests] /\ result \in [Controls -> Results]
    /\ consumed \subseteq Controls
    /\ pass \in [at: {"idle", "retire", "run", "wait", "store", "move"},
                 c: Controls \union {Nobody},
                 by: Launchers \union {Nobody}, ok: BOOLEAN]
    /\ op \in [Launchers -> [kind: {"none", "start", "stop", "restart", "retire"},
                             c: Controls \union {Nobody}, at: Places, gen: 0..MaxGen]]
    /\ lane \in Launchers \union {Nobody}
    /\ did \subseteq Controls \X {"signal", "launch", "completed"} \X Gens
    /\ stopped \in BOOLEAN
    /\ budget \in [{"starts", "stops", "requests", "exits", "faults"} -> Nat]

Init ==
    /\ record = 0 /\ cap = 0 /\ minted = 0
    /\ alive = {} /\ waiting = {} /\ forked = {}
    /\ policy = [last |-> Nobody, count |-> 0, done |-> 0]
    /\ request = [c \in Controls |-> [action |-> "restart", expected |-> 0, at |-> "none"]]
    /\ result = [c \in Controls |-> "none"] /\ consumed = {}
    /\ pass = Resting
    /\ op = [l \in Launchers |-> Idle] /\ lane = Nobody
    /\ did = {} /\ stopped = FALSE
    /\ budget \in Budgets

Spend(what) == /\ budget[what] > 0
               /\ budget' = [budget EXCEPT ![what] = @ - 1]

Live == record \in alive
Running == alive \ waiting

------------------------------------------------------------------------------
\* The role's processes.

\* The child registers itself, under the lock of the lifecycle records.
Register(g) ==
    /\ g \in forked
    /\ forked' = forked \ {g}
    /\ IF Live
       THEN UNCHANGED <<record, alive, waiting>>    \* refused: the child exits
       ELSE /\ record' = g
            /\ alive' = alive \union {g} /\ waiting' = waiting \union {g}
    /\ UNCHANGED <<minted, cap, policy, ctlVars, op, lane, did, stopped, budget>>

\* No go within the time limit: the child exits and its record stays, dead.
BarrierTimeout(g) ==
    /\ g \in waiting
    /\ waiting' = waiting \ {g} /\ alive' = alive \ {g}
    /\ UNCHANGED <<record, forked, minted, cap, policy, ctlVars, op, lane, did, stopped, budget>>

RoleExits(g) ==
    /\ g \in Running /\ Spend("exits")
    /\ alive' = alive \ {g}
    /\ UNCHANGED <<record, waiting, forked, minted, cap, policy, ctlVars, op, lane, did, stopped>>

------------------------------------------------------------------------------
\* The launcher. A command ends with an exit code, which only a pass reads.

At(l, place) == op[l].at = place
Go(l, place) == op' = [op EXCEPT ![l].at = place]
Target(l) == IF op[l].kind = "stop" THEN op[l].gen ELSE request[op[l].c].expected

\* The exit code, to the pass if one waits for this launcher.
Reply(l, ok) ==
    pass' = IF pass.at = "wait" /\ pass.by = l
            THEN [pass EXCEPT !.at = "store", !.ok = ok] ELSE pass

Exit(l, ok) ==
    /\ op' = [op EXCEPT ![l] = Idle]
    /\ lane' = IF lane = l THEN Nobody ELSE lane
    /\ Reply(l, ok)

\* One more step of the command, or its end.
Step(l, place) == Go(l, place) /\ UNCHANGED <<lane, pass>>

Command(l, kind, c) ==
    /\ At(l, "idle")
    /\ op' = [op EXCEPT ![l] = [kind |-> kind, c |-> c, at |-> "lane", gen |-> 0]]

Start(l) == /\ Spend("starts") /\ Command(l, "start", Nobody)
            /\ UNCHANGED <<roleVars, policy, ctlVars, lane, did, stopped>>
Stop(l) == /\ Spend("stops") /\ Command(l, "stop", Nobody)
           /\ UNCHANGED <<roleVars, policy, ctlVars, lane, did, stopped>>

TakeLane(l) ==
    /\ At(l, "lane") /\ lane = Nobody
    /\ lane' = l
    /\ Go(l, CASE op[l].kind = "start" -> "mint"
               [] op[l].kind = "retire" -> "fence"
               [] OTHER -> "look")
    /\ stopped' = FALSE
    /\ UNCHANGED <<roleVars, policy, ctlVars, did, budget>>

\* restart-policy.py check: the control is the last one it authorized.
Prepared(c) == policy.last = c

\* restart-role reads the record, stop lists the team.
\* Mutant: a prepared control is not asked whether it is complete.
Look_Unbound(l) ==
    /\ At(l, "look")
    /\ IF op[l].kind = "stop"
       THEN /\ op' = [op EXCEPT ![l].at = "fence", ![l].gen = record]
            /\ UNCHANGED <<lane, pass>>
       ELSE IF record = request[op[l].c].expected THEN Step(l, "authorize")
       ELSE IF ~Prepared(op[l].c) THEN Exit(l, FALSE) ELSE Step(l, "fence")
    /\ UNCHANGED <<roleVars, policy, request, result, consumed, did, stopped, budget>>
Look(l) ==
    /\ At(l, "look")
    /\ LET c == op[l].c IN
       IF op[l].kind = "stop"
       THEN /\ op' = [op EXCEPT ![l].at = "fence", ![l].gen = record]
            /\ UNCHANGED <<lane, pass>>
       ELSE \/ record = request[c].expected /\ Step(l, "authorize")
            \/ /\ record # request[c].expected
               /\ IF ~Prepared(c) THEN Exit(l, FALSE)
                  ELSE IF policy.done # 0 THEN Exit(l, TRUE)
                  ELSE IF record = 0 THEN Step(l, "fence")
                  ELSE /\ op' = [op EXCEPT ![l].at = "complete", ![l].gen = record]
                       /\ UNCHANGED <<lane, pass>>
    /\ UNCHANGED <<roleVars, policy, request, result, consumed, did, stopped, budget>>

\* restart-policy.py authorize: a replay, the breaker, the backoff, or one more count.
Authorize(l) ==
    /\ At(l, "authorize")
    /\ LET c == op[l].c IN
       \/ /\ Prepared(c)
          /\ IF policy.done # 0 THEN Exit(l, TRUE) ELSE Step(l, "fence")
          /\ UNCHANGED policy
       \/ /\ ~Prepared(c)
          /\ policy.count >= Maximum \/ policy.last # Nobody
          /\ Exit(l, FALSE) /\ UNCHANGED policy
       \/ /\ ~Prepared(c) /\ policy.count < Maximum
          /\ policy' = [last |-> c, count |-> policy.count + 1, done |-> 0]
          /\ Step(l, "fence")
    /\ UNCHANGED <<roleVars, request, result, consumed, did, stopped, budget>>

AfterStop(l) == IF op[l].kind = "restart" THEN Step(l, "mint") ELSE Exit(l, TRUE)

\* revoke-role or revoke-team, before any signal, for the generation it names only.
Fence(l) ==
    /\ At(l, "fence")
    /\ IF record \notin {0, Target(l)} /\ op[l].kind # "stop"
       THEN Exit(l, FALSE) /\ UNCHANGED cap
       ELSE /\ cap' = 0
            /\ IF record = 0 THEN AfterStop(l) ELSE Step(l, "signal")
    /\ stopped' = (op[l].kind = "stop" /\ record = 0)
    /\ UNCHANGED <<record, alive, waiting, forked, minted, policy, request, result, consumed,
                   did, budget>>

\* lifecycle_stop_instance: TERM, then KILL, of the verified generation.
\* Mutant: whatever the record names is signalled.
Signal_Current(l) ==
    /\ At(l, "signal")
    /\ alive' = alive \ {record} /\ waiting' = waiting \ {record}
    /\ did' = IF Live /\ op[l].c # Nobody
              THEN did \union {<<op[l].c, "signal", record>>} ELSE did
    /\ Step(l, "forget")
    /\ UNCHANGED <<record, forked, minted, cap, policy, request, result, consumed, stopped, budget>>
Signal(l) ==
    /\ At(l, "signal")
    /\ IF record # Target(l)
       THEN /\ Exit(l, FALSE) /\ UNCHANGED <<alive, waiting, did>>
       ELSE /\ alive' = alive \ {record} /\ waiting' = waiting \ {record}
            /\ did' = IF Live /\ op[l].c # Nobody
                      THEN did \union {<<op[l].c, "signal", record>>} ELSE did
            /\ Step(l, "forget")
    /\ UNCHANGED <<record, forked, minted, cap, policy, request, result, consumed, stopped, budget>>

Forget(l) ==
    /\ At(l, "forget")
    /\ IF record # Target(l) THEN Exit(l, FALSE) /\ UNCHANGED <<record, stopped>>
       ELSE /\ record' = 0
            /\ AfterStop(l)
            /\ stopped' = (op[l].kind = "stop")
    /\ UNCHANGED <<alive, waiting, forked, minted, cap, policy, request, result, consumed, did,
                   budget>>

\* launch_one: nothing to do for a live generation, else forget the dead one and mint.
\* Mutant: a record is replaced without looking whether its process lives.
Mint_Unchecked(l) ==
    /\ At(l, "mint") /\ minted < MaxGen
    /\ record' = 0
    /\ minted' = minted + 1 /\ cap' = minted + 1
    /\ op' = [op EXCEPT ![l].at = "fork", ![l].gen = minted + 1]
    /\ UNCHANGED <<alive, waiting, forked, policy, ctlVars, lane, did, stopped, budget>>
Mint(l) ==
    /\ At(l, "mint")
    /\ IF Live THEN Exit(l, op[l].kind = "start") /\ UNCHANGED <<record, minted, cap>>
       ELSE IF minted = MaxGen
       THEN Exit(l, FALSE) /\ record' = 0 /\ UNCHANGED <<minted, cap>>
       ELSE /\ record' = 0
            /\ minted' = minted + 1 /\ cap' = minted + 1
            /\ op' = [op EXCEPT ![l].at = "fork", ![l].gen = minted + 1]
            /\ UNCHANGED <<lane, pass>>
    /\ UNCHANGED <<alive, waiting, forked, policy, request, result, consumed, did, stopped,
                   budget>>

Fork(l) ==
    /\ At(l, "fork")
    /\ forked' = forked \union {op[l].gen}
    /\ Go(l, "go")
    /\ UNCHANGED <<record, alive, waiting, minted, cap, policy, ctlVars, lane, did, stopped,
                   budget>>

\* The launcher found its launch dead, or its supervisor did not come up: it revokes
\* exactly what it minted, and stops and forgets exactly what it launched.
Undo(l) ==
    LET g == op[l].gen IN
    /\ cap' = IF cap = g THEN 0 ELSE cap
    /\ alive' = alive \ {g} /\ waiting' = waiting \ {g}
    /\ record' = IF record = g THEN 0 ELSE record
    /\ Exit(l, FALSE)

\* The launcher verifies the registration and releases the barrier.
Release(l) ==
    /\ At(l, "go") /\ op[l].gen \notin forked
    /\ LET g == op[l].gen IN
       IF record = g /\ g \in waiting
       THEN /\ waiting' = waiting \ {g}
            /\ did' = IF op[l].c = Nobody THEN did ELSE did \union {<<op[l].c, "launch", g>>}
            /\ Step(l, "ready")
            /\ UNCHANGED <<record, alive, cap>>
       ELSE Undo(l) /\ UNCHANGED did
    /\ UNCHANGED <<forked, minted, policy, request, result, consumed, stopped, budget>>

Ready(l) ==
    /\ At(l, "ready")
    /\ IF op[l].kind = "start" THEN Exit(l, TRUE)
       ELSE IF record \in {0, op[l].gen} THEN Step(l, "complete") ELSE Exit(l, FALSE)
    /\ UNCHANGED <<roleVars, policy, request, result, consumed, did, stopped, budget>>

SupervisorFails(l) ==
    /\ At(l, "ready") /\ Spend("faults")
    /\ Undo(l)
    /\ UNCHANGED <<forked, minted, policy, request, result, consumed, did, stopped>>

\* restart-policy.py complete binds the control to its replacement.
Complete(l) ==
    /\ At(l, "complete")
    /\ LET ok == Prepared(op[l].c) /\ policy.done \in {0, op[l].gen} IN
       /\ policy' = IF ok THEN [policy EXCEPT !.done = op[l].gen] ELSE policy
       /\ Exit(l, ok)
    /\ UNCHANGED <<roleVars, request, result, consumed, did, stopped, budget>>

\* Killed alone: its holder frees the lane, and a pass reads a failing exit code.
KillLauncher(l) ==
    /\ ~At(l, "idle") /\ Spend("faults")
    /\ Exit(l, FALSE)
    /\ UNCHANGED <<roleVars, policy, request, result, consumed, did, stopped>>

LauncherStep(l) == \/ Look(l) \/ Authorize(l) \/ Fence(l) \/ Signal(l) \/ Forget(l)
                   \/ Mint(l) \/ Fork(l) \/ Release(l) \/ Ready(l) \/ Complete(l)

------------------------------------------------------------------------------
\* The control outbox and its one reconciling pass.

\* The identity of a control is a digest of its meaning: a repeated request is the same.
Request(c) ==
    /\ request[c].at # "pending" /\ Spend("requests")
    /\ \/ /\ request[c].at = "none" /\ record # 0
          /\ \E a \in {"restart", "retire"}:
               request' = [request EXCEPT ![c] = [action |-> a, expected |-> record,
                                                  at |-> "pending"]]
       \/ /\ request[c].at # "none"
          /\ request' = [request EXCEPT ![c].at = "pending"]
    /\ UNCHANGED <<roleVars, policy, result, consumed, pass, op, lane, did, stopped>>

Resulted == {c \in Controls: result[c] # "none"}
\* Of a retired identity the filter knows only that it was there.
Retired(c) == c \in consumed

\* Mutant: a full store of results holds the requests back.
Begin_Full(c) ==
    /\ pass.at = "idle" /\ request[c].at = "pending"
    /\ result[c] # "none" \/ Cardinality(Resulted) < Retention
    /\ pass' = [Resting EXCEPT !.c = c, !.at = IF result[c] # "none" THEN "move" ELSE "run"]
    /\ UNCHANGED <<roleVars, policy, request, result, consumed, op, lane, did, stopped, budget>>
Begin(c) ==
    /\ pass.at = "idle" /\ request[c].at = "pending"
    /\ pass' = [Resting EXCEPT !.c = c, !.at =
                  IF result[c] # "none" \/ Retired(c) THEN "move"
                  ELSE IF Cardinality(Resulted) >= Retention THEN "retire" ELSE "run"]
    /\ consumed' = IF result[c] = "none" /\ ~Retired(c)
                      /\ Cardinality(Resulted) >= Retention
                   THEN consumed \union Resulted ELSE consumed
    /\ UNCHANGED <<roleVars, policy, request, result, op, lane, did, stopped, budget>>

\* The lead's capability was revoked or the request expired: it is moved aside unread.
\* A request whose result is stored needs no live requester any more.
Isolate(c) ==
    /\ pass.at = "idle" /\ request[c].at = "pending"
    /\ result[c] = "none" /\ ~Retired(c)
    /\ request' = [request EXCEPT ![c].at = "failed"]
    /\ UNCHANGED <<roleVars, policy, result, consumed, pass, op, lane, did, stopped, budget>>

\* The results whose identity the filter now holds are unlinked.
RetireResults ==
    /\ pass.at = "retire"
    /\ result' = [c \in Controls |-> IF c \in consumed THEN "none" ELSE result[c]]
    /\ pass' = [pass EXCEPT !.at = "run"]
    /\ UNCHANGED <<roleVars, policy, request, consumed, op, lane, did, stopped, budget>>

\* The grant is issued, and the launcher started.
RunLauncher(l) ==
    /\ pass.at = "run"
    /\ Command(l, request[pass.c].action, pass.c)
    /\ pass' = [pass EXCEPT !.at = "wait", !.by = l]
    /\ UNCHANGED <<roleVars, policy, request, result, consumed, lane, did, stopped, budget>>

\* store_protected_result: the first result of a control stays.
StoreResult ==
    /\ pass.at = "store"
    /\ LET c == pass.c IN
       result' = IF result[c] # "none" \/ Retired(c) THEN result
                 ELSE [result EXCEPT ![c] = IF pass.ok THEN "completed" ELSE "failed"]
    /\ pass' = [pass EXCEPT !.at = "move"]
    /\ did' = IF result' # result /\ pass.ok
              THEN did \union {<<pass.c, "completed", request[pass.c].expected>>} ELSE did
    /\ UNCHANGED <<roleVars, policy, request, consumed, op, lane, stopped, budget>>

\* write_result: the request moves to done or failed. A consumed identity is a failure.
MoveRequest ==
    /\ pass.at = "move"
    /\ request' = [request EXCEPT ![pass.c].at =
                     IF result[pass.c] = "completed" THEN "done" ELSE "failed"]
    /\ pass' = Resting
    /\ UNCHANGED <<roleVars, policy, result, consumed, op, lane, did, stopped, budget>>

\* The launcher took longer than subprocess.run allows: it is killed, and
\* TimeoutExpired, which nothing catches, ends the pass.
LauncherTimeout ==
    /\ pass.at = "wait" /\ Spend("faults")
    /\ op' = [op EXCEPT ![pass.by] = Idle]
    /\ lane' = IF lane = pass.by THEN Nobody ELSE lane
    /\ pass' = Resting
    /\ UNCHANGED <<roleVars, policy, request, result, consumed, did, stopped>>

\* The pass is killed; a launcher it started goes on.
KillPass ==
    /\ pass.at # "idle" /\ Spend("faults")
    /\ pass' = Resting
    /\ UNCHANGED <<roleVars, policy, request, result, consumed, op, lane, did, stopped>>

PassStep == \/ \E c \in Controls: Begin(c)
            \/ RetireResults \/ StoreResult \/ MoveRequest
            \/ \E l \in Launchers: RunLauncher(l)

------------------------------------------------------------------------------
Next == \/ \E g \in Gens: Register(g) \/ BarrierTimeout(g) \/ RoleExits(g)
        \/ \E l \in Launchers: \/ Start(l) \/ Stop(l) \/ TakeLane(l) \/ LauncherStep(l)
                               \/ SupervisorFails(l) \/ KillLauncher(l)
        \/ \E c \in Controls: Request(c) \/ Isolate(c)
        \/ PassStep \/ LauncherTimeout \/ KillPass

\* Processes that are not killed run; a barrier times out; the dispatcher keeps
\* reconciling, on no help from isolation. Requests, starts, stops and exits are
\* nobody's duty.
Fairness ==
    /\ \A l \in Launchers: WF_vars(LauncherStep(l)) /\ SF_vars(TakeLane(l))
    /\ \A g \in Gens: WF_vars(Register(g)) /\ WF_vars(BarrierTimeout(g))
    /\ WF_vars(PassStep)

Safety == Init /\ [][Next]_vars
Spec == Safety /\ Fairness

------------------------------------------------------------------------------
\* A role is one process: whatever launchers die where, no two generations run at once, a
\* process that runs is the one the lifecycle record names, the authority to publish is
\* its own or nobody's, and after a stop none runs or can publish until another command.
OneGeneration ==
    /\ TypeOK
    /\ Cardinality(Running) <= 1
    /\ Running # {} => record \in Running
    /\ \A g \in Running: cap \in {0, g}
    /\ stopped => Running = {} /\ cap = 0

\* A control signals no generation but the one its requester saw, no more controls have
\* signalled one than the circuit breaker allows, and a completed control has ended the
\* generation it names, however requests, replays and kills interleave.
SignalsAllowed ==
    /\ \A d \in did: d[2] = "signal" => d[3] = request[d[1]].expected
    /\ Cardinality({c \in Controls: request[c].action = "restart"
                                    /\ \E g \in Gens: <<c, "signal", g>> \in did}) <= Maximum
    /\ \A c \in Controls: result[c] = "completed" => request[c].expected \notin alive

\* A control that completed does nothing more: not when it is requested again after its
\* result was retired to the filter, nor through a late launcher of an earlier pass.
ResultIsFinal ==
    [][\A c \in Controls: <<c, "completed", request[c].expected>> \in did =>
         {d \in did': d[1] = c} = {d \in did: d[1] = c}]_vars

\* A control launches at most one replacement.
OneReplacement ==
    \A c \in Controls: Cardinality({g \in Gens: <<c, "launch", g>> \in did}) <= 1

\* Each request is answered, also when the pass or a launcher was killed on it.
RequestsSettle ==
    \A c \in Controls: request[c].at = "pending" ~> request[c].at \in {"done", "failed"}
=============================================================================
