----------------------------- MODULE Publication -----------------------------
(***************************************************************************)
(* What the durable outbox promises of what agents write, whichever brokers *)
(* deliver it and wherever they die: an artifact is posted once; its task   *)
(* is moved only when it is on the tracker, and it is announced only when   *)
(* that is done; it counts as delivered only with a receipt; it is given up *)
(* or delivered once and for all; and while the task is held no agent's     *)
(* comment or move reaches the tracker.                                     *)
(***************************************************************************)
EXTENDS Naturals

CONSTANTS Artifacts, \* what agents submit
          Moves      \* the ones that ask for a new status of the task

VARIABLES posted,    \* how often each is on the tracker
          reached,   \* the ones whose status the task was given
          announced, \* the ones the event log knows
          receipted, \* the ones with a receipt
          outcome,   \* "open", "done" or "failed"
          held       \* whether the task is held

effects == <<posted, reached, announced, receipted>>
vars == <<effects, outcome, held>>

Init ==
    /\ posted = [a \in Artifacts |-> 0]
    /\ reached = {} /\ announced = {} /\ receipted = {}
    /\ outcome = [a \in Artifacts |-> "open"]
    /\ held \in BOOLEAN

Post(a) ==
    /\ ~held /\ posted[a] = 0
    /\ posted' = [posted EXCEPT ![a] = 1]
    /\ UNCHANGED <<reached, announced, receipted, outcome, held>>

Reach(a) ==
    /\ ~held /\ posted[a] = 1 /\ a \in Moves
    /\ reached' = reached \union {a}
    /\ UNCHANGED <<posted, announced, receipted, outcome, held>>

Announce(a) ==
    /\ posted[a] = 1 /\ (a \in Moves => a \in reached)
    /\ announced' = announced \union {a}
    /\ UNCHANGED <<posted, reached, receipted, outcome, held>>

Certify(a) ==
    /\ a \in announced
    /\ receipted' = receipted \union {a}
    /\ UNCHANGED <<posted, reached, announced, outcome, held>>

Settle(a) ==
    /\ outcome[a] = "open"
    /\ \/ a \in receipted /\ outcome' = [outcome EXCEPT ![a] = "done"]
       \/ outcome' = [outcome EXCEPT ![a] = "failed"]
    /\ UNCHANGED <<effects, held>>

Hold == held' \in BOOLEAN /\ UNCHANGED <<effects, outcome>>

Next == \/ \E a \in Artifacts : Post(a) \/ Reach(a) \/ Announce(a) \/ Certify(a) \/ Settle(a)
        \/ Hold

Spec == Init /\ [][Next]_vars
=============================================================================
