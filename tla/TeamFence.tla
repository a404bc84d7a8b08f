----------------------------- MODULE TeamFence -----------------------------
(* What the launcher's team fence promises its commands, as LaneLock implements it:
   many shared commands or one exclusive stop are inside; a command waits alone at
   the turnstile, so nobody enters past a stop that waits for those inside. *)
CONSTANTS Brokers, Nobody

VARIABLES turn,     \* who is at the turnstile: Nobody or a broker
          mode,     \* the mode each broker asked for
          inside    \* the brokers inside the fence

vars == <<turn, mode, inside>>

Modes == {"shared", "exclusive"}

Init == turn = Nobody /\ mode \in [Brokers -> Modes] /\ inside = {}

Compatible(b) == \A c \in inside \ {b}: mode[b] = "shared" /\ mode[c] = "shared"

\* A command that is neither inside nor at the turnstile chooses its mode.
Ask(b) == /\ turn # b /\ b \notin inside
          /\ \E m \in Modes: mode' = [mode EXCEPT ![b] = m]
          /\ UNCHANGED <<turn, inside>>

Admit(b) == /\ turn = Nobody /\ b \notin inside
            /\ turn' = b
            /\ UNCHANGED <<mode, inside>>

Enter(b) == /\ turn = b /\ Compatible(b)
            /\ turn' = Nobody
            /\ inside' = inside \union {b}
            /\ UNCHANGED mode

\* The holder of a command that died gives its place up.
Cancel(b) == /\ turn = b
             /\ turn' = Nobody
             /\ UNCHANGED <<mode, inside>>

Leave(b) == /\ b \in inside
            /\ inside' = inside \ {b}
            /\ UNCHANGED <<turn, mode>>

Next == \E b \in Brokers: Ask(b) \/ Admit(b) \/ Enter(b) \/ Cancel(b) \/ Leave(b)

Served(b) == Enter(b) \/ (Cancel(b) /\ Compatible(b))

Safety == Init /\ [][Next]_vars

Spec == Safety /\ \A b \in Brokers: WF_vars(Served(b))
=============================================================================
