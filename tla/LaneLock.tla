----------------------------- MODULE LaneLock ------------------------------
(* launch-lane-lock.py and its client in launch-team.sh. A command of the launcher
   takes the team fence, shared for a start and exclusive for a stop, then the lane
   of the task it starts. Each lock is held for it by a child process, the holder,
   which polls flock while its parent lives, acknowledges, and exits when it is
   released or orphaned. The kernel frees the locks of a process that exits. *)
EXTENDS Naturals

CONSTANTS Brokers,        \* processes that run launcher commands
          Lanes,          \* the task, gate and role lanes of the team
          Nobody,
          MaxFaults       \* bound: commands killed, and holders killed alone

ASSUME LaneAssumption == Nobody \notin Brokers /\ MaxFaults \in Nat

VARIABLES step,      \* where each command is
          mode,      \* shared (start, restart, retire) or exclusive (stop)
          lane,      \* the lane a shared command takes
          holder,    \* the state of each holder process
          late,      \* holders that saw their parent alive just before it died
          release,   \* release directories in the barriers
          faults

vars == <<step, mode, lane, holder, late, release, faults>>

Slots == Brokers \X {"team", "task"}
Team(b) == <<b, "team">>
Task(b) == <<b, "task">>

Steps == {"idle", "fence", "lane", "work", "freeLane", "freeFence", "dead"}
Holders == {"none", "admission", "queue", "granted", "ready", "lost"}

TypeOK == /\ step \in [Brokers -> Steps]
          /\ mode \in [Brokers -> {"shared", "exclusive"}]
          /\ lane \in [Brokers -> Lanes]
          /\ holder \in [Slots -> Holders]
          /\ late \subseteq Slots /\ release \subseteq Slots
          /\ faults \in 0..MaxFaults

Init == /\ step = [b \in Brokers |-> "idle"]
        /\ mode \in [Brokers -> {"shared"}]
        /\ lane \in [Brokers -> Lanes]
        /\ holder = [s \in Slots |-> "none"]
        /\ late = {} /\ release = {}
        /\ faults = 0

Alive(b) == step[b] \notin {"idle", "dead"}

\* The locks are what the holders' descriptors hold.
Admitted(s) == s[2] = "team" /\ holder[s] \in {"queue", "granted"}
Owns(s) == holder[s] \in {"granted", "ready"}

SameLock(s, t) == s[2] = t[2] /\ (s[2] = "team" \/ lane[s[1]] = lane[t[1]])
Exclusive(s) == s[2] = "task" \/ mode[s[1]] = "exclusive"

\* Mutant: there is no turnstile.
AdmissionFree_Any(s) == TRUE
AdmissionFree(s) == \A t \in Slots \ {s}: ~Admitted(t)

\* Mutant: a shared request does not look at the mode of the others.
LockFree_Own(s) == \A t \in Slots \ {s}: Owns(t) /\ SameLock(s, t) => ~Exclusive(s)
LockFree(s) == \A t \in Slots \ {s}:
                 Owns(t) /\ SameLock(s, t) => ~Exclusive(s) /\ ~Exclusive(t)

------------------------------------------------------------------------------
\* The command.

Command(b, m) ==
    /\ step[b] = "idle"
    /\ step' = [step EXCEPT ![b] = "fence"]
    /\ mode' = [mode EXCEPT ![b] = m]
    /\ \E l \in Lanes: lane' = [lane EXCEPT ![b] = l]
    /\ holder' = [holder EXCEPT ![Team(b)] = "admission"]
    /\ UNCHANGED <<late, release, faults>>

FenceTaken(b) ==
    /\ step[b] = "fence" /\ holder[Team(b)] = "ready"
    /\ IF mode[b] = "shared"
       THEN /\ step' = [step EXCEPT ![b] = "lane"]
            /\ holder' = [holder EXCEPT ![Task(b)] = "queue"]
       ELSE /\ step' = [step EXCEPT ![b] = "work"]
            /\ UNCHANGED holder
    /\ UNCHANGED <<mode, lane, late, release, faults>>

LaneTaken(b) ==
    /\ step[b] = "lane" /\ holder[Task(b)] = "ready"
    /\ step' = [step EXCEPT ![b] = "work"]
    /\ UNCHANGED <<mode, lane, holder, late, release, faults>>

\* kill -0 finds no holder: die, and the EXIT trap gives the fence back.
HolderLost(b) ==
    /\ \/ step[b] = "fence" /\ holder[Team(b)] = "lost"
       \/ step[b] = "lane" /\ holder[Task(b)] = "lost"
    /\ step' = [step EXCEPT ![b] = "freeFence"]
    /\ release' = release \union {Team(b)}
    /\ UNCHANGED <<mode, lane, holder, late, faults>>

Finish(b) ==
    /\ step[b] = "work"
    /\ IF mode[b] = "shared"
       THEN /\ step' = [step EXCEPT ![b] = "freeLane"]
            /\ release' = release \union {Task(b)}
       ELSE /\ step' = [step EXCEPT ![b] = "freeFence"]
            /\ release' = release \union {Team(b)}
    /\ UNCHANGED <<mode, lane, holder, late, faults>>

LaneFreed(b) ==
    /\ step[b] = "freeLane" /\ holder[Task(b)] \in {"none", "lost"}
    /\ step' = [step EXCEPT ![b] = "freeFence"]
    /\ release' = release \union {Team(b)}
    /\ UNCHANGED <<mode, lane, holder, late, faults>>

\* Both holders are gone, and waited for or reaped: the process slot is free.
Gone(b) ==
    /\ step[b] \in {"freeFence", "dead"}
    /\ holder[Team(b)] \in {"none", "lost"} /\ holder[Task(b)] \in {"none", "lost"}
    /\ step' = [step EXCEPT ![b] = "idle"]
    /\ holder' = [holder EXCEPT ![Team(b)] = "none", ![Task(b)] = "none"]
    /\ release' = release \ {Team(b), Task(b)}
    /\ UNCHANGED <<mode, lane, late, faults>>

Kill(b) ==
    /\ Alive(b) /\ faults < MaxFaults
    /\ step' = [step EXCEPT ![b] = "dead"]
    /\ \E l \in SUBSET {s \in {Team(b), Task(b)}: holder[s] \in {"admission", "queue"}}:
         late' = late \union l
    /\ faults' = faults + 1
    /\ UNCHANGED <<mode, lane, holder, release>>

------------------------------------------------------------------------------
\* The holder.

\* lock_while_parent_alive looks at its parent, and tries the lock after that: a
\* holder whose parent dies in between tries once more.
Advance(s, from, to) ==
    /\ holder[s] = from
    /\ Alive(s[1]) \/ s \in late
    /\ holder' = [holder EXCEPT ![s] = to]
    /\ late' = late \ {s}
    /\ UNCHANGED <<step, mode, lane, release, faults>>

PassTurnstile(s) == AdmissionFree(s) /\ Advance(s, "admission", "queue")

TakeLock(s) == LockFree(s) /\ Advance(s, "queue", "granted")

LastTryFails(s) ==
    /\ s \in late
    /\ \/ holder[s] = "admission" /\ ~AdmissionFree(s)
       \/ holder[s] = "queue" /\ ~LockFree(s)
    /\ late' = late \ {s}
    /\ UNCHANGED <<step, mode, lane, holder, release, faults>>

\* Revalidate, open the turnstile, write the acknowledgement.
Acknowledge(s) ==
    /\ holder[s] = "granted"
    /\ holder' = [holder EXCEPT ![s] = "ready"]
    /\ UNCHANGED <<step, mode, lane, late, release, faults>>

Exit(s) ==
    /\ holder[s] \in {"admission", "queue", "ready"} /\ s \notin late
    /\ ~Alive(s[1]) \/ (holder[s] = "ready" /\ s \in release)
    /\ holder' = [holder EXCEPT ![s] = "none"]
    /\ UNCHANGED <<step, mode, lane, late, release, faults>>

\* A holder is killed alone, or fails one of its own checks.
KillHolder(s) ==
    /\ holder[s] \notin {"none", "lost"} /\ faults < MaxFaults
    /\ holder' = [holder EXCEPT ![s] = "lost"]
    /\ late' = late \ {s}
    /\ faults' = faults + 1
    /\ UNCHANGED <<step, mode, lane, release>>

------------------------------------------------------------------------------
BrokerStep(b) == \/ FenceTaken(b) \/ LaneTaken(b) \/ HolderLost(b)
                 \/ Finish(b) \/ LaneFreed(b) \/ Gone(b)

HolderStep(s) == \/ PassTurnstile(s) \/ TakeLock(s) \/ LastTryFails(s)
                 \/ Acknowledge(s) \/ Exit(s)

Next == \/ \E b \in Brokers, m \in {"shared", "exclusive"}: Command(b, m)
        \/ \E b \in Brokers: BrokerStep(b) \/ Kill(b)
        \/ \E s \in Slots: HolderStep(s) \/ KillHolder(s)

\* Processes that are not killed run; nobody has to issue a command.
Fairness == /\ \A b \in Brokers: WF_vars(BrokerStep(b))
            /\ \A s \in Slots: WF_vars(HolderStep(s))

Safety == Init /\ [][Next]_vars
Spec == Safety /\ Fairness

------------------------------------------------------------------------------
\* A command counts on the fence from its acknowledgement to its release.
Inside(b) == /\ holder[Team(b)] = "ready" /\ Alive(b)
             /\ Team(b) \notin release

Turnstile == IF \E b \in Brokers: Admitted(Team(b))
             THEN CHOOSE b \in Brokers: Admitted(Team(b)) ELSE Nobody

Fence == INSTANCE TeamFence WITH turn <- Turnstile, inside <- {b \in Brokers: Inside(b)}

\* What the holders do with the kernel's locks, through kills of commands and of
\* holders, is the fence: readers or one stop, and nobody past a stop that waits.
RefinesFence == Fence!Spec

\* Two commands at work (launching, retiring, stopping) are compatible, unless a
\* holder one of them relies on was killed alone: nothing tells the command.
Exposed(b) == holder[Team(b)] = "lost" \/ (mode[b] = "shared" /\ holder[Task(b)] = "lost")
WorkExcludes ==
    \A b, c \in Brokers:
      b # c /\ step[b] = "work" /\ step[c] = "work" =>
        \/ Exposed(b) \/ Exposed(c)
        \/ mode[b] = "shared" /\ mode[c] = "shared" /\ lane[b] # lane[c]

\* A stop that has the turnstile stops the team, however many starts keep arriving.
StopServed ==
    \A b \in Brokers:
      (mode[b] = "exclusive" /\ holder[Team(b)] = "queue")
        ~> (step[b] = "work" \/ ~Alive(b) \/ holder[Team(b)] = "lost")

\* A killed command does not keep the team or a lane locked.
LocksFreed ==
    \A b \in Brokers: step[b] = "dead" ~> ~(Owns(Team(b)) \/ Owns(Task(b)))
=============================================================================
