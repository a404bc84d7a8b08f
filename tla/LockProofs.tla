---------------------------- MODULE LockProofs -----------------------------
(***************************************************************************)
(* The two locks that let one program at a time work on something: the     *)
(* launcher's fence and lanes (LaneLock), and the updaters' lock on an     *)
(* install directory (Installer), for any number of commands, lanes,       *)
(* updaters and faults.                                                    *)
(***************************************************************************)
EXTENDS LaneLock, Installer, FiniteSetTheorems, TLAPS

(* The launcher's fence and lanes. *)


\* Who may hold what, by the place the command is at.
Places(b) ==
    /\ mode[b] = "exclusive" => holder[Task(b)] = "none"
    /\ holder[Task(b)] # "admission"
    /\ step[b] = "idle" => holder[Team(b)] = "none" /\ holder[Task(b)] = "none"
    /\ step[b] = "fence" => holder[Task(b)] = "none"
    /\ step[b] \in {"lane", "work", "freeLane"} => holder[Team(b)] \in {"ready", "lost"}
    /\ step[b] \in {"lane", "freeLane"} => mode[b] = "shared"
    /\ step[b] = "work" /\ mode[b] = "shared" => holder[Task(b)] \in {"ready", "lost"}
    /\ step[b] = "freeFence" => holder[Task(b)] \in {"none", "lost"}
    /\ step[b] \in {"idle", "fence", "lane", "work", "freeLane"} => Team(b) \notin release
    /\ step[b] \in {"idle", "fence", "lane", "work"} => Task(b) \notin release

FenceExcludes ==
    \A b, c \in Brokers: b # c /\ Owns(Team(b)) /\ Owns(Team(c)) =>
                           mode[b] = "shared" /\ mode[c] = "shared"

LaneExcludes ==
    \A b, c \in Brokers: b # c /\ Owns(Task(b)) /\ Owns(Task(c)) => lane[b] # lane[c]

OneAtTurnstile ==
    \A b, c \in Brokers: Admitted(Team(b)) /\ Admitted(Team(c)) => b = c

IInv == /\ TypeOK
        /\ \A b \in Brokers: Places(b)
        /\ FenceExcludes /\ LaneExcludes /\ OneAtTurnstile

\* The two slots of a broker.
LEMMA SlotFacts ==
    /\ \A b \in Brokers: Team(b) \in Slots /\ Task(b) \in Slots
    /\ \A b \in Brokers: Team(b)[1] = b /\ Team(b)[2] = "team"
    /\ \A b \in Brokers: Task(b)[1] = b /\ Task(b)[2] = "task"
    /\ \A b, c \in Brokers: Team(b) # Task(c)
    /\ \A b, c \in Brokers: Team(b) = Team(c) => b = c
    /\ \A b, c \in Brokers: Task(b) = Task(c) => b = c
    /\ \A s \in Slots: \E b \in Brokers: s = Team(b) \/ s = Task(b)
BY DEF Slots, Team, Task

LEMMA InitInv == Init => IInv
BY SlotFacts, LaneAssumption
   DEF Init, IInv, TypeOK, Places, FenceExcludes, LaneExcludes, OneAtTurnstile,
       Owns, Admitted, Steps, Holders

LEMMA CommandKeeps ==
    ASSUME IInv, NEW b \in Brokers, NEW m \in {"shared", "exclusive"}, Command(b, m)
    PROVE  IInv'
BY SlotFacts
   DEF Command, IInv, TypeOK, Places, FenceExcludes, LaneExcludes, OneAtTurnstile,
       Owns, Admitted, Steps, Holders

LEMMA BrokerStepKeeps ==
    ASSUME IInv, NEW b \in Brokers, BrokerStep(b) PROVE IInv'
<1> USE SlotFacts DEF IInv, TypeOK, Places, FenceExcludes, LaneExcludes, OneAtTurnstile,
       Owns, Admitted, Steps, Holders
<1>1. CASE FenceTaken(b)
  <2>1. CASE mode[b] = "shared" BY SMTT(60), <1>1, <2>1 DEF FenceTaken
  <2>2. CASE mode[b] # "shared" BY SMTT(60), <1>1, <2>2 DEF FenceTaken
  <2> QED BY <2>1, <2>2
<1>2. CASE LaneTaken(b) BY <1>2 DEF LaneTaken
<1>3. CASE HolderLost(b) BY <1>3 DEF HolderLost
<1>4. CASE Finish(b) BY <1>4 DEF Finish
<1>5. CASE LaneFreed(b) BY <1>5 DEF LaneFreed
<1>6. CASE Gone(b)
  <2>1. TypeOK' BY <1>6 DEF Gone
  <2>2. ASSUME NEW c \in Brokers
        PROVE  /\ holder'[Team(c)] = IF c = b THEN "none" ELSE holder[Team(c)]
               /\ holder'[Task(c)] = IF c = b THEN "none" ELSE holder[Task(c)]
    BY <1>6 DEF Gone
  <2>3. ASSUME NEW c \in Brokers PROVE Places(c)'
    BY <2>2, <1>6 DEF Gone
  <2>4. FenceExcludes' BY <2>2, <1>6 DEF Gone
  <2>5. LaneExcludes' BY <2>2, <1>6 DEF Gone
  <2>6. OneAtTurnstile' BY <2>2, <1>6 DEF Gone
  <2> QED BY <2>1, <2>3, <2>4, <2>5, <2>6
<1> QED BY <1>1, <1>2, <1>3, <1>4, <1>5, <1>6 DEF BrokerStep

LEMMA KillKeeps ==
    ASSUME IInv, NEW b \in Brokers, Kill(b) PROVE IInv'
BY SlotFacts, LaneAssumption
   DEF Kill, Alive, IInv, TypeOK, Places, FenceExcludes, LaneExcludes, OneAtTurnstile,
       Owns, Admitted, Steps, Holders

\* The holders take a lock only when no other slot of the same lock contradicts it.
LEMMA HolderStepKeeps ==
    ASSUME IInv, NEW s \in Slots, HolderStep(s) PROVE IInv'
<1> USE SlotFacts DEF IInv, TypeOK, Places, FenceExcludes, LaneExcludes, OneAtTurnstile,
       Owns, Admitted, Steps, Holders
<1>0. PICK b \in Brokers: s = Team(b) \/ s = Task(b) OBVIOUS
<1>1. CASE PassTurnstile(s) BY <1>0, <1>1 DEF PassTurnstile, Advance, AdmissionFree, Alive
<1>2. CASE TakeLock(s)
  BY SMTT(60), <1>0, <1>2 DEF TakeLock, Advance, LockFree, SameLock, Exclusive, Alive
<1>3. CASE LastTryFails(s) BY <1>0, <1>3 DEF LastTryFails
<1>4. CASE Acknowledge(s) BY <1>0, <1>4 DEF Acknowledge
<1>5. CASE Exit(s) BY <1>0, <1>5 DEF Exit, Alive
<1> QED BY <1>1, <1>2, <1>3, <1>4, <1>5 DEF HolderStep

LEMMA KillHolderKeeps ==
    ASSUME IInv, NEW s \in Slots, KillHolder(s) PROVE IInv'
<1>0. PICK b \in Brokers: s = Team(b) \/ s = Task(b) BY SlotFacts
<1> QED
  BY <1>0, SlotFacts, LaneAssumption
     DEF KillHolder, IInv, TypeOK, Places, FenceExcludes, LaneExcludes, OneAtTurnstile,
         Owns, Admitted, Steps, Holders

LEMMA NextKeeps == IInv /\ [Next]_vars => IInv'
<1> SUFFICES ASSUME IInv, [Next]_vars PROVE IInv' OBVIOUS
<1>1. CASE UNCHANGED vars
  BY <1>1 DEF vars, IInv, TypeOK, Places, FenceExcludes, LaneExcludes, OneAtTurnstile,
              Owns, Admitted
<1>2. CASE Next
  BY <1>2, CommandKeeps, BrokerStepKeeps, KillKeeps, HolderStepKeeps, KillHolderKeeps
     DEF Next
<1> QED BY <1>1, <1>2

LEMMA Invariance == Safety => []IInv
BY InitInv, NextKeeps, PTL DEF Safety

\* The state of the launcher's locks is well formed.
THEOREM LaneTypes == Safety => []TypeOK
<1>1. IInv => TypeOK BY DEF IInv
<1> QED BY <1>1, Invariance, PTL

\* Two commands at work are two starts on different lanes, or one of them lost a holder.
THEOREM LaneExclusion == Safety => []WorkExcludes
<1>1. IInv => WorkExcludes
  <2> SUFFICES ASSUME IInv, NEW b \in Brokers, NEW c \in Brokers, b # c,
                      step[b] = "work", step[c] = "work", ~Exposed(b), ~Exposed(c)
               PROVE  mode[b] = "shared" /\ mode[c] = "shared" /\ lane[b] # lane[c]
    BY DEF WorkExcludes
  <2>1. Owns(Team(b)) /\ Owns(Team(c)) BY DEF IInv, Places, Exposed, Owns
  <2>2. mode[b] = "shared" /\ mode[c] = "shared" BY <2>1 DEF IInv, FenceExcludes
  <2>3. Owns(Task(b)) /\ Owns(Task(c)) BY <2>2 DEF IInv, Places, Exposed, Owns
  <2> QED BY <2>2, <2>3 DEF IInv, LaneExcludes
<1> QED BY <1>1, Invariance, PTL

------------------------------------------------------------------------------
\* The refinement mapping: who is at the turnstile, and who is inside.

LEMMA TurnstileIs ==
    ASSUME IInv, NEW b \in Brokers, Admitted(Team(b)) PROVE Turnstile = b
BY DEF IInv, OneAtTurnstile, Turnstile

LEMMA TurnstileEmpty ==
    ASSUME \A b \in Brokers: ~Admitted(Team(b)) PROVE Turnstile = Nobody
BY DEF Turnstile

LEMMA TurnstileSame ==
    ASSUME IInv, IInv', \A b \in Brokers: Admitted(Team(b)) <=> Admitted(Team(b))'
    PROVE  Turnstile' = Turnstile
<1>1. CASE \E b \in Brokers: Admitted(Team(b))
  <2>1. PICK b \in Brokers: Admitted(Team(b)) BY <1>1
  <2>2. Turnstile = b BY <2>1, TurnstileIs
  <2>3. Turnstile' = b BY <2>1 DEF IInv, OneAtTurnstile, Turnstile
  <2> QED BY <2>2, <2>3
<1>2. CASE \A b \in Brokers: ~Admitted(Team(b)) BY <1>2 DEF Turnstile
<1> QED BY <1>1, <1>2

FenceState == <<Turnstile, mode, {b \in Brokers: Inside(b)}>>

\* A step that moves nobody at the turnstile, changes no mode and lets nobody in.
LEMMA StutterOrLeave ==
    ASSUME IInv, IInv', NEW b \in Brokers, mode' = mode,
           \A c \in Brokers: Admitted(Team(c)) <=> Admitted(Team(c))',
           \A c \in Brokers: Inside(c)' => Inside(c),
           \A c \in Brokers \ {b}: Inside(c) => Inside(c)'
    PROVE  [Fence!Next]_FenceState
<1>1. Turnstile' = Turnstile BY TurnstileSame
<1>2. CASE Inside(b) /\ ~Inside(b)'
  <2>1. {c \in Brokers: Inside(c)}' = {c \in Brokers: Inside(c)} \ {b} BY <1>2
  <2>2. Fence!Leave(b) BY <1>1, <1>2, <2>1 DEF Fence!Leave
  <2> QED BY <2>2 DEF Fence!Next
<1>3. CASE ~(Inside(b) /\ ~Inside(b)')
  <2>1. {c \in Brokers: Inside(c)}' = {c \in Brokers: Inside(c)} BY <1>3
  <2> QED BY <1>1, <2>1 DEF FenceState
<1> QED BY <1>2, <1>3

\* A step by which the broker at the turnstile gives its place up.
LEMMA CancelStep ==
    ASSUME IInv, IInv', NEW b \in Brokers, mode' = mode,
           Admitted(Team(b)), \A c \in Brokers: ~Admitted(Team(c))',
           \A c \in Brokers: Inside(c) <=> Inside(c)'
    PROVE  Fence!Next
<1>1. Turnstile = b BY TurnstileIs
<1>2. Turnstile' = Nobody BY DEF Turnstile
<1>3. {c \in Brokers: Inside(c)}' = {c \in Brokers: Inside(c)} OBVIOUS
<1>4. Fence!Cancel(b) BY <1>1, <1>2, <1>3 DEF Fence!Cancel
<1> QED BY <1>4 DEF Fence!Next

LEMMA CommandRefines ==
    ASSUME IInv, IInv', NEW b \in Brokers, NEW m \in {"shared", "exclusive"}, Command(b, m)
    PROVE  Fence!Next
<1>1. ~Inside(b) /\ ~Admitted(Team(b))
  BY DEF Command, IInv, Places, Inside, Alive, Admitted
<1>2. \A c \in Brokers: Admitted(Team(c)) <=> Admitted(Team(c))'
  BY SlotFacts DEF Command, IInv, TypeOK, Places, Admitted
<1>3. \A c \in Brokers: Inside(c) <=> Inside(c)'
  BY SlotFacts DEF Command, IInv, TypeOK, Places, Inside, Alive
<1>4. Turnstile' = Turnstile BY <1>2, TurnstileSame
<1>5. Turnstile # b BY <1>1, LaneAssumption DEF Turnstile
<1>6. {c \in Brokers: Inside(c)}' = {c \in Brokers: Inside(c)} BY <1>3
<1>7. mode' = [mode EXCEPT ![b] = m] BY DEF Command
<1>8. Fence!Ask(b) BY <1>1, <1>4, <1>5, <1>6, <1>7 DEF Fence!Ask, Fence!Modes
<1> QED BY <1>8 DEF Fence!Next

LEMMA BrokerRefines ==
    ASSUME IInv, IInv', NEW b \in Brokers, BrokerStep(b) \/ Kill(b)
    PROVE  [Fence!Next]_FenceState
<1> USE SlotFacts DEF IInv, TypeOK, Places, Admitted, Inside, Alive
<1>1. /\ mode' = mode
      /\ \A c \in Brokers: Admitted(Team(c)) <=> Admitted(Team(c))'
      /\ \A c \in Brokers: Inside(c)' => Inside(c)
      /\ \A c \in Brokers \ {b}: Inside(c) => Inside(c)'
  <2>1. CASE FenceTaken(b) BY <2>1 DEF FenceTaken
  <2>2. CASE LaneTaken(b) BY <2>2 DEF LaneTaken
  <2>3. CASE HolderLost(b) BY <2>3 DEF HolderLost
  <2>4. CASE Finish(b) BY <2>4 DEF Finish
  <2>5. CASE LaneFreed(b) BY <2>5 DEF LaneFreed
  <2>6. CASE Gone(b)
    <3>1. ASSUME NEW c \in Brokers
          PROVE  holder'[Team(c)] = IF c = b THEN "none" ELSE holder[Team(c)]
      BY <2>6 DEF Gone
    <3> QED BY <2>6, <3>1 DEF Gone
  <2>7. CASE Kill(b) BY <2>7 DEF Kill
  <2> QED BY <2>1, <2>2, <2>3, <2>4, <2>5, <2>6, <2>7 DEF BrokerStep
<1> QED BY <1>1, StutterOrLeave

LEMMA HolderRefines ==
    ASSUME IInv, IInv', NEW s \in Slots, HolderStep(s) \/ KillHolder(s)
    PROVE  [Fence!Next]_FenceState
<1>0. PICK b \in Brokers: s = Team(b) \/ s = Task(b) BY SlotFacts
<1>m. mode' = mode /\ step' = step /\ release' = release
  BY DEF HolderStep, PassTurnstile, TakeLock, LastTryFails, Acknowledge, Exit, KillHolder, Advance
<1>h. \A c \in Brokers: c # b \/ s # Team(b) => holder'[Team(c)] = holder[Team(c)]
  BY <1>0, SlotFacts
     DEF HolderStep, PassTurnstile, TakeLock, LastTryFails, Acknowledge, Exit, KillHolder,
         Advance, IInv, TypeOK
<1>o. \A c \in Brokers: c # b \/ s # Team(b) =>
        (Admitted(Team(c)) <=> Admitted(Team(c))') /\ (Inside(c) <=> Inside(c)')
  BY <1>m, <1>h, SlotFacts DEF Admitted, Inside, Alive
<1>1. CASE s = Task(b)
  <2>1. s # Team(b) BY <1>1, SlotFacts
  <2> QED BY <2>1, <1>o, <1>m, StutterOrLeave
<1>2. CASE s = Team(b) /\ PassTurnstile(s)
  <2>1. holder[s] = "admission" /\ holder'[s] = "queue"
    BY <1>2, SlotFacts DEF PassTurnstile, Advance, IInv, TypeOK
  <2>2. \A c \in Brokers: ~Admitted(Team(c))
    BY <1>2, <2>1, SlotFacts DEF PassTurnstile, AdmissionFree, Admitted
  <2>3. Admitted(Team(b))' BY <1>2, <2>1, SlotFacts DEF Admitted
  <2>4. Turnstile = Nobody BY <2>2, TurnstileEmpty
  <2>5. Turnstile' = b BY <2>3 DEF Turnstile, IInv, OneAtTurnstile
  <2>6. ~Inside(b) /\ ~Inside(b)' BY <1>2, <2>1 DEF Inside
  <2>7. {c \in Brokers: Inside(c)}' = {c \in Brokers: Inside(c)} BY <2>6, <1>o
  <2>8. Fence!Admit(b) BY <2>4, <2>5, <2>6, <2>7, <1>m DEF Fence!Admit
  <2> QED BY <2>8 DEF Fence!Next
<1>3. CASE s = Team(b) /\ (TakeLock(s) \/ LastTryFails(s))
  <2>1. \/ holder[s] = "queue" /\ holder'[s] = "granted"
        \/ holder'[s] = holder[s]
    BY <1>3, SlotFacts DEF TakeLock, LastTryFails, Advance, IInv, TypeOK
  <2>2. /\ Admitted(Team(b)) <=> Admitted(Team(b))'
        /\ Inside(b) <=> Inside(b)'
    BY <1>3, <2>1, <1>m DEF Admitted, Inside, Alive
  <2> QED BY <2>2, <1>o, <1>m, StutterOrLeave
<1>4. CASE s = Team(b) /\ Acknowledge(s)
  <2>1. holder[s] = "granted" /\ holder'[s] = "ready"
    BY <1>4, SlotFacts DEF Acknowledge, IInv, TypeOK
  <2>2. Admitted(Team(b)) /\ ~Admitted(Team(b))' /\ ~Inside(b)
    BY <1>4, <2>1, SlotFacts DEF Admitted, Inside
  <2>3. \A c \in Brokers: ~Admitted(Team(c))'
    BY <2>2, <1>o DEF IInv, OneAtTurnstile
  <2>4. CASE Inside(b)'
    <3>1. \A c \in Brokers \ {b}: Inside(c) => mode[b] = "shared" /\ mode[c] = "shared"
      BY <1>4, <2>1 DEF Inside, IInv, FenceExcludes, Owns
    <3>2. Fence!Compatible(b) BY <3>1 DEF Fence!Compatible
    <3>3. Turnstile = b BY <2>2, TurnstileIs
    <3>4. Turnstile' = Nobody BY <2>3 DEF Turnstile
    <3>5. {c \in Brokers: Inside(c)}' = {c \in Brokers: Inside(c)} \union {b}
      BY <2>4, <1>o
    <3>6. Fence!Enter(b) BY <3>2, <3>3, <3>4, <3>5, <1>m DEF Fence!Enter
    <3> QED BY <3>6 DEF Fence!Next
  <2>5. CASE ~Inside(b)' BY <2>2, <2>3, <2>5, <1>o, <1>m, CancelStep
  <2> QED BY <2>4, <2>5
<1>5. CASE s = Team(b) /\ (Exit(s) \/ KillHolder(s))
  <2>1. holder'[s] \in {"none", "lost"}
    BY <1>5, SlotFacts DEF Exit, KillHolder, IInv, TypeOK
  <2>2. ~Admitted(Team(b))' /\ ~Inside(b)'
    BY <1>5, <2>1, SlotFacts DEF Admitted, Inside
  <2>3. CASE Admitted(Team(b))
    <3>1. ~Inside(b) BY <2>3 DEF Admitted, Inside
    <3>2. \A c \in Brokers: ~Admitted(Team(c))'
      BY <2>2, <2>3, <1>o DEF IInv, OneAtTurnstile
    <3> QED BY <2>2, <2>3, <3>1, <3>2, <1>o, <1>m, CancelStep
  <2>4. CASE ~Admitted(Team(b)) BY <2>2, <2>4, <1>o, <1>m, StutterOrLeave
  <2> QED BY <2>3, <2>4
<1> QED BY <1>0, <1>1, <1>2, <1>3, <1>4, <1>5 DEF HolderStep

LEMMA StepRefines ==
    ASSUME IInv, IInv', [Next]_vars PROVE [Fence!Next]_FenceState
<1>1. CASE UNCHANGED vars
  BY <1>1 DEF vars, FenceState, Turnstile, Inside, Admitted, Alive
<1>2. CASE Next
  BY <1>2, CommandRefines, BrokerRefines, HolderRefines DEF Next
<1> QED BY <1>1, <1>2

\* The launcher's holders implement the fence: readers or one stop inside, and
\* nobody enters past the command at the turnstile.
THEOREM FenceRefined == Safety => Fence!Safety
<1>1. ASSUME Init PROVE Fence!Init
  <2>1. \A b \in Brokers: ~Admitted(Team(b)) /\ ~Inside(b)
    BY <1>1, SlotFacts DEF Init, Admitted, Inside, Alive
  <2>2. Turnstile = Nobody BY <2>1, TurnstileEmpty
  <2>3. {b \in Brokers: Inside(b)} = {} BY <2>1
  <2> QED BY <1>1, <2>2, <2>3 DEF Init, Fence!Init, Fence!Modes
<1>2. IInv /\ IInv' /\ [Next]_vars => [Fence!Next]_(Fence!vars)
  BY StepRefines DEF FenceState, Fence!vars
<1> QED BY <1>1, <1>2, Invariance, PTL DEF Safety, Fence!Safety

-----------------------------------------------------------------------------
(* The updaters' lock, and what it protects. *)

\* Where each updater stands with the lock: one that is past it holds it, if not under its
\* name.
Stands(p) ==
    /\ pc[p] \in {"start", "ready"} => inode[p] = 0
    /\ pc[p] = "opened" => inode[p] \in Inodes
    /\ pc[p] \in {"opened", "unlocked"} => Cli(p)
    /\ pc[p] \in Critical => IF Cli(p) THEN p \in flock /\ inode[p] \in Inodes
                                       ELSE name = Directory
    /\ p \in flock => pc[p] \in Critical /\ Cli(p)
    /\ pc[p] \in {"moved", "undo"} /\ ~met => place = Absent

\* A file has one holder, and so has the directory.
OneHolder == \A p, q \in flock : inode[p] = inode[q] => p = q
OneScript == \A p, q \in Updaters : pc[p] \in Critical /\ pc[q] \in Critical
                                       /\ ~Cli(p) /\ ~Cli(q) => p = q
Alone == ~met => \A p, q \in Updaters : pc[p] \in Critical /\ pc[q] \in Critical => p = q

LockInv == InstallerType /\ OneHolder /\ OneScript /\ Alone /\ \A p \in Updaters : Stands(p)

LEMMA Numbers ==
    /\ Cardinality(Updaters) \in Nat
    /\ Directory \in Nat /\ Directory # 0 /\ Directory \notin Inodes
    /\ 0 \notin Inodes
BY FS_CardinalityType, InstallerAssumption DEF Directory, Inodes

\* A new lock file has a number: one updater has not opened any yet.
LEMMA FreshInode ==
    ASSUME InstallerType, NEW p \in Updaters, inode[p] = 0
    PROVE  NewInode \in Inodes
<1> DEFINE Others == Updaters \ {p}
           Used == {inode[q] : q \in Updaters} \ {0}
           All == {inode[q] : q \in Others}
<1>1. IsFiniteSet(Others) /\ Cardinality(Others) = Cardinality(Updaters) - 1
  BY FS_RemoveElement, InstallerAssumption
<1>2. IsFiniteSet(All) /\ Cardinality(All) <= Cardinality(Others)
  <2> DEFINE f == [q \in Others |-> inode[q]]
  <2>1. f \in Surjection(Others, All)
    BY DEF Surjection
  <2> HIDE DEF f, All, Others
  <2> QED BY <1>1, <2>1, FS_Surjection
<1>3. Used \subseteq All
  OBVIOUS
<1>4. IsFiniteSet(Used) /\ Cardinality(Used) <= Cardinality(All)
  <2> HIDE DEF Used, All
  <2> QED BY <1>2, <1>3, FS_Subset
<1>5. Cardinality(Used) \in Nat /\ Cardinality(All) \in Nat
  <2> HIDE DEF Used, All
  <2> QED BY <1>2, <1>4, FS_CardinalityType
<1>6. NewInode = Cardinality(Used) + 1
  BY DEF NewInode
<1> HIDE DEF Used, All, Others
<1> QED BY <1>1, <1>2, <1>4, <1>5, <1>6, Numbers DEF Inodes

LEMMA LockInit == InstallerInit => LockInv
<1> SUFFICES ASSUME InstallerInit PROVE LockInv
  OBVIOUS
<1>1. InstallerType
  <2>1. place \in Contents \union {Absent}
    BY InstallerAssumption DEF InstallerInit
  <2>2. Absent \in Contents \union {Absent} /\ (place.extension = "own") \in BOOLEAN
    OBVIOUS
  <2> QED BY <2>1, <2>2 DEF InstallerInit, InstallerType
<1> QED BY <1>1 DEF InstallerInit, LockInv, OneHolder, OneScript, Alone, Stands, Critical

LEMMA OpenLockKeeps ==
    ASSUME LockInv, NEW p \in Updaters, OpenLock(p) PROVE LockInv'
<1> USE DEF OpenLock, At, Goto, LockInv, InstallerType, Critical, Cli, copies
<1>1. CASE name = Directory
  <2>1. UNCHANGED <<place, name, flock, op, inode, met>> /\ pc' = [pc EXCEPT ![p] = "done"]
    BY <1>1
  <2> QED BY <1>1, <2>1 DEF OneHolder, OneScript, Alone, Stands
<1>2. CASE name # Directory
  <2> DEFINE i == IF name = 0 THEN NewInode ELSE name
  <2>1. i \in Inodes
    BY <1>2, FreshInode DEF Stands
  <2>2. /\ pc[p] = "ready" /\ Cli(p) /\ name' = i /\ inode' = [inode EXCEPT ![p] = i]
        /\ pc' = [pc EXCEPT ![p] = "opened"]
        /\ UNCHANGED <<place, project, flock, op, copies, met, budget>>
    BY <1>2
  <2> HIDE DEF i
  <2>3. p \notin flock
    BY <2>2 DEF Stands
  <2>4. InstallerType'
    BY <2>1, <2>2
  <2>5. OneHolder' /\ OneScript' /\ Alone'
    BY <2>2, <2>3 DEF OneHolder, OneScript, Alone
  <2>6. \A q \in Updaters : Stands(q)'
    BY <1>2, <2>1, <2>2 DEF Stands
  <2> QED BY <2>4, <2>5, <2>6
<1> QED BY <1>1, <1>2

LEMMA FlockKeeps ==
    ASSUME LockInv, NEW p \in Updaters, Flock(p) PROVE LockInv'
<1> USE DEF Flock, At, Goto, LockInv, InstallerType, Critical, Cli, copies
<1>1. CASE flock' = flock
  <2>1. UNCHANGED <<place, name, op, inode, met>> /\ pc' = [pc EXCEPT ![p] = "done"]
    BY <1>1 DEF Stands
  <2> QED BY <1>1, <2>1 DEF OneHolder, OneScript, Alone, Stands
<1>2. CASE flock' # flock
  <2>1. /\ \A q \in flock : inode[q] # inode[p]
        /\ flock' = flock \union {p} /\ met' = (met \/ Working # {})
        /\ pc[p] = "opened" /\ pc' = [pc EXCEPT ![p] = "locked"]
        /\ UNCHANGED <<place, name, op, inode>>
    BY <1>2
  <2>2. ~met' => ~met /\ \A q \in Updaters : pc[q] \notin Critical
    BY <2>1 DEF Working
  <2>3. InstallerType'
    BY <2>1
  <2>4. OneHolder' /\ OneScript'
    BY <2>1 DEF OneHolder, OneScript, Stands
  <2>5. Alone'
    BY <2>1, <2>2 DEF Alone
  <2>6. \A q \in Updaters : Stands(q)'
    BY <2>1, <2>2 DEF Stands
  <2> QED BY <2>3, <2>4, <2>5, <2>6
<1> QED BY <1>1, <1>2

LEMMA MakeLockKeeps ==
    ASSUME LockInv, NEW p \in Updaters, MakeLock(p) PROVE LockInv'
<1> USE DEF MakeLock, At, Goto, LockInv, InstallerType, Critical, Cli, copies
<1>1. CASE Untaken
  <2>1. /\ name = 0 /\ name' = Directory /\ met' = (met \/ Working # {})
        /\ pc[p] = "ready" /\ ~Cli(p) /\ pc' = [pc EXCEPT ![p] = "locked"]
        /\ UNCHANGED <<place, flock, op, inode>>
    BY <1>1 DEF Untaken
  <2>2. ~met' => ~met /\ \A q \in Updaters : pc[q] \notin Critical
    BY <2>1 DEF Working
  <2>3. \A q \in Updaters : pc[q] \in Critical => Cli(q)
    BY <2>1, Numbers DEF Stands
  <2>4. InstallerType' /\ OneHolder'
    BY <2>1 DEF OneHolder
  <2>5. OneScript'
    BY <2>1, <2>3 DEF OneScript
  <2>6. Alone'
    BY <2>1, <2>2 DEF Alone
  <2>7. \A q \in Updaters : Stands(q)'
    BY <2>1, <2>2, <2>3 DEF Stands
  <2> QED BY <2>4, <2>5, <2>6, <2>7
<1>2. CASE ~Untaken
  <2>1. UNCHANGED <<place, name, flock, op, inode, met>> /\ pc' = [pc EXCEPT ![p] = "done"]
    BY <1>2
  <2> QED BY <2>1 DEF OneHolder, OneScript, Alone, Stands
<1> QED BY <1>1, <1>2

LEMMA ReleaseKeeps ==
    ASSUME LockInv, NEW p \in Updaters, Release(p) PROVE LockInv'
<1> USE DEF Release, At, Goto, LockInv, InstallerType, Critical, Cli, copies
<1>1. CASE Cli(p)
  <2>1. /\ flock' = flock \ {p} /\ pc' = [pc EXCEPT ![p] = "unlocked"]
        /\ UNCHANGED <<place, name, op, inode, met>>
    BY <1>1
  <2> QED BY <1>1, <2>1 DEF OneHolder, OneScript, Alone, Stands
<1>2. CASE ~Cli(p)
  <2>1. /\ name' = 0 /\ pc[p] = "leaving" /\ pc' = [pc EXCEPT ![p] = "done"]
        /\ UNCHANGED <<place, flock, op, inode, met>>
    BY <1>2
  <2>2. \A q \in Updaters \ {p} : pc[q] \in Critical => Cli(q)
    BY <1>2, <2>1 DEF OneScript
  <2> QED BY <1>2, <2>1, <2>2 DEF OneHolder, OneScript, Alone, Stands
<1> QED BY <1>1, <1>2

LEMMA UnlinkKeeps ==
    ASSUME LockInv, NEW p \in Updaters, Unlink(p) PROVE LockInv'
<1>1. /\ name' = (IF name = Directory THEN name ELSE 0) /\ pc' = [pc EXCEPT ![p] = "done"]
      /\ pc[p] = "unlocked" /\ UNCHANGED <<place, project, flock, op, inode, met, copies>>
  BY DEF Unlink, At, Goto
<1> QED
  BY <1>1 DEF LockInv, InstallerType, Critical, Cli, copies, OneHolder, OneScript, Alone, Stands

\* What a step of p that is not about the lock does: of those that look at or change the
\* install directory, only one that holds the lock.
Works(p) ==
    /\ UNCHANGED <<name, inode, op, met>>
    /\ \E at \in Critical \union {"ready", "done", "killed"} : pc' = [pc EXCEPT ![p] = at]
    /\ pc'[p] \in Critical => pc[p] \in Critical /\ UNCHANGED flock
    /\ pc'[p] = "ready" => pc[p] = "start" /\ UNCHANGED flock
    /\ pc'[p] \in {"killed", "done"} => flock' = flock \ {p}
    /\ pc'[p] \in {"moved", "undo"} /\ ~met => place' = Absent
    /\ place' # place => pc[p] \in Critical
    /\ InstallerType'

LEMMA WorksKeeps ==
    ASSUME LockInv, NEW p \in Updaters, Works(p) PROVE LockInv'
<1>0. flock' \subseteq flock /\ UNCHANGED <<name, inode, op, met>>
  BY DEF Works, LockInv, InstallerType, Critical
<1>1. OneHolder' /\ OneScript' /\ Alone'
  BY <1>0 DEF LockInv, InstallerType, OneHolder, OneScript, Alone, Works, Critical, Cli
<1>2. \A q \in Updaters : Stands(q)'
  BY <1>0 DEF LockInv, InstallerType, Alone, Works, Stands, Critical, Cli
<1> QED BY <1>1, <1>2 DEF LockInv, Works

LEMMA BuiltType ==
    ASSUME InstallerType, NEW p \in Updaters PROVE Built(p) \in Contents
<1>1. op[p].version \in Nat /\ place.config \in SUBSET (Nat \ {0})
  BY InstallerAssumption DEF InstallerType, Contents, Absent
<1> QED BY <1>1 DEF Built, Contents

LEMMA SwapWorks ==
    ASSUME LockInv, NEW p \in Updaters, Start(p) \/ Swap(p) \/ Fail(p) \/ KillUpdater(p)
    PROVE  Works(p)
<1> USE DEF LockInv, InstallerType, Stands, Works, Critical, At, Goto, locks, copies
<1>1. CASE Start(p) BY <1>1 DEF Start
<1>2. CASE Stage(p)
  <2>1. CASE UpdateAdmitted(p) /\ ~Collides(p)
    BY <1>2, <2>1, BuiltType DEF Stage, Snapshot
  <2>2. CASE ~(UpdateAdmitted(p) /\ ~Collides(p))
    BY <1>2, <2>2 DEF Stage
  <2> QED BY <2>1, <2>2
<1>3. CASE Compare(p) BY <1>3 DEF Compare
<1>4. CASE MoveOld(p) BY <1>4 DEF MoveOld
<1>5. CASE PlaceNew(p) BY <1>5 DEF PlaceNew
<1>6. CASE Undo(p) BY <1>6 DEF Undo
<1>7. CASE DropBackup(p) BY <1>7 DEF DropBackup
<1>8. CASE Fail(p) BY <1>8 DEF Fail
<1>9. CASE KillUpdater(p) BY <1>9 DEF KillUpdater
<1> QED BY <1>1, <1>2, <1>3, <1>4, <1>5, <1>6, <1>7, <1>8, <1>9 DEF Swap

Projects == [edits : Nat, kept : SUBSET (Nat \ {0}), own : BOOLEAN]

\* The two edits.
Revises == LET edit == project.edits + 1 IN
    /\ place' = [place EXCEPT !.config = @ \union {edit}]
    /\ project' = [project EXCEPT !.edits = edit,
                                  !.kept = IF Copied THEN @ ELSE @ \union {edit}]
Extends ==
    /\ place.extension = "none" /\ ~project.own
    /\ place' = [place EXCEPT !.extension = "own"]
    /\ project' = [project EXCEPT !.own = ~Copied]

LEMMA EditTypes ==
    ASSUME InstallerType, Edit
    PROVE  /\ place \in Contents /\ place' \in Contents /\ project' \in Projects
           /\ Revises \/ Extends
<1>1. place \in Contents /\ project \in Projects /\ (Revises \/ Extends)
  BY DEF InstallerType, Projects, Edit, Revises, Extends
<1>2. CASE Revises
  <2>1. project.edits + 1 \in Nat \ {0}
    BY <1>1 DEF Projects
  <2> QED BY <1>1, <1>2, <2>1 DEF Revises, Contents, Projects
<1>3. CASE Extends
  <2>1. (~Copied) \in BOOLEAN
    OBVIOUS
  <2> QED BY <1>1, <1>3, <2>1 DEF Extends, Contents, Projects
<1> QED BY <1>1, <1>2, <1>3

LEMMA EditKeeps ==
    ASSUME LockInv, Edit PROVE LockInv'
<1>1. InstallerType'
  BY EditTypes DEF LockInv, InstallerType, Edit, locks, copies, Projects
<1>2. UNCHANGED <<locks, op, pc, met>> /\ place # Absent
  BY DEF Edit
<1>3. \A p \in Updaters : pc[p] \in {"moved", "undo"} => met
  BY <1>2 DEF LockInv, Stands
<1> QED
  BY <1>1, <1>2, <1>3 DEF LockInv, OneHolder, OneScript, Alone, Stands, locks, Cli

LEMMA LockStep ==
    ASSUME LockInv, [InstallerNext]_installerVars PROVE LockInv'
<1>1. CASE UNCHANGED installerVars
  BY <1>1 DEF installerVars, locks, copies, LockInv, InstallerType, OneHolder, OneScript, Alone,
              Stands, Cli
<1>2. ASSUME NEW p \in Updaters, Start(p) \/ Lock(p) \/ Swap(p) \/ Fail(p) \/ KillUpdater(p)
      PROVE  LockInv'
  BY <1>2, OpenLockKeeps, FlockKeeps, MakeLockKeeps, ReleaseKeeps, UnlinkKeeps, SwapWorks,
     WorksKeeps DEF Lock
<1> QED BY <1>1, <1>2, EditKeeps DEF InstallerNext

LEMMA LockHolds == InstallerSpec => []LockInv
BY LockInit, LockStep, PTL DEF InstallerSpec

-----------------------------------------------------------------------------
(* Downgrades. *)

\* What an updater built is no older than the installation of a release that it has looked
\* at, which is still in its place or moved out of it.
NotBehind(p) ==
    /\ pc[p] \in {"snapped", "staged"} /\ place.by = "release" => stage[p].version >= place.version
    /\ pc[p] = "moved" /\ backup[p].by = "release" => stage[p].version >= backup[p].version

VersionInv == ~met => \A p \in Updaters : NotBehind(p)

\* What a step does to what the other updaters have looked at.
Apart(p) ==
    /\ \A q \in Updaters \ {p} : pc'[q] = pc[q] /\ stage'[q] = stage[q] /\ backup'[q] = backup[q]
                                 /\ seen'[q] = seen[q]
    /\ pc[p] \in Critical \/ place' = place
    /\ met => met'
    /\ project' = project

LEMMA StepsApart ==
    ASSUME InstallerType, NEW p \in Updaters,
           Start(p) \/ Lock(p) \/ Swap(p) \/ Fail(p) \/ KillUpdater(p)
    PROVE  Apart(p)
<1> USE DEF InstallerType, Apart, At, Goto, Critical, copies
<1>1. CASE Start(p) BY <1>1 DEF Start
<1>2. CASE Lock(p)
  BY <1>2 DEF Lock, OpenLock, Flock, MakeLock, Release, Unlink
<1>3. CASE Stage(p) BY <1>3 DEF Stage
<1>4. CASE Compare(p) BY <1>4 DEF Compare
<1>5. CASE MoveOld(p) BY <1>5 DEF MoveOld
<1>6. CASE PlaceNew(p) BY <1>6 DEF PlaceNew
<1>7. CASE Undo(p) BY <1>7 DEF Undo
<1>8. CASE DropBackup(p) BY <1>8 DEF DropBackup
<1>9. CASE Fail(p) BY <1>9 DEF Fail
<1>10. CASE KillUpdater(p) BY <1>10 DEF KillUpdater
<1> QED BY <1>1, <1>2, <1>3, <1>4, <1>5, <1>6, <1>7, <1>8, <1>9, <1>10 DEF Swap

\* The others' place in VersionInv: one at work is alone, so nobody moves what it looked at.
LEMMA OthersNotBehind ==
    ASSUME LockInv, VersionInv, ~met, NEW p \in Updaters, Apart(p), NEW q \in Updaters \ {p}
    PROVE  NotBehind(q)'
<1>1. CASE place' = place
  BY <1>1 DEF Apart, VersionInv, NotBehind
<1>2. CASE pc[p] \in Critical
  BY <1>2 DEF Apart, LockInv, Alone, Critical, NotBehind
<1> QED BY <1>1, <1>2 DEF Apart

LEMMA OwnNotBehind ==
    ASSUME LockInv, VersionInv, ~met, NEW p \in Updaters,
           Start(p) \/ Lock(p) \/ Swap(p) \/ Fail(p) \/ KillUpdater(p)
    PROVE  NotBehind(p)'
<1> USE DEF LockInv, InstallerType, NotBehind, At, Goto
<1>1. CASE Start(p) \/ Lock(p) \/ Fail(p) \/ KillUpdater(p)
  BY <1>1 DEF Start, Lock, OpenLock, Flock, MakeLock, Release, Unlink, Fail, KillUpdater
<1>2. CASE Stage(p)
  <2>1. CASE UpdateAdmitted(p) /\ ~Collides(p)
    <3>1. stage'[p] = Built(p) /\ place' = place /\ pc'[p] \in {"staged", "snapped"}
      BY <1>2, <2>1 DEF Stage
    <3>2. Built(p).version = op[p].version
      BY DEF Built
    <3>3. place.by = "release" => op[p].version >= place.version
      BY <2>1 DEF UpdateAdmitted, CliAdmitted, ScriptAdmitted, ReleaseManaged, NotOlder, Absent
    <3> QED BY <3>1, <3>2, <3>3
  <2>2. CASE ~(UpdateAdmitted(p) /\ ~Collides(p))
    BY <1>2, <2>2 DEF Stage
  <2> QED BY <2>1, <2>2
<1>3. CASE Compare(p) BY <1>3 DEF Compare, VersionInv, copies
<1>4. CASE MoveOld(p) BY <1>4 DEF MoveOld, VersionInv
<1>5. CASE PlaceNew(p) \/ Undo(p) \/ DropBackup(p)
  BY <1>5 DEF PlaceNew, Undo, DropBackup
<1> QED BY <1>1, <1>2, <1>3, <1>4, <1>5 DEF Swap

LEMMA VersionStep ==
    ASSUME LockInv, VersionInv, [InstallerNext]_installerVars PROVE VersionInv'
<1>1. CASE UNCHANGED installerVars
  BY <1>1 DEF installerVars, copies, VersionInv, NotBehind
<1>2. CASE Edit
  <2>1. place'.by = place.by /\ place'.version = place.version
    BY <1>2, EditTypes DEF Revises, Extends, LockInv, Contents
  <2> QED BY <1>2, <2>1 DEF Edit, copies, VersionInv, NotBehind
<1>3. ASSUME NEW p \in Updaters, Start(p) \/ Lock(p) \/ Swap(p) \/ Fail(p) \/ KillUpdater(p)
      PROVE  VersionInv'
  <2> SUFFICES ASSUME ~met' PROVE \A q \in Updaters : NotBehind(q)'
    BY DEF VersionInv
  <2>1. Apart(p) /\ ~met
    BY <1>3, StepsApart DEF LockInv, Apart
  <2> QED BY <1>3, <2>1, OthersNotBehind, OwnNotBehind
<1> QED BY <1>1, <1>2, <1>3 DEF InstallerNext

\* Of any number of updaters, no update puts an older version in the place of a newer release
\* unless two have been at work beside each other, whatever is killed or fails: what was
\* compared under the lock is what is moved away (installer.py:1126-1151, 907-915).
THEOREM LoneStands == InstallerSpec => NoLoneDowngrade
<1>1. InstallerInit => VersionInv
  BY DEF InstallerInit, VersionInv, NotBehind
<1>2. LockInv /\ VersionInv /\ [InstallerNext]_installerVars
        => [(\E p \in Updaters : Downgraded(p)) => met]_installerVars
  <2> SUFFICES ASSUME LockInv, VersionInv, NEW p \in Updaters, Downgraded(p), ~met PROVE FALSE
    OBVIOUS
  <2>1. pc[p] = "moved" /\ backup[p].by = "release" /\ stage[p].version < backup[p].version
    BY DEF Downgraded
  <2>2. stage[p].version \in Nat /\ backup[p].version \in Nat
    BY DEF LockInv, InstallerType, Contents, Absent
  <2> QED BY <2>1, <2>2 DEF VersionInv, NotBehind
<1> QED BY <1>1, <1>2, VersionStep, LockHolds, PTL DEF InstallerSpec, NoLoneDowngrade

-----------------------------------------------------------------------------
(* The project's files. *)

\* An updater that has, or died with, what it moved out of the way.
Behind(p) == pc[p] \in {"moved", "undo", "killed"} /\ backup[p] # Absent

\* A missing install directory is in a backup, and a stage that is built is not empty.
Whole == \A p \in Updaters : pc[p] \in {"snapped", "staged", "moved"} => stage[p] # Absent
KeepsPlace == place = Absent /\ (\E p \in Updaters : seen[p] # Absent)
                  => \E p \in Updaters : Behind(p)
PlaceInstalled == Whole /\ KeepsPlace

KeepsConfig == \A edit \in project.kept :
                   \/ edit \in place.config
                   \/ \E p \in Updaters : Behind(p) /\ edit \in backup[p].config
KeepsOwn == project.own => \/ place.extension = "own"
                           \/ \E p \in Updaters : Behind(p) /\ backup[p].extension = "own"

\* What is built has the project's files of what it was built over, but for late edits.
Carries(new, old) == /\ old.config \cap project.kept \subseteq new.config
                     /\ project.own /\ old.extension = "own" => new.extension = "own"

Builds(p) ==
    /\ pc[p] = "snapped" => /\ seen[p].config \subseteq stage[p].config
                            /\ seen[p].extension = "own" => stage[p].extension = "own"
    /\ pc[p] = "staged" => Carries(stage[p], place)
    /\ pc[p] = "moved" => Carries(stage[p], backup[p])

\* The next edit is a new one.
Counted == \A edit \in project.kept : edit <= project.edits

FilesInv == ~met => Counted /\ KeepsConfig /\ KeepsOwn /\ \A p \in Updaters : Builds(p)

LEMMA InstalledStep ==
    ASSUME LockInv, PlaceInstalled, [InstallerNext]_installerVars PROVE PlaceInstalled'
<1> USE DEF LockInv, InstallerType
<1>1. CASE UNCHANGED installerVars
  BY <1>1 DEF installerVars, copies, PlaceInstalled, Whole, KeepsPlace, Behind
<1>2. CASE Edit
  <2>1. place' # Absent /\ UNCHANGED <<pc, copies>>
    BY <1>2, EditTypes DEF Edit, Contents, Absent
  <2> QED BY <2>1 DEF PlaceInstalled, Whole, KeepsPlace, copies
<1>3. ASSUME NEW p \in Updaters, Start(p) \/ Lock(p) \/ Swap(p) \/ Fail(p) \/ KillUpdater(p)
      PROVE  PlaceInstalled'
  <2>a. Apart(p)
    BY <1>3, StepsApart
  <2>b. ASSUME stage'[p] # Absent \/ pc'[p] \notin {"snapped", "staged", "moved"} PROVE Whole'
    BY <2>a, <2>b DEF Apart, Whole, PlaceInstalled
  <2>c. ASSUME place' = Absent, Behind(p)' \/ (~Behind(p) /\ place = Absent),
               place = Absent => (seen'[p] # Absent => seen[p] # Absent)
        PROVE  KeepsPlace'
    BY <2>a, <2>c DEF Apart, KeepsPlace, PlaceInstalled, Behind
  <2> USE DEF At, Goto
  <2>1. CASE Start(p) \/ Lock(p) \/ Fail(p) \/ KillUpdater(p)
    <3>1. /\ UNCHANGED <<place, copies>>
          /\ pc'[p] \notin {"snapped", "staged", "moved"}
          /\ pc[p] \in {"moved", "undo", "killed"} => pc'[p] \in {"moved", "undo", "killed"}
      BY <2>1 DEF Start, Lock, OpenLock, Flock, MakeLock, Release, Unlink, Fail, KillUpdater
    <3> QED BY <2>b, <2>c, <3>1 DEF copies, Behind, KeepsPlace, PlaceInstalled
  <2>2. CASE Stage(p)
    <3>1. CASE UpdateAdmitted(p) /\ ~Collides(p)
      <4>1. stage'[p] # Absent
        BY <2>2, <3>1 DEF Stage, Built, Absent
      <4>2. seen'[p] = place /\ place' = place /\ pc[p] = "locked"
        BY <2>2, <3>1 DEF Stage, Snapshot
      <4> QED BY <2>b, <2>c, <4>1, <4>2 DEF Behind, PlaceInstalled, KeepsPlace
    <3>2. CASE ~(UpdateAdmitted(p) /\ ~Collides(p))
      <4>1. UNCHANGED <<place, copies>> /\ pc[p] = "locked" /\ pc'[p] = "leaving"
        BY <2>2, <3>2 DEF Stage, copies
      <4> QED BY <2>b, <2>c, <4>1 DEF Behind, copies, PlaceInstalled, KeepsPlace
    <3> QED BY <3>1, <3>2
  <2>3. CASE Compare(p)
    <3>1. UNCHANGED <<place, copies>> /\ pc[p] = "snapped"
      BY <2>3 DEF Compare
    <3> QED BY <2>b, <2>c, <3>1 DEF Behind, copies, PlaceInstalled, KeepsPlace, Whole
  <2>4. CASE MoveOld(p)
    <3>1. /\ backup'[p] = place /\ place' = Absent /\ pc'[p] = "moved" /\ pc[p] = "staged"
          /\ UNCHANGED <<seen, stage>>
      BY <2>4 DEF MoveOld
    <3> QED BY <2>b, <2>c, <3>1 DEF Behind, PlaceInstalled, KeepsPlace, Whole
  <2>5. CASE PlaceNew(p)
    <3>1. place' # Absent /\ pc'[p] \in {"placed", "undo"}
      BY <2>5 DEF PlaceNew, PlaceInstalled, Whole
    <3> QED BY <2>b, <3>1 DEF PlaceInstalled, KeepsPlace
  <2>6. CASE Undo(p)
    <3>1. place' = Absent => place = Absent /\ backup[p] = Absent
      BY <2>6 DEF Undo
    <3>2. seen' = seen /\ pc'[p] = "leaving"
      BY <2>6 DEF Undo
    <3> QED BY <2>b, <2>c, <3>1, <3>2 DEF Behind, PlaceInstalled, KeepsPlace
  <2>7. CASE DropBackup(p)
    <3>1. /\ place' = place /\ seen' = seen /\ pc[p] = "placed" /\ pc'[p] = "leaving"
      BY <2>7 DEF DropBackup
    <3> QED BY <2>b, <2>c, <3>1 DEF Behind, PlaceInstalled, KeepsPlace
  <2> QED BY <1>3, <2>1, <2>2, <2>3, <2>4, <2>5, <2>6, <2>7 DEF Swap
<1> QED BY <1>1, <1>2, <1>3 DEF InstallerNext

\* A step that leaves the install directory alone, and no backup that is needed.
LEMMA FilesStay ==
    ASSUME FilesInv, ~met, NEW p \in Updaters, Apart(p), place' = place,
           Behind(p) => Behind(p)' /\ backup'[p] = backup[p],
           Builds(p)'
    PROVE  FilesInv'
<1>1. \A q \in Updaters : Behind(q) => Behind(q)' /\ backup'[q] = backup[q]
  BY DEF Apart, Behind
<1>2. Counted' /\ KeepsConfig' /\ KeepsOwn'
  BY <1>1 DEF FilesInv, Counted, KeepsConfig, KeepsOwn, Apart
<1>3. \A q \in Updaters \ {p} : Builds(q)'
  BY DEF FilesInv, Builds, Apart, Carries
<1> QED BY <1>2, <1>3 DEF FilesInv

\* Nobody else looks at the install directory while p is at work on it.
LEMMA OthersBuild ==
    ASSUME LockInv, FilesInv, ~met, NEW p \in Updaters, Apart(p), pc[p] \in Critical,
           NEW q \in Updaters \ {p}
    PROVE  Builds(q)'
BY DEF LockInv, Alone, Critical, FilesInv, Builds, Apart

LEMMA FilesStep ==
    ASSUME LockInv, FilesInv, ~met, NEW p \in Updaters,
           Start(p) \/ Lock(p) \/ Swap(p) \/ Fail(p) \/ KillUpdater(p)
    PROVE  FilesInv'
<1> USE DEF At, Goto
<1>a. Apart(p)
  BY StepsApart DEF LockInv
<1>t. InstallerType
  BY DEF LockInv
<1>1. CASE Start(p) \/ Lock(p) \/ Fail(p) \/ KillUpdater(p)
  <2>1. /\ UNCHANGED <<place, copies>>
        /\ pc'[p] \notin {"snapped", "staged", "moved"}
        /\ pc[p] \in {"moved", "undo", "killed"} => pc'[p] \in {"moved", "undo", "killed"}
    BY <1>1, <1>t
       DEF Start, Lock, OpenLock, Flock, MakeLock, Release, Unlink, Fail, KillUpdater, InstallerType
  <2> QED BY <1>a, <2>1, FilesStay DEF copies, Behind, Builds
<1>2. CASE Stage(p)
  <2>1. CASE UpdateAdmitted(p) /\ ~Collides(p)
    <3>1. /\ seen'[p] = place /\ stage'[p] = Built(p) /\ place' = place /\ pc[p] = "locked"
          /\ pc'[p] \in {"staged", "snapped"}
      BY <1>2, <1>t, <2>1 DEF Stage, Snapshot, InstallerType
    <3>2. Built(p).config = place.config /\ (place.extension = "own" => Built(p).extension = "own")
      BY <2>1 DEF Built, Collides, Preserved
    <3>3. Builds(p)'
      BY <3>1, <3>2 DEF Builds, Carries
    <3> QED BY <1>a, <3>1, <3>3, FilesStay DEF Behind
  <2>2. CASE ~(UpdateAdmitted(p) /\ ~Collides(p))
    BY <1>2, <1>a, <1>t, <2>2, FilesStay DEF Stage, InstallerType, Behind, Builds
  <2> QED BY <2>1, <2>2
<1>3. CASE Compare(p)
  <2>1. /\ UNCHANGED <<place, copies>> /\ pc[p] = "snapped"
        /\ pc'[p] = "leaving" \/ (pc'[p] = "staged" /\ seen[p] = place)
    BY <1>3, <1>t DEF Compare, Same, Snapshot, InstallerType
  <2>2. Builds(p)'
    BY <1>a, <2>1 DEF FilesInv, Builds, Carries, copies, Apart
  <2> QED BY <1>a, <2>1, <2>2, FilesStay DEF Behind
<1>4. CASE MoveOld(p)
  <2>1. /\ backup'[p] = place /\ place' = Absent /\ pc'[p] = "moved" /\ stage'[p] = stage[p]
        /\ pc[p] = "staged"
    BY <1>4, <1>t DEF MoveOld, InstallerType
  <2>2. \A q \in Updaters : Behind(q) => Behind(q)' /\ backup'[q] = backup[q]
    BY <1>a, <2>1 DEF Apart, Behind
  <2>3. Behind(p)' \/ place' = place
    BY <2>1 DEF Behind
  <2>4. KeepsConfig' /\ KeepsOwn' /\ Counted'
    BY <1>a, <2>1, <2>2, <2>3 DEF FilesInv, KeepsConfig, KeepsOwn, Counted, Apart
  <2>5. Builds(p)'
    BY <1>a, <2>1 DEF FilesInv, Builds, Carries, Apart
  <2> QED BY <1>a, <2>1, <2>4, <2>5, OthersBuild DEF FilesInv, Critical
<1>5. CASE PlaceNew(p)
  <2>1. /\ place = Absent /\ place' = stage[p] /\ pc[p] = "moved" /\ pc'[p] = "placed"
        /\ Carries(stage[p], backup[p])
    BY <1>5, <1>t DEF PlaceNew, InstallerType, LockInv, Stands, FilesInv, Builds
  <2>2. \A q \in Updaters \ {p} : Behind(q) => Behind(q)' /\ backup'[q] = backup[q]
    BY <1>a DEF Apart, Behind
  <2>3. KeepsConfig'
    <3>1. ASSUME NEW edit \in project.kept
          PROVE  edit \in place'.config \/ \E q \in Updaters : Behind(q)' /\ edit \in backup'[q].config
      <4>1. edit \notin place.config
        BY <2>1 DEF Absent
      <4>2. PICK q \in Updaters : Behind(q) /\ edit \in backup[q].config
        BY <4>1 DEF FilesInv, KeepsConfig
      <4>3. CASE q = p
        BY <2>1, <4>2, <4>3 DEF Carries
      <4> QED BY <2>2, <4>2, <4>3
    <3> QED BY <1>a, <3>1 DEF KeepsConfig, Apart
  <2>4. KeepsOwn'
    BY <1>a, <2>1, <2>2 DEF FilesInv, KeepsOwn, Carries, Absent, Apart
  <2>5. Builds(p)' /\ Counted'
    BY <1>a, <2>1 DEF Builds, FilesInv, Counted, Apart
  <2> QED BY <1>a, <2>1, <2>3, <2>4, <2>5, OthersBuild DEF FilesInv, Critical
<1>6. CASE Undo(p)
  <2>1. /\ place = Absent /\ place' = backup[p] /\ pc[p] = "undo" /\ pc'[p] = "leaving"
    BY <1>6, <1>t DEF Undo, InstallerType, LockInv, Stands
  <2>2. \A q \in Updaters \ {p} : Behind(q) => Behind(q)' /\ backup'[q] = backup[q]
    BY <1>a DEF Apart, Behind
  <2>3. KeepsConfig' /\ KeepsOwn'
    BY <1>a, <2>1, <2>2 DEF FilesInv, KeepsConfig, KeepsOwn, Absent, Apart
  <2>4. Builds(p)' /\ Counted'
    BY <1>a, <2>1 DEF Builds, FilesInv, Counted, Apart
  <2> QED BY <1>a, <2>1, <2>3, <2>4, OthersBuild DEF FilesInv, Critical
<1>7. CASE DropBackup(p)
  BY <1>7, <1>a, <1>t, FilesStay DEF DropBackup, InstallerType, Behind, Builds
<1> QED BY <1>1, <1>2, <1>3, <1>4, <1>5, <1>6, <1>7 DEF Swap

\* An edit is kept at once, or it is in the way of an updater, whose stage does not have it.
LEMMA EditFiles ==
    ASSUME LockInv, FilesInv, ~met, Edit PROVE FilesInv'
<1>1. UNCHANGED <<pc, copies, met>>
  BY DEF Edit
<1>2. \A q \in Updaters : (Behind(q)' <=> Behind(q)) /\ backup'[q] = backup[q]
  BY <1>1 DEF Behind, copies
<1>3. place \in Contents /\ project \in Projects
  BY EditTypes DEF LockInv, InstallerType, Projects
<1>4. \A p \in Updaters : pc[p] \in {"staged", "moved"} => Copied
  BY DEF Copied
<1>5. CASE Revises
  <2> DEFINE edit == project.edits + 1
  <2>1. /\ place'.config = place.config \union {edit} /\ place'.extension = place.extension
        /\ project'.edits = edit /\ project'.own = project.own
        /\ project'.kept = (IF Copied THEN project.kept ELSE project.kept \union {edit})
    BY <1>3, <1>5 DEF Revises, Contents, Projects
  <2>2. project.edits \in Nat /\ project.kept \subseteq Nat /\ edit \notin project.kept
    BY <1>3 DEF Projects, FilesInv, Counted
  <2>3. Counted'
    BY <2>1, <2>2 DEF FilesInv, Counted
  <2> HIDE DEF edit
  <2>4. KeepsConfig' /\ KeepsOwn'
    BY <1>2, <2>1 DEF FilesInv, KeepsConfig, KeepsOwn
  <2>5. \A p \in Updaters : Builds(p)'
    BY <1>1, <1>4, <2>1, <2>2 DEF FilesInv, Builds, Carries, copies
  <2> QED BY <2>3, <2>4, <2>5 DEF FilesInv
<1>6. CASE Extends
  <2>1. /\ place'.config = place.config /\ place'.extension = "own" /\ ~project.own
        /\ project'.kept = project.kept /\ project'.own = ~Copied
        /\ project'.edits = project.edits
    BY <1>3, <1>6 DEF Extends, Contents, Projects
  <2>2. Counted' /\ KeepsConfig' /\ KeepsOwn'
    BY <1>2, <2>1 DEF FilesInv, Counted, KeepsConfig, KeepsOwn
  <2>3. \A p \in Updaters : Builds(p)'
    BY <1>1, <1>4, <2>1 DEF FilesInv, Builds, Carries, copies
  <2> QED BY <2>2, <2>3 DEF FilesInv
<1> QED BY <1>5, <1>6, EditTypes DEF LockInv

LEMMA FilesNext ==
    ASSUME LockInv, FilesInv, [InstallerNext]_installerVars PROVE FilesInv'
<1>1. CASE UNCHANGED installerVars
  BY <1>1
     DEF installerVars, copies, FilesInv, Counted, KeepsConfig, KeepsOwn, Behind, Builds, Carries
<1>2. CASE Edit
  BY <1>2, EditFiles DEF Edit, FilesInv
<1>3. ASSUME NEW p \in Updaters, Start(p) \/ Lock(p) \/ Swap(p) \/ Fail(p) \/ KillUpdater(p)
      PROVE  FilesInv'
  BY <1>3, StepsApart, FilesStep DEF LockInv, Apart, FilesInv
<1> QED BY <1>1, <1>2, <1>3 DEF InstallerNext

LEMMA FilesInit == InstallerInit => PlaceInstalled /\ FilesInv
<1> SUFFICES ASSUME InstallerInit PROVE PlaceInstalled /\ FilesInv
  OBVIOUS
<1>1. /\ project.kept = {} /\ (project.own => place.extension = "own")
      /\ \A p \in Updaters : pc[p] = "start" /\ seen[p] = Absent
  BY DEF InstallerInit
<1> QED
  BY <1>1 DEF PlaceInstalled, Whole, KeepsPlace, FilesInv, Counted, KeepsConfig, KeepsOwn, Builds

LEMMA FilesAreHere ==
    ASSUME LockInv, PlaceInstalled, FilesInv PROVE ProjectSurvives
<1> DEFINE Away == {p \in Updaters : pc[p] \in {"moved", "undo", "killed"} /\ backup[p] # Absent}
           Left == {place} \union {backup[p] : p \in Away}
<1>1. ASSUME NEW p \in Working, NEW q \in Working, ~Nameless(p), ~Nameless(q) PROVE p = q
  <2>1. /\ p \in Updaters /\ q \in Updaters /\ pc[p] \in Critical /\ pc[q] \in Critical
        /\ Stands(p) /\ Stands(q)
    BY DEF Working, LockInv
  <2>2. CASE Cli(p) /\ Cli(q)
    <3>1. p \in flock /\ q \in flock /\ inode[p] = inode[q]
      BY <1>1, <2>1, <2>2 DEF Nameless, Stands
    <3> QED BY <3>1 DEF LockInv, OneHolder
  <2>3. CASE ~Cli(p) /\ ~Cli(q)
    BY <2>1, <2>3 DEF LockInv, OneScript
  <2>4. CASE (Cli(p) /\ ~Cli(q)) \/ (~Cli(p) /\ Cli(q))
    BY <1>1, <2>1, <2>4, Numbers DEF Nameless, Stands
  <2> QED BY <2>2, <2>3, <2>4
<1>2. \A p \in Updaters : Behind(p) <=> p \in Away
  BY DEF Behind
<1>3. ~met => project.kept \subseteq UNION {c.config : c \in Left}
  BY <1>2 DEF FilesInv, KeepsConfig
<1>4. ~met => (project.own => \E c \in Left : c.extension = "own")
  BY <1>2 DEF FilesInv, KeepsOwn
<1>5. place = Absent /\ (\E p \in Updaters : seen[p] # Absent) => Away # {}
  BY <1>2 DEF PlaceInstalled, KeepsPlace
<1> QED BY <1>1, <1>3, <1>4, <1>5 DEF ProjectSurvives, LockInv

\* No number of updaters, kills, failing effects and edits leaves no install directory but
\* with a backup beside it, has two updaters at work under locks that both have their name,
\* or, as long as no two have met, loses a file of the project that was not edited in an
\* updater's way (installer.py:838-938, update-installed-skill.sh:953-968).
THEOREM ProjectStands == InstallerSpec => []ProjectSurvives
BY FilesInit, InstalledStep, FilesNext, FilesAreHere, LockHolds, PTL DEF InstallerSpec
=============================================================================
