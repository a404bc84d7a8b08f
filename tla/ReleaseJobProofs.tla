-------------------------- MODULE ReleaseJobProofs --------------------------
(***************************************************************************)
(* Proofs about ReleaseJob.tla, for any number of attempts and any         *)
(* scenario of kills, lags, lost answers and changes of the tracker:       *)
(*                                                                         *)
(*   NoOrphan     one release command at most, and an open result for it,  *)
(*   DeployedDone what a run recorded as deployed rests on,                *)
(*   ResultsStay  a terminal result is final.                              *)
(*                                                                         *)
(* The inductive invariant IInv has four parts beside the shape of the     *)
(* variables.  Staged says what a worker's place means for its guardian,   *)
(* its record and its command; Filed what a result says of the command;    *)
(* Booked what an entry of the registry says of the recorded jobs, for the *)
(* saved entry and for the copy of the pass; Judged what the pass may      *)
(* still believe of the job it read, and that it replaces a result only    *)
(* when nothing of the job can run any more.                               *)
(***************************************************************************)
EXTENDS ReleaseJob, TLAPS

------------------------------------------------------------------------------
(* The shape of the variables. *)

PassPlaces == {"idle", "dispatch", "attach", "cancel", "inspect", "term", "grace", "recover",
               "forget", "decide", "start", "record", "spawn", "await", "revoke", "save"}
WorkerPlaces == {"new", "off", "begin", "admit", "anchor", "register", "recheck", "may", "go",
                 "loop", "stop", "final", "close", "retire"}
Ends == {"", "cancelled", "failed", "beaten", "revoked", "ok"}
Directories == [file : Results, cancel : BOOLEAN, aged : BOOLEAN]

JobShape == job \in [Attempts -> Directories]
LifeShape == life \in [Attempts -> {"none", "background", "completed"}]
WorkerShape == worker \in [Attempts -> [at : WorkerPlaces, end : Ends]]
GuardianShape == guardian \in [Attempts -> Guardians]
CommandShape == command \in [Attempts -> Commands]
RegistryShape == registry \in Entries
TrackerShape == tracker \in [eligible : BOOLEAN, integrated : BOOLEAN]
PassShape == pass \in [at : PassPlaces, entry : Entries, eligible : BOOLEAN,
                       integrated : BOOLEAN, snap : Results, held : BOOLEAN]

Shape == /\ JobShape /\ LifeShape /\ WorkerShape /\ GuardianShape /\ CommandShape
         /\ RegistryShape /\ TrackerShape /\ PassShape

------------------------------------------------------------------------------
(* The worker and its group. *)

\* Before the guardian there is no process and no record of one.
Unborn == {"new", "begin", "admit"}

\* Where the guardian may still be told to go.
Waiting == {"anchor", "register", "recheck", "may", "go"}

\* The place of the worker against its guardian, its record and its command.
StagedAt(a) ==
    /\ worker[a].at \in Unborn => guardian[a] = "none"
    /\ guardian[a] = "none" => life[a] = "none" /\ worker[a].at \in Unborn \cup {"close", "off"}
    /\ worker[a].at \in {"anchor", "register"} => life[a] = "none" /\ guardian[a] = "blocked"
    /\ guardian[a] = "open" => worker[a].at \in {"loop", "stop", "off"}
    /\ guardian[a] = "blocked" => worker[a].at \in Waiting \cup {"stop"}
    /\ guardian[a] \in {"blocked", "open"} =>
        life[a] = "background" \/ worker[a].at \in {"anchor", "register"}
    /\ worker[a].at \in {"close", "final", "retire"} => guardian[a] \in {"none", "gone"}
    /\ guardian[a] \in {"none", "blocked"} => command[a] = "none"
    /\ command[a] = "running" => guardian[a] = "open"
    /\ worker[a].at \in Waiting => command[a] = "none"
    /\ worker[a].end = "ok" => command[a] = "ok"

\* Every attempt is at one of those stages.
Staged == \A a \in Attempts : StagedAt(a)

\* A command that runs, or may be started at once, has an open result that says so.
FiledAt(a) ==
    /\ command[a] = "running" \/ (worker[a].at = "go" /\ guardian[a] = "blocked") =>
        ~Terminal(job[a].file) /\ job[a].file.started
    /\ job[a].file.ok => Terminal(job[a].file) /\ command[a] = "ok"
    /\ ~Recorded(a) => worker[a].at = "new"

\* Every result says what it must of its command.
Filed == \A a \in Attempts : FiledAt(a)

------------------------------------------------------------------------------
(* The entry of the run. *)

\* One attempt at most is unaccounted for, and what is accounted for has ended.
Books(entry) ==
    /\ entry.last <= entry.attempt
    /\ entry.job # 0 => entry.job = entry.attempt /\ entry.last < entry.job /\ Recorded(entry.job)
    /\ entry.job = 0 => entry.attempt = entry.last
    /\ \A a \in Attempts : Recorded(a) /\ a <= entry.last => Terminal(job[a].file)
    /\ \A a, b \in Discovered(entry) : a = b

\* What a deployed run rests on.
Done(entry) ==
    entry.state = "deployed" =>
        /\ entry.last # 0
        /\ ~job[entry.last].cancel
        /\ command[entry.last] = "ok"

\* The saved entry, and the copy of the pass while it works on it.
Booked ==
    /\ Books(registry) /\ Done(registry)
    /\ registry.state = "deployed" => At("idle")
    /\ ~At("idle") => Books(Entry) /\ Done(Entry)
    /\ pass.at \notin {"idle", "save"} => Entry.last = registry.last /\ Entry.state # "deployed"

------------------------------------------------------------------------------
(* What the pass holds of its job. *)

\* Nothing of the job runs or will.
Harmless(a) ==
    \/ guardian[a] = "gone"
    \/ job[a].cancel /\ guardian[a] # "open" /\ worker[a].at \notin {"may", "go"}

\* The places at which the pass acts on what it read.
Reading == {"cancel", "inspect", "term", "grace", "recover", "forget", "decide", "revoke"}

\* A terminal result that was read is the one that stays, and one that was read as
\* completed and not revoked has no cancellation.
Faithful ==
    /\ ~Terminal(Snap) => ~Snap.ok
    /\ Terminal(Snap) => /\ Job # 0
                         /\ Snap.result = job[Job].file.result
                         /\ Snap.ok = job[Job].file.ok
                         /\ Snap.result = "completed" /\ ~Snap.revoked => ~job[Job].cancel

\* What a pass may rely on at each of its places.
Judged ==
    /\ pass.at \in (Reading \ {"decide"}) \cup {"spawn", "await"} => Job # 0
    /\ pass.at \in Reading => Faithful
    /\ At("decide") /\ Job # 0 => Snap.result # "none"
    /\ At("decide") /\ Job = 0 => Snap.result = "none"
    /\ pass.at \in {"cancel", "revoke", "recover"} => ~Terminal(Snap)
    /\ At("forget") => Terminal(Snap)
    /\ pass.at \in {"inspect", "term", "grace"} /\ ~Terminal(Snap) => job[Job].cancel
    /\ At("recover") => Harmless(Job)
    /\ pass.at \in {"start", "record"} => Job = 0 /\ Entry.attempt < MaxAttempt
    /\ At("record") => Discovered(Entry) = {}
    /\ At("spawn") => worker[Job].at = "new" /\ job[Job].file.result = "launching"

\* The inductive invariant.
IInv == Shape /\ Staged /\ Filed /\ Booked /\ Judged

------------------------------------------------------------------------------
(* What the steps do to the directories. *)

\* A step of the attempt a beside the passes.
WorkerSide(a) == WorkerStep(a) \/ Heartbeat(a) \/ KillWorker(a) \/ CommandEnds(a) \/ Age(a)

\* The actors of a step.
LEMMA Actors == Next => PassStep \/ KillPass \/ Tracker \/ \E a \in Attempts : WorkerSide(a)
<1> SUFFICES ASSUME Next PROVE PassStep \/ KillPass \/ Tracker \/ \E a \in Attempts : WorkerSide(a)
  OBVIOUS
<1>1. CASE PassStep \/ KillPass \/ Tracker
  BY <1>1
<1>2. CASE \E a \in Attempts : WorkerStep(a) \/ Heartbeat(a) \/ KillWorker(a) \/ CommandEnds(a) \/ Age(a)
  BY <1>2 DEF WorkerSide
<1> QED BY <1>1, <1>2 DEF Next

\* What a result is made of.
LEMMA ResultFields ==
    ASSUME NEW file \in Results
    PROVE  /\ file.result \in {"none", "directory", "launching", "running", "completed", "cancelled"}
           /\ file.started \in BOOLEAN /\ file.ok \in BOOLEAN /\ file.pid \in BOOLEAN
           /\ file.revoked \in BOOLEAN
           /\ file.revoked => file.result = "completed"
BY DEF Results

\* A result may end, or pass between the open states; only one that ended is revoked.
LEMMA ResultChanges ==
    ASSUME NEW file \in Results
    PROVE  /\ [file EXCEPT !.pid = TRUE] \in Results
           /\ [file EXCEPT !.started = TRUE] \in Results
           /\ ~file.revoked => \A r \in {"directory", "launching", "running"} :
                                 [file EXCEPT !.result = r] \in Results
           /\ [file EXCEPT !.result = "completed"] \in Results
           /\ \A r \in {"completed", "cancelled"}, revoked \in BOOLEAN :
                (revoked => r = "completed") =>
                  [file EXCEPT !.result = r, !.revoked = revoked] \in Results
           /\ \A r \in {"completed", "cancelled"}, revoked \in BOOLEAN, ok \in BOOLEAN :
                (revoked => r = "completed") =>
                  [file EXCEPT !.result = r, !.ok = ok, !.revoked = revoked] \in Results
BY DEF Results

\* A result that replaces another changes nothing else.
LEMMA PutFacts ==
    ASSUME JobShape, NEW a \in Attempts, NEW file, Put(a, file)
    PROVE  /\ job'[a].file = file /\ job'[a].cancel = job[a].cancel
           /\ \A b \in Attempts \ {a} : job'[b] = job[b]
           /\ file \in Results => JobShape'
BY DEF JobShape, Put, Directories

\* So does a heartbeat and its age,
LEMMA AgedFacts ==
    ASSUME JobShape, NEW a \in Attempts, NEW aged \in BOOLEAN, job' = [job EXCEPT ![a].aged = aged]
    PROVE  /\ \A b \in Attempts : job'[b].file = job[b].file /\ job'[b].cancel = job[b].cancel
           /\ JobShape'
BY DEF JobShape, Directories

\* and a request for cancellation.
LEMMA CancelFacts ==
    ASSUME JobShape, NEW a \in Attempts, job' = [job EXCEPT ![a].cancel = TRUE]
    PROVE  /\ \A b \in Attempts : job'[b].file = job[b].file
           /\ \A b \in Attempts \ {a} : job'[b] = job[b]
           /\ job'[a].cancel
           /\ JobShape'
BY DEF JobShape, Directories

\* A new state of the job.
LEMMA ResultFacts ==
    ASSUME JobShape, NEW a \in Attempts, NEW r \in {"directory", "launching"},
           ~job[a].file.revoked, job' = [job EXCEPT ![a].file.result = r]
    PROVE  /\ job'[a].file = [job[a].file EXCEPT !.result = r]
           /\ job'[a].cancel = job[a].cancel
           /\ \A b \in Attempts \ {a} : job'[b] = job[b]
           /\ JobShape'
<1>1. job[a].file \in Results /\ [job[a].file EXCEPT !.result = r] \in Results
  BY ResultChanges DEF JobShape, Directories
<1>2. /\ job'[a].file = [job[a].file EXCEPT !.result = r] /\ job'[a].cancel = job[a].cancel
      /\ job'[a] = [job[a] EXCEPT !.file = [job[a].file EXCEPT !.result = r]]
      /\ \A b \in Attempts \ {a} : job'[b] = job[b]
  BY DEF JobShape, Directories
<1>3. job' = [job EXCEPT ![a] = [job[a] EXCEPT !.file = [job[a].file EXCEPT !.result = r]]]
  BY <1>2 DEF JobShape
<1>4. [job[a] EXCEPT !.file = [job[a].file EXCEPT !.result = r]] \in Directories
  BY <1>1 DEF JobShape, Directories
<1> QED BY <1>2, <1>3, <1>4 DEF JobShape

\* A launch that the worker takes over.
LEMMA BeginFacts ==
    ASSUME JobShape, NEW a \in Attempts, job[a].file.result = "launching",
           job' = [job EXCEPT ![a].file.result = "running", ![a].aged = FALSE]
    PROVE  /\ job'[a].file = [job[a].file EXCEPT !.result = "running"]
           /\ job'[a].cancel = job[a].cancel
           /\ \A b \in Attempts \ {a} : job'[b] = job[b]
           /\ JobShape'
<1>1. job[a].file \in Results /\ [job[a].file EXCEPT !.result = "running"] \in Results
  BY ResultFields, ResultChanges DEF JobShape, Directories
<1> DEFINE new == [job[a] EXCEPT !.file = [job[a].file EXCEPT !.result = "running"], !.aged = FALSE]
<1>2. /\ job'[a].file = [job[a].file EXCEPT !.result = "running"] /\ job'[a].cancel = job[a].cancel
      /\ job'[a] = new
      /\ \A b \in Attempts \ {a} : job'[b] = job[b]
  BY DEF JobShape, Directories
<1>3. job' = [job EXCEPT ![a] = new]
  BY <1>2 DEF JobShape
<1>4. new \in Directories
  BY <1>1 DEF JobShape, Directories
<1> QED BY <1>2, <1>3, <1>4 DEF JobShape

\* The next attempt of a run that has no open one is not recorded yet.
LEMMA Fresh ==
    ASSUME Shape, Filed, Booked, Judged, JobAssumption,
           pass.at \in {"start", "record"}, Discovered(Entry) = {}
    PROVE  LET a == Entry.attempt + 1 IN
           /\ a \in Attempts /\ ~Recorded(a) /\ worker[a].at = "new"
           /\ job[a].file \in Results /\ ~job[a].file.revoked /\ ~Terminal(job[a].file)
           /\ ~job[a].file.ok
           /\ a > Entry.attempt
<1> DEFINE a == Entry.attempt + 1
<1>1. Entry \in Entries /\ Entry.attempt < MaxAttempt /\ Books(Entry)
  BY DEF Shape, PassShape, Judged, Booked, Entry, At
<1>2. Entry.attempt \in Nat /\ Entry.last \in Nat /\ Entry.last <= Entry.attempt /\ MaxAttempt \in Nat
  BY <1>1, JobAssumption DEF Entries, Books, JobAssumption
<1>3. a \in Attempts /\ a > Entry.last /\ a > Entry.attempt
  BY <1>1, <1>2 DEF Attempts
<1>4. ~Recorded(a)
  BY <1>3 DEF Discovered
<1>5. job[a].file \in Results
  BY <1>3 DEF Shape, JobShape, Directories
<1> QED BY <1>3, <1>4, <1>5, ResultFields DEF Filed, FiledAt, Recorded, Terminal

------------------------------------------------------------------------------
(* The steps of a worker and of its processes. *)

\* A worker that moves changes no other,
LEMMA MoveFacts ==
    ASSUME WorkerShape, NEW a \in Attempts, NEW at \in WorkerPlaces, Move(a, at)
    PROVE  /\ worker'[a].at = at /\ worker'[a].end = worker[a].end
           /\ \A b \in Attempts \ {a} : worker'[b] = worker[b]
           /\ WorkerShape'
BY DEF WorkerShape, Move

\* nor one that has decided on its end,
LEMMA EndFacts ==
    ASSUME WorkerShape, NEW a \in Attempts, NEW at \in WorkerPlaces, NEW end \in Ends,
           EndAs(a, at, end)
    PROVE  /\ worker'[a].at = at /\ worker'[a].end = end
           /\ \A b \in Attempts \ {a} : worker'[b] = worker[b]
           /\ WorkerShape'
BY DEF WorkerShape, EndAs

\* nor one that exits.
LEMMA ExitFacts ==
    ASSUME WorkerShape, NEW a \in Attempts, Exit(a)
    PROVE  /\ worker'[a].at = "off" /\ worker'[a].end = ""
           /\ \A b \in Attempts \ {a} : worker'[b] = worker[b]
           /\ WorkerShape'
BY DEF WorkerShape, Exit, Off, WorkerPlaces, Ends

\* The kill of a group.
LEMMA KilledFacts ==
    ASSUME GuardianShape, CommandShape, NEW a \in Attempts, Killed(a)
    PROVE  /\ guardian'[a] = "gone"
           /\ command'[a] = IF command[a] = "running" THEN "killed" ELSE command[a]
           /\ \A b \in Attempts \ {a} : guardian'[b] = guardian[b] /\ command'[b] = command[b]
           /\ GuardianShape' /\ CommandShape'
BY DEF GuardianShape, CommandShape, Killed, Guardians, Commands

\* What a step of the attempt a does to its result: a terminal one stays, and only the end
\* of the worker makes one.
ResultStep(a) ==
    /\ JobShape'
    /\ \A b \in Attempts : job'[b].cancel = job[b].cancel
    /\ \A b \in Attempts \ {a} : job'[b].file = job[b].file
    /\ Terminal(job[a].file) \/ worker[a].at = "new" => job'[a].file.result = job[a].file.result
    /\ Terminal(job[a].file) => job'[a].file = job[a].file
    /\ Recorded(a) => job'[a].file.result \notin {"none", "directory"}
    /\ ~Recorded(a) => job'[a].file.result \in {"none", "directory"}
    /\ job[a].file.started => job'[a].file.started
    /\ job'[a].file.ok => job[a].file.ok \/ (worker[a].end = "ok" /\ Terminal(job'[a].file))
    /\ Terminal(job'[a].file) /\ ~Terminal(job[a].file) => worker[a].at \in {"final", "close"}
    /\ worker'[a].at = "go" /\ worker[a].at # "go" =>
         ~Terminal(job'[a].file) /\ job'[a].file.started

\* The steps that replace the result of a.
LEMMA ResultWriters ==
    ASSUME Shape, Filed, NEW a \in Attempts
    PROVE  Begin(a) \/ Anchor(a) \/ May(a) \/ Final(a) => ResultStep(a)
<1>1. /\ JobShape /\ WorkerShape
      /\ job[a].file \in Results
      /\ ~Recorded(a) => worker[a].at = "new"
      /\ worker[a].at \in WorkerPlaces /\ worker[a].end \in Ends
  BY DEF Shape, JobShape, WorkerShape, Directories, Filed, FiledAt
<1>2. CASE Begin(a)
  <2>1. CASE File(a).result = "launching"
    <3>1. /\ job'[a].file = [job[a].file EXCEPT !.result = "running"]
          /\ job'[a].cancel = job[a].cancel
          /\ \A b \in Attempts \ {a} : job'[b] = job[b]
          /\ JobShape'
      BY <1>1, <1>2, <2>1, BeginFacts DEF Begin, File
    <3>2. worker'[a].at = "admit"
      BY <1>1, <1>2, <2>1, MoveFacts, EndFacts, ExitFacts DEF Begin, WorkerPlaces
    <3>3. /\ job'[a].file.result = "running" /\ job'[a].file.started = job[a].file.started
          /\ job'[a].file.ok = job[a].file.ok
      BY <1>1, <3>1 DEF Results
    <3>4. worker[a].at = "begin"
      BY <1>2 DEF Begin, In
    <3> QED BY <2>1, <3>1, <3>2, <3>3, <3>4 DEF ResultStep, Recorded, Terminal, File
  <2>2. CASE File(a).result # "launching"
    <3>1. job' = job /\ worker'[a].at = "off"
      BY <1>1, <1>2, <2>2, MoveFacts, EndFacts, ExitFacts DEF Begin
    <3> QED BY <1>1, <3>1 DEF ResultStep, Recorded, Terminal, JobShape
  <2> QED BY <2>1, <2>2
<1>3. CASE Anchor(a)
  <2>1. CASE Writable(a)
    <3>1. Put(a, [File(a) EXCEPT !.pid = TRUE]) /\ Move(a, "register") /\ In(a, "anchor")
      BY <1>3, <2>1 DEF Anchor
    <3>2. /\ job'[a].file = [job[a].file EXCEPT !.pid = TRUE]
          /\ job'[a].cancel = job[a].cancel
          /\ \A b \in Attempts \ {a} : job'[b] = job[b]
          /\ JobShape'
      BY <1>1, <3>1, PutFacts, ResultChanges DEF File
    <3>3. worker'[a].at = "register"
      BY <1>1, <3>1, MoveFacts, EndFacts, ExitFacts DEF WorkerPlaces
    <3>4. /\ job'[a].file.result = job[a].file.result /\ job'[a].file.started = job[a].file.started
          /\ job'[a].file.ok = job[a].file.ok
      BY <1>1, <3>2 DEF Results
    <3> QED BY <2>1, <3>1, <3>2, <3>3, <3>4 DEF ResultStep, Recorded, Terminal, Writable, In
  <2>2. CASE ~Writable(a)
    <3>1. job' = job /\ worker'[a].at = "off"
      BY <1>1, <1>3, <2>2, MoveFacts, EndFacts, ExitFacts DEF Anchor
    <3> QED BY <1>1, <3>1 DEF ResultStep, Recorded, Terminal, JobShape
  <2> QED BY <2>1, <2>2
<1>4. CASE May(a)
  <2>1. CASE Writable(a)
    <3>1. Put(a, [File(a) EXCEPT !.started = TRUE]) /\ Move(a, "go") /\ In(a, "may")
      BY <1>4, <2>1 DEF May
    <3>2. /\ job'[a].file = [job[a].file EXCEPT !.started = TRUE]
          /\ job'[a].cancel = job[a].cancel
          /\ \A b \in Attempts \ {a} : job'[b] = job[b]
          /\ JobShape'
      BY <1>1, <3>1, PutFacts, ResultChanges DEF File
    <3>3. /\ job'[a].file.result = job[a].file.result /\ job'[a].file.started
          /\ job'[a].file.ok = job[a].file.ok
      BY <1>1, <3>2 DEF Results
    <3> QED BY <2>1, <3>1, <3>2, <3>3 DEF ResultStep, Recorded, Terminal, Writable, In
  <2>2. CASE ~Writable(a)
    <3>1. job' = job /\ worker'[a].at = "stop"
      BY <1>1, <1>4, <2>2, MoveFacts, EndFacts, ExitFacts DEF May, WorkerPlaces, Ends
    <3> QED BY <1>1, <3>1 DEF ResultStep, Recorded, Terminal, JobShape
  <2> QED BY <2>1, <2>2
<1>5. CASE Final(a)
  <2>1. worker[a].at \in {"final", "close"} /\ worker'[a].at \in {"retire", "off"}
    BY <1>1, <1>5, MoveFacts, EndFacts, ExitFacts DEF Final, WorkerPlaces
  <2>2. CASE Writable(a)
    <3> DEFINE end == worker[a].end
               r == IF end = "cancelled" THEN "cancelled" ELSE "completed"
               file == [File(a) EXCEPT !.result = r, !.ok = (end = "ok"), !.revoked = (end = "revoked")]
    <3>1. Put(a, file)
      BY <1>5, <2>2 DEF Final
    <3>2. r \in {"completed", "cancelled"} /\ (end = "revoked" => r = "completed")
      OBVIOUS
    <3>3. file \in Results
      <4>1. (end = "ok") \in BOOLEAN /\ (end = "revoked") \in BOOLEAN
        OBVIOUS
      <4> HIDE DEF r
      <4> QED BY <1>1, <3>2, <4>1, ResultChanges DEF File
    <3>4. /\ file.result = r /\ file.started = job[a].file.started /\ (file.ok => end = "ok")
      <4> HIDE DEF r
      <4> QED BY <1>1 DEF Results, File
    <3> HIDE DEF file
    <3>5. /\ job'[a].file = file /\ job'[a].cancel = job[a].cancel
          /\ \A b \in Attempts \ {a} : job'[b] = job[b]
          /\ JobShape'
      BY <1>1, <3>1, <3>3, PutFacts
    <3> HIDE DEF r
    <3> QED BY <1>1, <2>1, <2>2, <3>2, <3>4, <3>5 DEF ResultStep, Recorded, Terminal, Writable
  <2>3. CASE ~Writable(a)
    <3>1. job' = job
      BY <1>5, <2>3 DEF Final
    <3> QED BY <1>1, <2>1, <3>1 DEF ResultStep, Recorded, Terminal, JobShape
  <2> QED BY <2>2, <2>3
<1> QED BY <1>2, <1>3, <1>4, <1>5

\* A heartbeat and its age, and the steps that leave the directories alone.
LEMMA ResultKept ==
    ASSUME Shape, Filed, NEW a \in Attempts,
           job' = job \/ (\E aged \in BOOLEAN : job' = [job EXCEPT ![a].aged = aged]),
           worker'[a].at = "go" => worker[a].at = "go"
    PROVE  ResultStep(a)
<1>1. /\ \A b \in Attempts : job'[b].file = job[b].file /\ job'[b].cancel = job[b].cancel
      /\ JobShape'
  BY AgedFacts DEF Shape, JobShape
<1> QED BY <1>1 DEF ResultStep, Recorded, Terminal

\* What a step of a does to its processes: no other attempt's are touched.
ProcessStep(a) ==
    /\ WorkerShape' /\ GuardianShape' /\ CommandShape' /\ LifeShape'
    /\ \A b \in Attempts \ {a} : /\ worker'[b] = worker[b] /\ guardian'[b] = guardian[b]
                                /\ command'[b] = command[b] /\ life'[b] = life[b]
    /\ StagedAt(a)'
    /\ worker[a].at = "new" => worker'[a].at = "new"
    /\ command[a] = "ok" => command'[a] = "ok"
    /\ guardian[a] = "gone" => guardian'[a] = "gone"
    /\ worker'[a].at = "go" => worker[a].at \in {"may", "go"}
    /\ guardian'[a] = "open" => guardian[a] = "open" \/ worker[a].at = "go"
    /\ command'[a] = "running" => \/ command[a] = "running"
                                  \/ worker[a].at = "go" /\ guardian[a] = "blocked"
    /\ guardian'[a] = "blocked" => guardian[a] \in {"none", "blocked"}
    /\ worker'[a].at = "may" => worker[a].at = "may" \/ ~job[a].cancel
    /\ worker'[a].at = "go" /\ guardian'[a] = "blocked" => guardian[a] = "blocked"

\* The worker up to its registration.
LEMMA EarlySteps ==
    ASSUME Shape, NEW a \in Attempts, StagedAt(a)
    PROVE  Begin(a) \/ Admit(a) \/ Anchor(a) \/ Register(a) => ProcessStep(a)
<1>1. /\ WorkerShape /\ GuardianShape /\ CommandShape /\ LifeShape
      /\ \A b \in Attempts : worker[b].at \in WorkerPlaces /\ worker[b].end \in Ends
  BY DEF Shape, WorkerShape
<1>2. CASE Begin(a)
  <2>1. /\ worker[a].at = "begin" /\ worker'[a].at \in {"admit", "off"}
        /\ worker'[a].end \in {worker[a].end, ""}
        /\ \A b \in Attempts \ {a} : worker'[b] = worker[b]
        /\ WorkerShape'
    BY <1>1, <1>2, MoveFacts, ExitFacts DEF Begin, In, WorkerPlaces
  <2>2. UNCHANGED <<life, guardian, command>>
    BY <1>2 DEF Begin
  <2> QED BY <1>1, <2>1, <2>2 DEF ProcessStep, StagedAt, Unborn, Waiting, WorkerShape, GuardianShape, CommandShape, LifeShape
<1>3. CASE Admit(a)
  <2>1. CASE job[a].cancel /\ EndAs(a, "close", "cancelled") /\ UNCHANGED guardian
    <3>1. /\ worker[a].at = "admit" /\ worker'[a].at = "close" /\ worker'[a].end = "cancelled"
          /\ \A b \in Attempts \ {a} : worker'[b] = worker[b]
          /\ WorkerShape'
      BY <1>1, <1>3, <2>1, EndFacts DEF Admit, In, WorkerPlaces, Ends
    <3>2. UNCHANGED <<life, guardian, command>>
      BY <1>3, <2>1 DEF Admit
    <3> QED BY <1>1, <3>1, <3>2 DEF ProcessStep, StagedAt, Unborn, Waiting, WorkerShape, GuardianShape, CommandShape, LifeShape
  <2>2. CASE Move(a, "anchor") /\ guardian' = [guardian EXCEPT ![a] = "blocked"]
    <3>1. /\ worker[a].at = "admit" /\ worker'[a].at = "anchor" /\ worker'[a].end = worker[a].end
          /\ \A b \in Attempts \ {a} : worker'[b] = worker[b]
          /\ WorkerShape'
      BY <1>1, <1>3, <2>2, MoveFacts DEF Admit, In, WorkerPlaces
    <3>2. UNCHANGED <<life, command>>
      BY <1>3 DEF Admit
    <3>3. /\ guardian'[a] = "blocked" /\ GuardianShape'
          /\ \A b \in Attempts \ {a} : guardian'[b] = guardian[b]
      BY <1>1, <2>2 DEF GuardianShape, Guardians
    <3> QED BY <1>1, <3>1, <3>2, <3>3 DEF ProcessStep, StagedAt, Unborn, Waiting, WorkerShape, CommandShape, LifeShape
  <2>3. CASE EndAs(a, "close", "failed") /\ UNCHANGED guardian
    <3>1. /\ worker[a].at = "admit" /\ worker'[a].at = "close" /\ worker'[a].end = "failed"
          /\ \A b \in Attempts \ {a} : worker'[b] = worker[b]
          /\ WorkerShape'
      BY <1>1, <1>3, <2>3, EndFacts DEF Admit, In, WorkerPlaces, Ends
    <3>2. UNCHANGED <<life, guardian, command>>
      BY <1>3, <2>3 DEF Admit
    <3> QED BY <1>1, <3>1, <3>2 DEF ProcessStep, StagedAt, Unborn, Waiting, WorkerShape, GuardianShape, CommandShape, LifeShape
  <2> QED BY <1>3, <2>1, <2>2, <2>3 DEF Admit
<1>4. CASE Anchor(a)
  <2>1. CASE Move(a, "register") /\ UNCHANGED <<guardian, command>>
    <3>1. /\ worker[a].at = "anchor" /\ worker'[a].at = "register" /\ worker'[a].end = worker[a].end
          /\ \A b \in Attempts \ {a} : worker'[b] = worker[b]
          /\ WorkerShape'
      BY <1>1, <1>4, <2>1, MoveFacts DEF Anchor, In, WorkerPlaces
    <3>2. UNCHANGED <<life, guardian, command>>
      BY <1>4, <2>1 DEF Anchor
    <3> QED BY <1>1, <3>1, <3>2 DEF ProcessStep, StagedAt, Unborn, Waiting, WorkerShape, GuardianShape, CommandShape, LifeShape
  <2>2. CASE Killed(a) /\ Exit(a)
    <3>1. /\ worker[a].at = "anchor" /\ worker'[a].at = "off" /\ worker'[a].end = ""
          /\ \A b \in Attempts \ {a} : worker'[b] = worker[b]
          /\ WorkerShape'
      BY <1>1, <1>4, <2>2, ExitFacts DEF Anchor, In
    <3>2. life' = life
      BY <1>4 DEF Anchor
    <3> QED BY <1>1, <2>2, <3>1, <3>2, KilledFacts DEF ProcessStep, StagedAt, Unborn, Waiting, LifeShape
  <2> QED BY <1>4, <2>1, <2>2 DEF Anchor
<1>5. CASE Register(a)
  <2>1. CASE life' = [life EXCEPT ![a] = "background"] /\ Move(a, "recheck") /\ UNCHANGED <<guardian, command>>
    <3>1. /\ worker[a].at = "register" /\ worker'[a].at = "recheck" /\ worker'[a].end = worker[a].end
          /\ \A b \in Attempts \ {a} : worker'[b] = worker[b]
          /\ WorkerShape'
      BY <1>1, <1>5, <2>1, MoveFacts DEF Register, In, WorkerPlaces
    <3>2. /\ life'[a] = "background" /\ LifeShape'
          /\ \A b \in Attempts \ {a} : life'[b] = life[b]
      BY <1>1, <2>1 DEF LifeShape
    <3> QED BY <1>1, <2>1, <3>1, <3>2 DEF ProcessStep, StagedAt, Unborn, Waiting, WorkerShape, GuardianShape, CommandShape
  <2>2. CASE /\ life' \in {life, [life EXCEPT ![a] = "background"]}
             /\ Killed(a) /\ EndAs(a, "close", "failed")
    <3>1. /\ worker[a].at = "register" /\ worker'[a].at = "close" /\ worker'[a].end = "failed"
          /\ \A b \in Attempts \ {a} : worker'[b] = worker[b]
          /\ WorkerShape'
      BY <1>1, <1>5, <2>2, EndFacts DEF Register, In, WorkerPlaces, Ends
    <3>2. /\ LifeShape'
          /\ \A b \in Attempts \ {a} : life'[b] = life[b]
      BY <1>1, <2>2 DEF LifeShape
    <3> QED BY <1>1, <2>2, <3>1, <3>2, KilledFacts DEF ProcessStep, StagedAt, Unborn, Waiting
  <2>3. CASE life' = [life EXCEPT ![a] = "background"] /\ Killed(a) /\ Exit(a)
    <3>1. /\ worker[a].at = "register" /\ worker'[a].at = "off" /\ worker'[a].end = ""
          /\ \A b \in Attempts \ {a} : worker'[b] = worker[b]
          /\ WorkerShape'
      BY <1>1, <1>5, <2>3, ExitFacts DEF Register, In
    <3>2. /\ life'[a] = "background" /\ LifeShape'
          /\ \A b \in Attempts \ {a} : life'[b] = life[b]
      BY <1>1, <2>3 DEF LifeShape
    <3> QED BY <1>1, <2>3, <3>1, <3>2, KilledFacts DEF ProcessStep, StagedAt, Unborn, Waiting
  <2> QED BY <1>5, <2>1, <2>2, <2>3 DEF Register
<1> QED BY <1>2, <1>3, <1>4, <1>5

\* The worker from its registration to the end of the command.
LEMMA MiddleSteps ==
    ASSUME Shape, NEW a \in Attempts, StagedAt(a)
    PROVE  Recheck(a) \/ May(a) \/ Go(a) \/ Watch(a) \/ Overdue(a) \/ Heartbeat(a) => ProcessStep(a)
<1>1. /\ WorkerShape /\ GuardianShape /\ CommandShape /\ LifeShape
      /\ \A b \in Attempts : worker[b].at \in WorkerPlaces /\ worker[b].end \in Ends
  BY DEF Shape, WorkerShape
<1>2. CASE Recheck(a)
  <2>1. /\ worker[a].at = "recheck"
        /\ \/ worker'[a].at = "stop" /\ worker'[a].end = "cancelled"
           \/ worker'[a].at = "may" /\ worker'[a].end = worker[a].end /\ ~job[a].cancel
        /\ \A b \in Attempts \ {a} : worker'[b] = worker[b]
        /\ WorkerShape'
    BY <1>1, <1>2, MoveFacts, EndFacts DEF Recheck, In, WorkerPlaces, Ends
  <2>2. UNCHANGED <<life, guardian, command>>
    BY <1>2 DEF Recheck
  <2> QED BY <1>1, <2>1, <2>2 DEF ProcessStep, StagedAt, Unborn, Waiting, WorkerShape, GuardianShape, CommandShape, LifeShape
<1>3. CASE May(a)
  <2>1. /\ worker[a].at = "may"
        /\ \/ worker'[a].at = "stop" /\ worker'[a].end = "beaten"
           \/ worker'[a].at = "go" /\ worker'[a].end = worker[a].end
        /\ \A b \in Attempts \ {a} : worker'[b] = worker[b]
        /\ WorkerShape'
    BY <1>1, <1>3, MoveFacts, EndFacts DEF May, In, WorkerPlaces, Ends
  <2>2. UNCHANGED <<life, guardian, command>>
    BY <1>3 DEF May
  <2> QED BY <1>1, <2>1, <2>2 DEF ProcessStep, StagedAt, Unborn, Waiting, WorkerShape, GuardianShape, CommandShape, LifeShape
<1>4. CASE Go(a)
  <2>1. CASE /\ guardian[a] = "blocked"
             /\ guardian' = [guardian EXCEPT ![a] = "open"]
             /\ command' = [command EXCEPT ![a] = "running"]
             /\ Move(a, "loop")
    <3>1. /\ worker[a].at = "go" /\ worker'[a].at = "loop" /\ worker'[a].end = worker[a].end
          /\ \A b \in Attempts \ {a} : worker'[b] = worker[b]
          /\ WorkerShape'
      BY <1>1, <1>4, <2>1, MoveFacts DEF Go, In, WorkerPlaces
    <3>2. life' = life
      BY <1>4 DEF Go
    <3>3. /\ guardian'[a] = "open" /\ command'[a] = "running" /\ GuardianShape' /\ CommandShape'
          /\ \A b \in Attempts \ {a} : guardian'[b] = guardian[b] /\ command'[b] = command[b]
      BY <1>1, <2>1 DEF GuardianShape, CommandShape, Guardians, Commands
    <3> QED BY <1>1, <2>1, <3>1, <3>2, <3>3 DEF ProcessStep, StagedAt, Unborn, Waiting, LifeShape
  <2>2. CASE guardian[a] = "gone" /\ EndAs(a, "stop", "failed") /\ UNCHANGED <<guardian, command>>
    <3>1. /\ worker[a].at = "go" /\ worker'[a].at = "stop" /\ worker'[a].end = "failed"
          /\ \A b \in Attempts \ {a} : worker'[b] = worker[b]
          /\ WorkerShape'
      BY <1>1, <1>4, <2>2, EndFacts DEF Go, In, WorkerPlaces, Ends
    <3>2. UNCHANGED <<life, guardian, command>>
      BY <1>4, <2>2 DEF Go
    <3> QED BY <1>1, <2>2, <3>1, <3>2 DEF ProcessStep, StagedAt, Unborn, Waiting, WorkerShape, GuardianShape, CommandShape, LifeShape
  <2> QED BY <1>4, <2>1, <2>2 DEF Go
<1>5. CASE Watch(a)
  <2>1. /\ worker[a].at = "loop" /\ worker'[a].at = "stop" /\ worker'[a].end \in {"revoked", "failed", "ok"}
        /\ worker'[a].end = "ok" => command[a] = "ok"
        /\ \A b \in Attempts \ {a} : worker'[b] = worker[b]
        /\ WorkerShape'
    BY <1>1, <1>5, EndFacts DEF Watch, In, WorkerPlaces, Ends
  <2>2. UNCHANGED <<life, guardian, command>>
    BY <1>5 DEF Watch
  <2> QED BY <1>1, <2>1, <2>2 DEF ProcessStep, StagedAt, Unborn, Waiting, WorkerShape, GuardianShape, CommandShape, LifeShape
<1>6. CASE Overdue(a)
  <2>1. /\ worker[a].at = "loop" /\ worker'[a].at = "stop" /\ worker'[a].end = "failed"
        /\ \A b \in Attempts \ {a} : worker'[b] = worker[b]
        /\ WorkerShape'
    BY <1>1, <1>6, EndFacts DEF Overdue, In, WorkerPlaces, Ends
  <2>2. UNCHANGED <<life, guardian, command>>
    BY <1>6 DEF Overdue
  <2> QED BY <1>1, <2>1, <2>2 DEF ProcessStep, StagedAt, Unborn, Waiting, WorkerShape, GuardianShape, CommandShape, LifeShape
<1>7. CASE Heartbeat(a)
  <2>1. /\ worker[a].at = "loop"
        /\ \/ worker' = worker
           \/ worker'[a].at = "stop" /\ worker'[a].end = "beaten"
        /\ \A b \in Attempts \ {a} : worker'[b] = worker[b]
        /\ WorkerShape'
    BY <1>1, <1>7, EndFacts DEF Heartbeat, In, WorkerPlaces, Ends, WorkerShape
  <2>2. UNCHANGED <<life, guardian, command>>
    BY <1>7 DEF Heartbeat
  <2> QED BY <1>1, <2>1, <2>2 DEF ProcessStep, StagedAt, Unborn, Waiting, WorkerShape, GuardianShape, CommandShape, LifeShape
<1> QED BY <1>2, <1>3, <1>4, <1>5, <1>6, <1>7

\* Forgetting the record of a group that does not live leaves the stages alone.
LEMMA Forgotten ==
    ASSUME NEW a \in Attempts, StagedAt(a), ~Live(a)
    PROVE  /\ worker[a].at \notin {"anchor", "register"} => guardian[a] \notin {"blocked", "open"}
           /\ guardian[a] # "open"
BY DEF StagedAt, Live

\* The worker's end, and the kills, exits and delays beside it.
LEMMA LateSteps ==
    ASSUME Shape, NEW a \in Attempts, StagedAt(a)
    PROVE  Stop(a) \/ Final(a) \/ Retire(a) \/ KillWorker(a) \/ CommandEnds(a) \/ Age(a) => ProcessStep(a)
<1>1. /\ WorkerShape /\ GuardianShape /\ CommandShape /\ LifeShape
      /\ \A b \in Attempts : worker[b].at \in WorkerPlaces /\ worker[b].end \in Ends
  BY DEF Shape, WorkerShape
<1>2. CASE Stop(a)
  <2>1. CASE /\ Killed(a) /\ life' = [life EXCEPT ![a] = "completed"]
             /\ Move(a, "retire") \/ Move(a, "final")
    <3>1. /\ worker[a].at = "stop" /\ worker'[a].at \in {"retire", "final"} /\ worker'[a].end = worker[a].end
          /\ \A b \in Attempts \ {a} : worker'[b] = worker[b]
          /\ WorkerShape'
      BY <1>1, <1>2, <2>1, MoveFacts DEF Stop, In, WorkerPlaces
    <3>2. life'[a] = "completed" /\ LifeShape' /\ \A b \in Attempts \ {a} : life'[b] = life[b]
      BY <1>1, <2>1 DEF LifeShape
    <3> QED BY <1>1, <2>1, <3>1, <3>2, KilledFacts DEF ProcessStep, StagedAt, Unborn, Waiting
  <2>2. CASE ~Live(a) /\ Exit(a) /\ UNCHANGED <<life, guardian, command>>
    <3>1. /\ worker[a].at = "stop" /\ worker'[a].at = "off" /\ worker'[a].end = ""
          /\ \A b \in Attempts \ {a} : worker'[b] = worker[b]
          /\ WorkerShape'
      BY <1>1, <1>2, <2>2, ExitFacts DEF Stop, In
    <3> QED BY <1>1, <2>2, <3>1, Forgotten DEF ProcessStep, StagedAt, Unborn, Waiting, WorkerShape, GuardianShape, CommandShape, LifeShape
  <2> QED BY <1>2, <2>1, <2>2 DEF Stop
<1>3. CASE Final(a)
  <2>1. /\ worker[a].at \in {"final", "close"}
        /\ \/ worker'[a].at = "retire" /\ worker'[a].end = worker[a].end /\ worker[a].at = "final"
           \/ worker'[a].at = "off" /\ worker'[a].end = ""
        /\ \A b \in Attempts \ {a} : worker'[b] = worker[b]
        /\ WorkerShape'
    BY <1>1, <1>3, MoveFacts, ExitFacts DEF Final, In, WorkerPlaces
  <2>2. UNCHANGED <<life, guardian, command>>
    BY <1>3 DEF Final
  <2> QED BY <1>1, <2>1, <2>2 DEF ProcessStep, StagedAt, Unborn, Waiting, WorkerShape, GuardianShape, CommandShape, LifeShape
<1>4. CASE Retire(a)
  <2>1. /\ worker[a].at = "retire" /\ worker'[a].at = "off" /\ worker'[a].end = ""
        /\ \A b \in Attempts \ {a} : worker'[b] = worker[b]
        /\ WorkerShape'
    BY <1>1, <1>4, ExitFacts DEF Retire, In
  <2>2. UNCHANGED <<guardian, command>>
    BY <1>4 DEF Retire
  <2>3. /\ life'[a] = life[a] \/ (life'[a] = "none" /\ ~Live(a)) 
        /\ LifeShape' /\ \A b \in Attempts \ {a} : life'[b] = life[b]
    BY <1>1, <1>4 DEF Retire, LifeShape
  <2> QED BY <1>1, <2>1, <2>2, <2>3, Forgotten DEF ProcessStep, StagedAt, Unborn, Waiting, GuardianShape, CommandShape
<1>5. CASE KillWorker(a)
  <2>1. /\ worker[a].at \notin {"new", "off"} /\ worker'[a].at = "off" /\ worker'[a].end = ""
        /\ \A b \in Attempts \ {a} : worker'[b] = worker[b]
        /\ WorkerShape'
    BY <1>1, <1>5, ExitFacts DEF KillWorker
  <2>2. life' = life
    BY <1>5 DEF KillWorker
  <2>3. CASE guardian[a] = "blocked" /\ Killed(a)
    BY <1>1, <2>1, <2>2, <2>3, KilledFacts DEF ProcessStep, StagedAt, Unborn, Waiting, LifeShape
  <2>4. CASE guardian[a] # "blocked" /\ UNCHANGED <<guardian, command>>
    BY <1>1, <2>1, <2>2, <2>4 DEF ProcessStep, StagedAt, Unborn, Waiting, GuardianShape, CommandShape, LifeShape
  <2> QED BY <1>5, <2>3, <2>4 DEF KillWorker
<1>6. CASE CommandEnds(a)
  <2>1. UNCHANGED <<life, worker, guardian>>
    BY <1>6 DEF CommandEnds
  <2>2. /\ command[a] = "running" /\ command'[a] \in {"ok", "failed"} /\ CommandShape'
        /\ \A b \in Attempts \ {a} : command'[b] = command[b]
    BY <1>1, <1>6 DEF CommandEnds, CommandShape, Commands
  <2> QED BY <1>1, <2>1, <2>2 DEF ProcessStep, StagedAt, Unborn, Waiting, WorkerShape, GuardianShape, LifeShape
<1>7. CASE Age(a)
  <2>1. UNCHANGED <<life, worker, guardian, command>>
    BY <1>7 DEF Age, procVars
  <2> QED BY <1>1, <2>1 DEF ProcessStep, StagedAt, Unborn, Waiting, WorkerShape, GuardianShape, CommandShape, LifeShape
<1> QED BY <1>2, <1>3, <1>4, <1>5, <1>6, <1>7

\* Every step beside the passes is one of the attempt's, on its result and its processes.
LEMMA SideSteps ==
    ASSUME Shape, Staged, Filed, NEW a \in Attempts, WorkerSide(a)
    PROVE  ResultStep(a) /\ ProcessStep(a) /\ UNCHANGED <<tracker, registry, pass>>
<1>1. StagedAt(a)
  BY DEF Staged
<1>2. ProcessStep(a)
  BY <1>1, EarlySteps, MiddleSteps, LateSteps DEF WorkerSide, WorkerStep
<1>3. UNCHANGED <<tracker, registry, pass>>
  BY DEF WorkerSide, WorkerStep, Begin, Admit, Anchor, Register, Recheck, May, Go, Watch, Overdue,
         Stop, Final, Retire, Heartbeat, KillWorker, CommandEnds, Age, supervisor
<1>4. CASE Begin(a) \/ Anchor(a) \/ May(a) \/ Final(a)
  BY <1>2, <1>3, <1>4, ResultWriters
<1>5. CASE ~(Begin(a) \/ Anchor(a) \/ May(a) \/ Final(a))
  <2>1. job' = job \/ (\E aged \in BOOLEAN : job' = [job EXCEPT ![a].aged = aged])
    <3>1. Admit(a) \/ Recheck(a) \/ Go(a) \/ Watch(a) \/ Overdue(a) \/ Retire(a)
            \/ KillWorker(a) \/ CommandEnds(a) => job' = job
      BY DEF Admit, Recheck, Go, Watch, Overdue, Retire, KillWorker, CommandEnds, supervisor
    <3>2. Heartbeat(a) \/ Stop(a) => job' = job \/ job' = [job EXCEPT ![a].aged = FALSE]
      BY DEF Heartbeat, Stop
    <3>5. Register(a) => \/ job' = job
                         \/ \E aged \in BOOLEAN : job' = [job EXCEPT ![a].aged = aged]
      <4> job[a].aged \in BOOLEAN
        BY DEF Shape, JobShape, Directories
      <4> QED BY DEF Register
    <3>3. Age(a) => job' = [job EXCEPT ![a].aged = TRUE]
      BY DEF Age
    <3>4. \/ Admit(a) \/ Register(a) \/ Recheck(a) \/ Go(a) \/ Watch(a) \/ Overdue(a) \/ Retire(a)
          \/ KillWorker(a) \/ CommandEnds(a) \/ Heartbeat(a) \/ Stop(a) \/ Age(a)
      BY <1>5 DEF WorkerSide, WorkerStep
    <3> QED BY <3>1, <3>2, <3>3, <3>4, <3>5
  <2>2. worker'[a].at = "go" => worker[a].at = "go"
    <3>1. UNCHANGED worker => worker'[a].at = worker[a].at
      OBVIOUS
    <3>2. WorkerShape
      BY DEF Shape
    <3>3. Admit(a) => worker'[a].at # "go"
      BY <3>2, MoveFacts, EndFacts DEF Admit, WorkerPlaces, Ends
    <3>4. Register(a) => worker'[a].at # "go"
      BY <3>2, MoveFacts, EndFacts, ExitFacts DEF Register, WorkerPlaces, Ends
    <3>5. Recheck(a) => worker'[a].at # "go"
      BY <3>2, MoveFacts, EndFacts DEF Recheck, WorkerPlaces, Ends
    <3>6. Go(a) => worker'[a].at # "go"
      BY <3>2, MoveFacts, EndFacts DEF Go, WorkerPlaces, Ends
    <3>7. Watch(a) \/ Overdue(a) => worker'[a].at # "go"
      BY <3>2, EndFacts DEF Watch, Overdue, WorkerPlaces, Ends
    <3>8. Stop(a) => worker'[a].at # "go"
      BY <3>2, MoveFacts, ExitFacts DEF Stop, WorkerPlaces, Ends
    <3>9. Retire(a) \/ KillWorker(a) => worker'[a].at # "go"
      BY <3>2, ExitFacts DEF Retire, KillWorker
    <3>10. Heartbeat(a) => UNCHANGED worker \/ worker'[a].at # "go"
      BY <3>2, EndFacts DEF Heartbeat, WorkerPlaces, Ends
    <3>11. CommandEnds(a) \/ Age(a) => UNCHANGED worker
      BY DEF CommandEnds, Age, procVars
    <3> QED BY <1>5, <3>1, <3>3, <3>4, <3>5, <3>6, <3>7, <3>8, <3>9, <3>10, <3>11 DEF WorkerSide, WorkerStep
  <2> QED BY <1>2, <1>3, <2>1, <2>2, ResultKept
<1> QED BY <1>4, <1>5

------------------------------------------------------------------------------
(* What keeps the books and what the pass believes. *)

\* The attempts from 1: an entry that names a job names one of them.
LEMMA Named ==
    ASSUME JobAssumption, NEW entry \in Entries
    PROVE  /\ entry.job # 0 => entry.job \in Attempts
           /\ entry.last # 0 => entry.last \in Attempts
           /\ entry.job \in Nat /\ entry.attempt \in Nat /\ entry.last \in Nat
BY DEF Entries, Attempts, JobAssumption

\* Results that are recorded and ended stay so, cancellations and ended commands too.
Settled ==
    \A b \in Attempts : /\ job'[b].cancel = job[b].cancel
                        /\ Recorded(b) => Recorded(b)'
                        /\ ~Recorded(b) => ~Recorded(b)'
                        /\ Terminal(job[b].file) => job'[b].file = job[b].file
                        /\ command[b] = "ok" => command'[b] = "ok"

\* Then an entry that was sound stays so, whichever record of it is kept.
LEMMA EntryKept ==
    ASSUME JobAssumption, Settled, NEW entry \in Entries, Books(entry), Done(entry)
    PROVE  Books(entry)' /\ Done(entry)'
<1>1. /\ entry.job # 0 => entry.job \in Attempts
      /\ entry.last # 0 => entry.last \in Attempts
  BY Named
<1>2. Done(entry)'
  BY <1>1 DEF Done, Settled
<1>3. \A b \in Attempts : Recorded(b)' <=> Recorded(b)
  BY DEF Settled
<1>4. \A b \in Attempts : Terminal(job[b].file) => Terminal(job'[b].file)
  BY DEF Settled
<1>5. Discovered(entry)' = Discovered(entry)
  BY <1>3 DEF Discovered
<1> QED BY <1>1, <1>2, <1>3, <1>4, <1>5 DEF Books

\* The books after a step that leaves the registry and the pass alone.
LEMMA BookedKept ==
    ASSUME JobAssumption, Shape, Booked, Settled, UNCHANGED <<registry, pass>>
    PROVE  Booked'
<1>1. registry \in Entries /\ pass.entry \in Entries
  BY DEF Shape, RegistryShape, PassShape
<1>2. Books(registry)' /\ Done(registry)'
  <2>1. \A entry \in Entries : entry = registry => Books(entry)' /\ Done(entry)'
    BY EntryKept DEF Booked
  <2>2. \A entry \in Entries : entry = registry' => (Books(entry)' => Books(registry)')
    BY DEF Books, Discovered
  <2>3. \A entry \in Entries : entry = registry' => (Done(entry)' => Done(registry)')
    BY DEF Done
  <2> QED BY <1>1, <2>1, <2>2, <2>3
<1>3. ~At("idle") => Books(Entry)' /\ Done(Entry)'
  <2> SUFFICES ASSUME ~At("idle") PROVE Books(Entry)' /\ Done(Entry)'
    OBVIOUS
  <2>1. \A entry \in Entries : entry = pass.entry => Books(entry)' /\ Done(entry)'
    BY EntryKept DEF Booked, Entry
  <2>2. \A entry \in Entries : entry = pass'.entry => (Books(entry)' => Books(Entry)')
    BY DEF Books, Discovered, Entry
  <2>3. \A entry \in Entries : entry = pass'.entry => (Done(entry)' => Done(Entry)')
    BY DEF Done, Entry
  <2> QED BY <1>1, <2>1, <2>2, <2>3
<1> QED BY <1>2, <1>3 DEF Booked, At, Entry

\* What the pass believes, after such a step of the attempt a.
LEMMA JudgedKept ==
    ASSUME JobAssumption, Shape, Staged, Filed, Booked, Judged, NEW a \in Attempts,
           ResultStep(a), ProcessStep(a), Settled, UNCHANGED <<registry, pass>>
    PROVE  Judged'
<1>1. pass.entry \in Entries /\ (Job # 0 => Job \in Attempts)
  BY Named DEF Shape, PassShape, Job
<1>2. Job' = Job /\ Snap' = Snap /\ Entry' = Entry /\ pass' = pass
  BY DEF Job, Snap, Entry
<1>3. Faithful /\ (Terminal(Snap) => Job # 0) => Faithful'
  BY <1>1, <1>2 DEF Faithful, Settled, Terminal
<1>4. ASSUME At("recover")
      PROVE  Harmless(Job)'
  <2>1. Job \in Attempts /\ Harmless(Job)
    BY <1>1, <1>4 DEF Judged, At, Reading
  <2>2. ASSUME NEW b \in Attempts, Harmless(b)
        PROVE  Harmless(b)'
    <3>1. CASE b # a
      BY <2>2, <3>1 DEF ProcessStep, Harmless, Settled
    <3>2. CASE b = a
      BY <2>2, <3>2 DEF ProcessStep, Harmless, Settled
    <3> QED BY <3>1, <3>2
  <2>3. \A b \in Attempts : b = Job /\ Harmless(b)' => Harmless(Job)'
    BY <1>2 DEF Harmless
  <2> QED BY <2>1, <2>2, <2>3
<1>5. Discovered(Entry)' = Discovered(Entry)
  BY <1>2 DEF Discovered, Settled
<1>6. At("spawn") => worker'[Job].at = "new" /\ job'[Job].file.result = "launching"
  <2> SUFFICES ASSUME At("spawn") PROVE worker'[Job].at = "new" /\ job'[Job].file.result = "launching"
    OBVIOUS
  <2>1. Job \in Attempts /\ worker[Job].at = "new" /\ job[Job].file.result = "launching"
    BY <1>1 DEF Judged, At
  <2> QED BY <2>1 DEF ProcessStep, ResultStep
<1>7. pass.at \in {"inspect", "term", "grace"} /\ ~Terminal(Snap) => job'[Job].cancel
  BY <1>1 DEF Judged, Settled, Reading
<1> QED BY <1>2, <1>3, <1>4, <1>5, <1>6, <1>7 DEF Judged, At, Faithful, Terminal

\* The invariant, over every step beside the passes.
LEMMA SideKept ==
    ASSUME JobAssumption, IInv, NEW a \in Attempts, WorkerSide(a)
    PROVE  IInv'
<1>1. Shape /\ Staged /\ Filed /\ Booked /\ Judged
  BY DEF IInv
<1>2. ResultStep(a) /\ ProcessStep(a) /\ UNCHANGED <<tracker, registry, pass>>
  BY <1>1, SideSteps
<1>3. Shape'
  BY <1>1, <1>2 DEF Shape, ResultStep, ProcessStep, RegistryShape, TrackerShape, PassShape
<1>4. Staged'
  <2>1. StagedAt(a)'
    BY <1>2 DEF ProcessStep
  <2>2. ASSUME NEW b \in Attempts, b # a
        PROVE  StagedAt(b)'
    BY <1>1, <1>2, <2>2 DEF Staged, StagedAt, ProcessStep
  <2> QED BY <2>1, <2>2 DEF Staged
<1>5. Settled
  <2>1. \A b \in Attempts \ {a} : job'[b].file = job[b].file
    BY <1>2 DEF ResultStep
  <2> QED BY <1>2, <2>1 DEF Settled, ResultStep, ProcessStep, Recorded
<1>6. Filed'
  <2>1. ASSUME NEW b \in Attempts, b # a
        PROVE  FiledAt(b)'
    BY <1>1, <1>2, <2>1 DEF Filed, FiledAt, ResultStep, ProcessStep, Recorded, Terminal
  <2>2. FiledAt(a)'
    <3>1. StagedAt(a) /\ FiledAt(a)
      BY <1>1 DEF Staged, Filed
    <3>2. ~Recorded(a)' => worker'[a].at = "new"
      BY <1>2, <3>1 DEF FiledAt, ResultStep, ProcessStep, Recorded
    <3>3. job'[a].file.ok => Terminal(job'[a].file) /\ command'[a] = "ok"
      BY <1>2, <3>1 DEF FiledAt, StagedAt, ResultStep, ProcessStep, Terminal
    <3>4. command'[a] = "running" \/ (worker'[a].at = "go" /\ guardian'[a] = "blocked") =>
            ~Terminal(job'[a].file) /\ job'[a].file.started
      <4>1. CASE command[a] = "running" \/ (worker[a].at = "go" /\ guardian[a] = "blocked")
        BY <1>2, <3>1, <4>1 DEF FiledAt, StagedAt, ResultStep
      <4>2. CASE ~(command[a] = "running" \/ (worker[a].at = "go" /\ guardian[a] = "blocked"))
        BY <1>2, <3>1, <4>2 DEF ResultStep, ProcessStep
      <4> QED BY <4>1, <4>2
    <3> QED BY <3>2, <3>3, <3>4 DEF FiledAt
  <2> QED BY <2>1, <2>2 DEF Filed
<1>7. Booked'
  BY <1>1, <1>2, <1>5, BookedKept
<1>8. Judged'
  BY <1>1, <1>2, <1>5, JudgedKept
<1> QED BY <1>3, <1>4, <1>6, <1>7, <1>8 DEF IInv

------------------------------------------------------------------------------
(* The steps of a pass. *)

\* A pass that goes on keeps its entry and what it read.
LEMMA GotoFacts ==
    ASSUME PassShape, NEW at \in PassPlaces, Goto(at)
    PROVE  /\ pass'.at = at /\ pass'.entry = pass.entry /\ pass'.snap = pass.snap
           /\ pass'.held = pass.held
           /\ PassShape'
BY DEF PassShape, Goto

\* One that raises has an entry to save, or is gone.
LEMMA RaiseFacts ==
    ASSUME PassShape, NEW entry \in Entries, Raise(entry), JobAssumption
    PROVE  /\ pass'.at = "idle" \/ (pass'.at = "save" /\ pass'.entry = entry)
           /\ PassShape'
<1>1. Resting \in [at : PassPlaces, entry : Entries, eligible : BOOLEAN,
                   integrated : BOOLEAN, snap : Results, held : BOOLEAN] /\ Resting.at = "idle"
  BY DEF Resting, PassPlaces, NewRun, NoJob, Entries, Results, JobAssumption
<1>2. CASE pass.eligible
  BY <1>2 DEF PassShape, Raise, PassPlaces
<1>3. CASE ~pass.eligible
  BY <1>1, <1>3 DEF PassShape, Raise
<1> QED BY <1>2, <1>3

\* One that rests knows nothing.
LEMMA RestingFacts ==
    ASSUME pass' = Resting, JobAssumption
    PROVE  PassShape' /\ pass'.at = "idle"
BY DEF Resting, PassShape, PassPlaces, NewRun, NoJob, Entries, Results, JobAssumption

\* Where it goes once the generation is stopped.
LEMMA StoppedFacts ==
    ASSUME PassShape, NEW held \in BOOLEAN, Stopped(held)
    PROVE  /\ pass'.at = IF ~Terminal(Snap) THEN "recover" ELSE IF held THEN "forget" ELSE "decide"
           /\ pass'.entry = pass.entry /\ pass'.snap = pass.snap
           /\ PassShape'
BY DEF PassShape, Stopped, PassPlaces

\* Which results are recorded and which have ended.
ResultsKept ==
    \A b \in Attempts : /\ Recorded(b)' <=> Recorded(b)
                        /\ Terminal(job[b].file) => Terminal(job'[b].file)

\* An entry is as sound as before while they stay.
LEMMA BooksKept ==
    ASSUME JobAssumption, ResultsKept, NEW entry \in Entries, Books(entry)
    PROVE  Books(entry)'
<1>1. entry.job # 0 => entry.job \in Attempts
  BY Named
<1>2. Discovered(entry)' = Discovered(entry)
  BY DEF Discovered, ResultsKept
<1> QED BY <1>1, <1>2 DEF Books, ResultsKept

\* The books when the pass goes on with an entry that is sound, or is gone.
LEMMA PassBooks ==
    ASSUME JobAssumption, Shape, Booked, ResultsKept, ~At("idle"), registry' = registry,
           NEW entry \in Entries, Books(entry),
           \/ pass'.at = "idle"
           \/ /\ pass'.entry = entry
              /\ \/ pass'.at = "save" /\ Done(entry)'
                 \/ entry.last = registry.last /\ entry.state # "deployed"
    PROVE  Booked'
<1>1. registry \in Entries /\ registry.state # "deployed" /\ Books(registry)
  BY DEF Shape, RegistryShape, Booked
<1>2. Books(registry)'
  <2>1. \A e \in Entries : e = registry => Books(e)'
    BY <1>1, BooksKept
  <2>2. \A e \in Entries : e = registry' => (Books(e)' => Books(registry)')
    BY DEF Books, Discovered
  <2> QED BY <1>1, <2>1, <2>2
<1>3. Done(registry)'
  BY <1>1 DEF Done
<1>4. Books(entry)'
  BY BooksKept
<1>5. pass'.entry = entry => Books(Entry)'
  BY <1>4 DEF Books, Discovered, Entry
<1>6. pass'.entry = entry /\ Done(entry)' => Done(Entry)'
  BY DEF Done, Entry
<1>7. pass'.entry = entry /\ entry.state # "deployed" => Done(Entry)'
  BY DEF Done, Entry
<1> QED BY <1>1, <1>2, <1>3, <1>5, <1>6, <1>7 DEF Booked, At, Entry

\* A pass that raises leaves sound books, and believes nothing more.
LEMMA Raised ==
    ASSUME JobAssumption, Shape, Booked, ResultsKept, ~At("idle"), registry' = registry,
           NEW entry \in Entries, Books(entry), Done(entry)', Raise(entry)
    PROVE  PassShape' /\ Booked' /\ Judged'
<1>1. PassShape
  BY DEF Shape
<1>2. /\ pass'.at = "idle" \/ (pass'.at = "save" /\ pass'.entry = entry)
      /\ PassShape'
  BY <1>1, RaiseFacts
<1>3. Booked'
  BY <1>2, PassBooks
<1>4. Judged'
  BY <1>2 DEF Judged, At, Reading
<1> QED BY <1>2, <1>3, <1>4

\* The entry of a pass between its start and its end.
LEMMA EntryFacts ==
    ASSUME Shape, Booked, JobAssumption, pass.at \notin {"idle", "save"}
    PROVE  /\ ~At("idle") /\ Entry \in Entries /\ Books(Entry)
           /\ Entry.state # "deployed" /\ Entry.last = registry.last
           /\ Job # 0 => Job \in Attempts /\ Recorded(Job)
           /\ Snap \in Results
<1>1. Entry \in Entries /\ Snap \in Results
  BY DEF Shape, PassShape, Entry, Snap
<1>2. /\ ~At("idle") /\ Books(Entry) /\ Entry.state # "deployed" /\ Entry.last = registry.last
  BY DEF Booked, At
<1>3. Job # 0 => Job \in Attempts /\ Recorded(Job)
  BY <1>1, <1>2, Named DEF Books, Job, Entry
<1> QED BY <1>1, <1>2, <1>3

\* So it may raise, or go on with the same entry.
LEMMA EntryRaised ==
    ASSUME JobAssumption, Shape, Booked, ResultsKept, pass.at \notin {"idle", "save"},
           registry' = registry, Raise(Entry)
    PROVE  PassShape' /\ Booked' /\ Judged'
<1>1. /\ ~At("idle") /\ Entry \in Entries /\ Books(Entry) /\ Entry.state # "deployed"
  BY EntryFacts
<1>2. \A e \in Entries : e.state # "deployed" => Done(e)'
  BY DEF Done
<1>3. \A e \in Entries : Books(e) /\ Done(e)' /\ Raise(e) => PassShape' /\ Booked' /\ Judged'
  BY <1>1, Raised
<1>4. \A e \in Entries : e = Entry => Books(e) /\ Raise(e) /\ e.state # "deployed"
  BY <1>1
<1> QED BY <1>1, <1>2, <1>3, <1>4

\* The books of a pass that keeps its entry, or is gone.
LEMMA EntryStays ==
    ASSUME JobAssumption, Shape, Booked, ResultsKept, pass.at \notin {"idle", "save"},
           registry' = registry, pass'.entry = pass.entry \/ pass'.at = "idle"
    PROVE  Booked'
<1>1. /\ ~At("idle") /\ Entry \in Entries /\ Books(Entry) /\ Entry.state # "deployed"
      /\ Entry.last = registry.last
  BY EntryFacts
<1>2. \A e \in Entries :
        (/\ Books(e) /\ e.last = registry.last /\ e.state # "deployed"
         /\ pass'.at = "idle" \/ pass'.entry = e) => Booked'
  BY <1>1, PassBooks
<1> QED BY <1>1, <1>2 DEF Entry

\* The processes, and what they mean, while a step leaves them and the results alone.
LEMMA ProcessesKept ==
    ASSUME Shape, Staged, Filed, UNCHANGED <<life, worker, guardian, command, tracker, registry>>,
           JobShape', \A b \in Attempts : job'[b].file = job[b].file
    PROVE  /\ Staged' /\ Filed' /\ ResultsKept
           /\ PassShape' => Shape'
<1>1. ResultsKept
  BY DEF ResultsKept, Recorded, Terminal
<1>2. Staged'
  BY DEF Staged, StagedAt
<1>3. Filed'
  BY DEF Filed, FiledAt, Recorded, Terminal
<1>4. PassShape' => Shape'
  BY DEF Shape, LifeShape, WorkerShape, GuardianShape, CommandShape, RegistryShape, TrackerShape
<1> QED BY <1>1, <1>2, <1>3, <1>4

\* A pass that only reads, or is gone.
LEMMA Quiet ==
    ASSUME IInv, UNCHANGED <<tracker, registry, job, life, procVars>>
    PROVE  /\ Staged' /\ Filed' /\ ResultsKept
           /\ PassShape' /\ Booked' /\ Judged' => IInv'
<1>1. UNCHANGED <<life, worker, guardian, command, tracker, registry>> /\ job' = job
  BY DEF procVars
<1>2. Shape /\ Staged /\ Filed /\ JobShape'
  BY <1>1 DEF IInv, Shape, JobShape
<1>3. \A b \in Attempts : job'[b].file = job[b].file
  BY <1>1
<1>4. Staged' /\ Filed' /\ ResultsKept /\ (PassShape' => Shape')
  BY <1>1, <1>2, <1>3, ProcessesKept
<1> QED BY <1>4 DEF IInv

\* A pass that begins copies the saved entry.
LEMMA ScanKept ==
    ASSUME JobAssumption, IInv, Scan
    PROVE  IInv'
<1>1. /\ At("idle") /\ registry.state # "deployed"
      /\ UNCHANGED <<tracker, registry, job, life, procVars>>
  BY DEF Scan
<1>2. Shape /\ Booked /\ Resting \in [at : PassPlaces, entry : Entries, eligible : BOOLEAN,
                   integrated : BOOLEAN, snap : Results, held : BOOLEAN]
  BY DEF IInv, Resting, PassPlaces, NewRun, NoJob, Entries, Results, JobAssumption
<1>3. registry \in Entries /\ tracker.eligible \in BOOLEAN
  BY <1>2 DEF Shape, RegistryShape, TrackerShape
<1>4. pass' = [Resting EXCEPT !.entry = registry, !.eligible = tracker.eligible,
                              !.at = IF tracker.eligible THEN "dispatch" ELSE "attach"]
  BY DEF Scan
<1>5. PassShape' /\ pass'.at \in {"dispatch", "attach"} /\ pass'.entry = registry
  BY <1>2, <1>3, <1>4 DEF PassShape, PassPlaces
<1>6. UNCHANGED <<job, command, registry>>
  BY <1>1 DEF procVars
<1>7. Booked'
  <2>1. Books(registry)' /\ Books(Entry)'
    BY <1>2, <1>5, <1>6 DEF Booked, Books, Discovered, Recorded, Entry
  <2>2. Done(registry)' /\ Done(Entry)'
    BY <1>1, <1>5, <1>6 DEF Done, Entry
  <2> QED BY <1>1, <1>5, <1>6, <2>1, <2>2 DEF Booked, At, Entry
<1>8. Judged'
  BY <1>5 DEF Judged, At, Reading
<1> QED BY <1>1, <1>5, <1>7, <1>8, Quiet

\* A pass that is killed takes its copy of the entry with it.
LEMMA GoneKept ==
    ASSUME JobAssumption, IInv, KillPass
    PROVE  IInv'
<1>1. /\ ~At("idle") /\ pass' = Resting
      /\ UNCHANGED <<tracker, registry, job, life, procVars>>
  BY DEF KillPass
<1>2. PassShape' /\ pass'.at = "idle"
  BY <1>1, RestingFacts
<1>3. Shape /\ Booked
  BY DEF IInv
<1>4. ResultsKept
  BY <1>1, Quiet
<1>5. Booked'
  <2>1. UNCHANGED <<job, command, registry>>
    BY <1>1 DEF procVars
  <2>2. Books(registry)' /\ Done(registry)'
    BY <1>3, <2>1 DEF Booked, Books, Done, Discovered, Recorded
  <2> QED BY <1>2, <1>3, <2>2 DEF Booked, At
<1>6. Judged'
  BY <1>2 DEF Judged, At, Reading
<1> QED BY <1>1, <1>2, <1>5, <1>6, Quiet

\* The tracker's own changes.
LEMMA TrackerKept ==
    ASSUME JobAssumption, IInv, Tracker
    PROVE  IInv'
<1>1. UNCHANGED <<registry, pass, job, life, worker, guardian, command>>
  BY DEF Tracker, procVars
<1>2. TrackerShape'
  <2>1. TrackerShape
    BY DEF IInv, Shape
  <2>2. PICK what \in {"eligible", "integrated"} : tracker' = [tracker EXCEPT ![what] = ~@]
    BY DEF Tracker
  <2> QED BY <2>1, <2>2 DEF TrackerShape
<1>3. Shape'
  BY <1>1, <1>2 DEF IInv, Shape, JobShape, LifeShape, WorkerShape, GuardianShape, CommandShape,
                    RegistryShape, PassShape
<1>4. Staged' /\ Filed'
  BY <1>1 DEF IInv, Staged, StagedAt, Filed, FiledAt, Recorded
<1>5. Booked'
  <2>1. (Books(registry) => Books(registry)') /\ (Done(registry) => Done(registry)')
    BY <1>1 DEF Books, Done, Discovered, Recorded
  <2>2. (Books(Entry) => Books(Entry)') /\ (Done(Entry) => Done(Entry)')
    BY <1>1 DEF Books, Done, Discovered, Recorded, Entry
  <2> QED BY <1>1, <2>1, <2>2 DEF IInv, Booked, At, Entry
<1>6. Judged'
  <2>1. Discovered(Entry)' = Discovered(Entry)
    BY <1>1 DEF Discovered, Recorded, Entry
  <2>2. (Faithful => Faithful') /\ (Harmless(Job) => Harmless(Job)')
    BY <1>1 DEF Faithful, Harmless, Job, Snap
  <2> QED BY <1>1, <2>1, <2>2 DEF IInv, Judged, At, Job, Snap, Entry
<1> QED BY <1>3, <1>4, <1>5, <1>6 DEF IInv

\* The registry is replaced by the entry of the pass, which is as sound.
LEMMA SaveKept ==
    ASSUME JobAssumption, IInv, Save
    PROVE  IInv'
<1>1. /\ At("save") /\ registry' = Entry /\ pass' = Resting
      /\ UNCHANGED <<tracker, job, life, worker, guardian, command>>
  BY DEF Save, procVars
<1>2. PassShape' /\ pass'.at = "idle"
  BY <1>1, RestingFacts
<1>3. Entry \in Entries /\ Books(Entry) /\ Done(Entry)
  BY <1>1 DEF IInv, Shape, PassShape, Booked, At, Entry
<1>4. Shape'
  BY <1>1, <1>2, <1>3 DEF IInv, Shape, JobShape, LifeShape, WorkerShape, GuardianShape, CommandShape,
                    RegistryShape, TrackerShape
<1>5. Staged' /\ Filed'
  BY <1>1 DEF IInv, Staged, StagedAt, Filed, FiledAt, Recorded
<1>6. Booked'
  <2>1. Books(registry)' /\ Done(registry)'
    BY <1>1, <1>3 DEF Books, Done, Discovered, Recorded, Entry
  <2> QED BY <1>2, <2>1 DEF Booked, At
<1>7. Judged'
  BY <1>2 DEF Judged, At, Reading
<1> QED BY <1>4, <1>5, <1>6, <1>7 DEF IInv

\* The task states are read.
LEMMA DispatchKept ==
    ASSUME JobAssumption, IInv, Dispatch
    PROVE  IInv'
<1>1. /\ At("dispatch")
      /\ pass' = [pass EXCEPT !.integrated = tracker.integrated, !.at = "attach"]
      /\ UNCHANGED <<tracker, registry, job, life, procVars>>
  BY DEF Dispatch
<1>2. Shape /\ Booked /\ ResultsKept
  BY <1>1, Quiet DEF IInv
<1>3. tracker.integrated \in BOOLEAN
  BY <1>2 DEF Shape, TrackerShape
<1>4. PassShape' /\ pass'.at = "attach" /\ pass'.entry = pass.entry
  BY <1>1, <1>2, <1>3 DEF Shape, PassShape, PassPlaces
<1>5. Booked'
  BY <1>1, <1>2, <1>4, EntryStays DEF At
<1>6. Judged'
  BY <1>4 DEF Judged, At, Reading
<1> QED BY <1>1, <1>4, <1>5, <1>6, Quiet

\* The entry that names the job that was found.
Naming(a) == [Entry EXCEPT !.job = a, !.attempt = IF a > Entry.attempt THEN a ELSE Entry.attempt]

\* It is sound: a found job is the one named, or the one attempt that no entry knows.
LEMMA FoundIsSound ==
    ASSUME JobAssumption, Shape, Booked, pass.at \notin {"idle", "save"},
           NEW a \in Attempts, Existing(Entry) = {a}
    PROVE  /\ Naming(a) \in Entries /\ Books(Naming(a))
           /\ Naming(a).last = registry.last /\ Naming(a).state # "deployed"
           /\ Naming(a).job = a /\ Recorded(a)
<1>1. /\ Entry \in Entries /\ Books(Entry) /\ Entry.state # "deployed" /\ Entry.last = registry.last
      /\ Job # 0 => Job \in Attempts /\ Recorded(Job)
  BY EntryFacts
<1>2. /\ Entry.job \in Nat /\ Entry.attempt \in Nat /\ Entry.last \in Nat /\ a \in Nat /\ a # 0
      /\ a \in 0 .. MaxAttempt
  BY <1>1, Named DEF Attempts, JobAssumption
<1>3. CASE Entry.job # 0
  <2>1. a = Entry.job /\ a = Entry.attempt /\ Entry.last < a /\ Recorded(a)
    BY <1>1, <1>3 DEF Existing, Books, Job, Entry
  <2>2. Naming(a) = Entry
    BY <1>1, <1>2, <2>1 DEF Naming, Entries
  <2> QED BY <1>1, <2>1, <2>2
<1>4. CASE Entry.job = 0
  <2>1. a \in Discovered(Entry) /\ Entry.attempt = Entry.last
    BY <1>1, <1>4 DEF Existing, Books
  <2>2. Recorded(a) /\ a > Entry.last
    BY <2>1 DEF Discovered
  <2>3. /\ Naming(a).job = a /\ Naming(a).attempt = a /\ Naming(a).last = Entry.last
        /\ Naming(a).state = Entry.state /\ Naming(a) \in Entries
    BY <1>1, <1>2, <2>1, <2>2 DEF Naming, Entries
  <2>4. Books(Naming(a))
    BY <1>1, <1>2, <2>1, <2>2, <2>3 DEF Books, Discovered
  <2> QED BY <1>1, <2>2, <2>3, <2>4
<1> QED BY <1>3, <1>4

\* A result as it is read: a cancellation revokes what was completed.
LEMMA ReadFacts ==
    ASSUME JobShape, NEW a \in Attempts, NEW snap, snap = Read(a)
    PROVE  /\ snap \in Results
           /\ snap.result = job[a].file.result /\ snap.ok = job[a].file.ok
           /\ snap.started = job[a].file.started
           /\ snap.result = "completed" /\ ~snap.revoked => ~job[a].cancel
<1>1. job[a].file \in Results /\ job[a].cancel \in BOOLEAN
  BY DEF JobShape, Directories
<1>2. /\ snap.result = job[a].file.result /\ snap.ok = job[a].file.ok
      /\ snap.started = job[a].file.started /\ snap.pid = job[a].file.pid
      /\ snap.revoked = (job[a].file.revoked \/ (job[a].file.result = "completed" /\ job[a].cancel))
  BY <1>1 DEF Read, Results
<1>3. snap \in Results
  BY <1>1 DEF Read, Results
<1> QED BY <1>1, <1>2, <1>3

\* The job of the entry, or the one that no entry knows, is read.
LEMMA AttachKept ==
    ASSUME JobAssumption, IInv, Attach
    PROVE  IInv'
<1>1. At("attach") /\ UNCHANGED <<tracker, registry, job, life, procVars>>
  BY DEF Attach
<1>2. Shape /\ Booked /\ Filed /\ ResultsKept /\ PassShape /\ pass.at = "attach" /\ JobShape
  BY <1>1, Quiet DEF IInv, Shape, At
<1>3. CASE Raise(Entry)
  BY <1>1, <1>2, <1>3, EntryRaised, Quiet
<1>4. CASE Existing(Entry) = {} /\ pass' = [pass EXCEPT !.at = "decide", !.snap = NoJob]
  <2>1. NoJob \in Results /\ NoJob.result = "none" /\ ~NoJob.ok
    BY DEF NoJob, Results
  <2>2. /\ PassShape' /\ pass'.at = "decide" /\ pass'.entry = pass.entry
        /\ pass'.snap.result = "none" /\ ~pass'.snap.ok
    BY <1>2, <1>4, <2>1 DEF PassShape, PassPlaces
  <2>3. Job = 0
    BY <1>4 DEF Existing, Job, Entry
  <2>4. Booked'
    BY <1>1, <1>2, <2>2, EntryStays
  <2>5. Judged'
    BY <2>2, <2>3 DEF Judged, At, Reading, Faithful, Terminal, Snap, Job
  <2> QED BY <1>1, <2>2, <2>4, <2>5, Quiet
<1>5. ASSUME NEW a \in Attempts, Existing(Entry) = {a},
             pass' = [pass EXCEPT
               !.entry = [Entry EXCEPT !.job = a,
                            !.attempt = IF a > Entry.attempt THEN a ELSE Entry.attempt],
               !.snap = Read(a),
               !.at = IF Terminal(job[a].file) THEN "inspect"
                         ELSE IF job[a].aged THEN "cancel" ELSE "decide"]
      PROVE  IInv'
  <2>1. /\ Naming(a) \in Entries /\ Books(Naming(a))
        /\ Naming(a).last = registry.last /\ Naming(a).state # "deployed"
        /\ Naming(a).job = a /\ Recorded(a)
    BY <1>2, <1>5, FoundIsSound
  <2>2. pass'.entry = Naming(a) /\ pass'.snap = Read(a)
    <3>1. pass'.entry = [Entry EXCEPT !.job = a,
                            !.attempt = IF a > Entry.attempt THEN a ELSE Entry.attempt]
      BY <1>2, <1>5 DEF PassShape
    <3>2. pass'.snap = Read(a)
      BY <1>2, <1>5 DEF PassShape
    <3> QED BY <3>1, <3>2 DEF Naming
  <2>3. pass'.at = IF Terminal(job[a].file) THEN "inspect"
                   ELSE IF job[a].aged THEN "cancel" ELSE "decide"
    BY <1>2, <1>5 DEF PassShape
  <2>4. /\ pass'.snap \in Results
        /\ pass'.snap.result = job[a].file.result /\ pass'.snap.ok = job[a].file.ok
        /\ pass'.snap.result = "completed" /\ ~pass'.snap.revoked => ~job[a].cancel
    BY <1>2, <2>2, ReadFacts
  <2>5. PassShape'
    <3>1. pass' = [pass EXCEPT !.entry = Naming(a), !.snap = pass'.snap, !.at = pass'.at]
      BY <1>2, <1>5, <2>2 DEF PassShape, Naming, Entry
    <3> QED BY <1>2, <2>1, <2>3, <2>4, <3>1 DEF PassShape, PassPlaces
  <2>6. ~At("idle")
    BY <1>1 DEF At
  <2>7. Booked'
    BY <1>1, <1>2, <2>1, <2>2, <2>6, PassBooks
  <2>8. Job' = a /\ Snap' = pass'.snap /\ job' = job /\ a # 0
    BY <1>1, <2>1, <2>2 DEF Job, Snap, Attempts
  <2>9. job[a].file.ok => Terminal(job[a].file)
    BY <1>2 DEF Filed, FiledAt
  <2>10. Faithful'
    BY <2>4, <2>8, <2>9 DEF Faithful, Terminal
  <2>11. Judged'
    BY <2>1, <2>3, <2>4, <2>8, <2>10 DEF Judged, At, Reading, Terminal, Recorded
  <2> QED BY <1>1, <2>5, <2>7, <2>11, Quiet
<1>6. Existing(Entry) \subseteq Attempts
  BY <1>2, EntryFacts DEF Existing, Discovered, Job, Entry
<1>7. \/ Raise(Entry)
      \/ Existing(Entry) = {} /\ pass' = [pass EXCEPT !.at = "decide", !.snap = NoJob]
      \/ \E a \in Existing(Entry) :
           /\ Existing(Entry) = {a}
           /\ pass' = [pass EXCEPT
               !.entry = [Entry EXCEPT !.job = a,
                            !.attempt = IF a > Entry.attempt THEN a ELSE Entry.attempt],
               !.snap = Read(a),
               !.at = IF Terminal(job[a].file) THEN "inspect"
                         ELSE IF job[a].aged THEN "cancel" ELSE "decide"]
  BY DEF Attach
<1> QED BY <1>3, <1>4, <1>5, <1>6, <1>7

\* The result after the wait.
LEMMA AwaitKept ==
    ASSUME JobAssumption, IInv, Await
    PROVE  IInv'
<1>1. At("await") /\ UNCHANGED <<tracker, registry, job, life, procVars>>
  BY DEF Await
<1>2. Shape /\ Booked /\ Filed /\ Judged /\ ResultsKept /\ PassShape /\ pass.at = "await" /\ JobShape
  BY <1>1, Quiet DEF IInv, Shape, At
<1>3. CASE Raise(Entry)
  BY <1>1, <1>2, <1>3, EntryRaised, Quiet
<1>4. CASE pass' = [pass EXCEPT !.snap = Read(Job), !.at = "decide"]
  <2>1. Job # 0 /\ Job \in Attempts /\ Recorded(Job)
    BY <1>2, EntryFacts DEF Judged
  <2>2. pass'.snap = Read(Job) /\ pass'.entry = pass.entry /\ pass'.at = "decide"
    BY <1>2, <1>4 DEF PassShape
  <2>3. /\ pass'.snap \in Results
        /\ pass'.snap.result = job[Job].file.result /\ pass'.snap.ok = job[Job].file.ok
        /\ pass'.snap.result = "completed" /\ ~pass'.snap.revoked => ~job[Job].cancel
    BY <1>2, <2>1, <2>2, ReadFacts
  <2>4. PassShape'
    <3>1. pass' = [pass EXCEPT !.snap = pass'.snap, !.at = "decide"]
      BY <1>2, <1>4, <2>2 DEF PassShape
    <3> QED BY <1>2, <2>3, <3>1 DEF PassShape, PassPlaces
  <2>5. Booked'
    BY <1>1, <1>2, <2>2, EntryStays
  <2>6. Job' = Job /\ Snap' = pass'.snap /\ job' = job
    BY <1>1, <2>2 DEF Job, Snap
  <2>7. job[Job].file.ok => Terminal(job[Job].file)
    BY <1>2, <2>1 DEF Filed, FiledAt
  <2>8. Faithful'
    BY <2>1, <2>3, <2>6, <2>7 DEF Faithful, Terminal
  <2>9. Judged'
    BY <2>1, <2>2, <2>3, <2>6, <2>8 DEF Judged, At, Reading, Terminal, Recorded
  <2> QED BY <1>1, <2>4, <2>5, <2>9, Quiet
<1> QED BY <1>3, <1>4 DEF Await

------------------------------------------------------------------------------
(* Stopping a generation. *)

\* What a record, or its absence, says of the group.
LEMMA RecordSays ==
    ASSUME NEW a \in Attempts, StagedAt(a), LifeShape, GuardianShape, WorkerShape
    PROVE  /\ life[a] # "none" /\ ~Live(a) => guardian[a] = "gone"
           /\ life[a] = "none" => \/ guardian[a] = "gone"
                                  \/ guardian[a] # "open" /\ worker[a].at \notin {"may", "go"}
<1>1. life[a] \in {"none", "background", "completed"} /\ guardian[a] \in {"none", "blocked", "open", "gone"}
  BY DEF LifeShape, GuardianShape, Guardians
<1> QED BY <1>1 DEF StagedAt, Live, Unborn, Waiting

\* A generation that is stopped lets the result be replaced.
LEMMA StoppedKept ==
    ASSUME JobAssumption, Shape, Booked, Judged, pass.at \in {"inspect", "term", "grace"},
           job' = job, registry' = registry, Terminal(Snap) \/ Harmless(Job)',
           NEW held \in BOOLEAN, Stopped(held)
    PROVE  PassShape' /\ Booked' /\ Judged'
<1>1. ResultsKept
  BY DEF ResultsKept, Recorded
<1>2. /\ pass'.at = IF ~Terminal(Snap) THEN "recover" ELSE IF held THEN "forget" ELSE "decide"
      /\ pass'.entry = pass.entry /\ pass'.snap = pass.snap
      /\ PassShape'
  BY StoppedFacts DEF Shape
<1>3. Booked'
  BY <1>1, <1>2, EntryStays
<1>4. Job' = Job /\ Snap' = Snap /\ Job # 0
  BY <1>2 DEF Judged, Reading, Job, Snap
<1>5. Faithful /\ Faithful'
  BY <1>4 DEF Judged, Reading, Faithful, Terminal
<1>6. Terminal(Snap) => Snap.result # "none"
  BY DEF Terminal
<1>7. Judged'
  BY <1>2, <1>4, <1>5, <1>6 DEF Judged, At, Reading, Terminal
<1> QED BY <1>2, <1>3, <1>7

\* The record is looked at.
LEMMA InspectKept ==
    ASSUME JobAssumption, IInv, Inspect
    PROVE  IInv'
<1>1. At("inspect") /\ UNCHANGED <<tracker, registry, job, life, procVars>>
  BY DEF Inspect
<1>2. Shape /\ Booked /\ Staged /\ Judged /\ ResultsKept /\ PassShape /\ pass.at = "inspect"
  BY <1>1, Quiet DEF IInv, Shape, At
<1>3. Job \in Attempts /\ StagedAt(Job) /\ LifeShape /\ GuardianShape /\ WorkerShape
  BY <1>2, EntryFacts DEF Judged, Reading, Staged, Shape
<1>4. CASE Raise(Entry)
  BY <1>1, <1>2, <1>4, EntryRaised, Quiet
<1>5. CASE Live(Job) /\ Goto("term")
  <2>1. /\ pass'.at = "term" /\ pass'.entry = pass.entry /\ pass'.snap = pass.snap
        /\ PassShape'
    BY <1>2, <1>5, GotoFacts DEF PassPlaces
  <2>2. Booked'
    BY <1>1, <1>2, <2>1, EntryStays
  <2>3. Judged'
    <3>1. Job' = Job /\ Snap' = Snap /\ job' = job
      BY <1>1, <2>1 DEF Job, Snap
    <3>2. Faithful'
      BY <1>2, <3>1 DEF Judged, Reading, Faithful, Terminal
    <3> QED BY <1>2, <2>1, <3>1, <3>2 DEF Judged, At, Reading, Terminal
  <2> QED BY <1>1, <2>1, <2>2, <2>3, Quiet
<1>6. CASE life[Job] = "none" /\ Stopped(FALSE)
  <2>1. Terminal(Snap) \/ Harmless(Job)
    BY <1>2, <1>3, <1>6, RecordSays DEF Judged, Harmless, At
  <2>2. Terminal(Snap) \/ Harmless(Job)'
    <3>1. pass'.entry = pass.entry
      BY <1>2, <1>6, StoppedFacts
    <3> QED BY <1>1, <2>1, <3>1 DEF Harmless, Job, procVars
  <2>3. PassShape' /\ Booked' /\ Judged'
    BY <1>1, <1>2, <1>6, <2>2, StoppedKept
  <2> QED BY <1>1, <2>3, Quiet
<1>7. CASE life[Job] # "none" /\ ~Live(Job) /\ Stopped(TRUE)
  <2>1. Harmless(Job)
    BY <1>3, <1>7, RecordSays DEF Harmless
  <2>2. Harmless(Job)'
    <3>1. pass'.entry = pass.entry
      BY <1>2, <1>7, StoppedFacts
    <3> QED BY <1>1, <2>1, <3>1 DEF Harmless, Job, procVars
  <2>3. PassShape' /\ Booked' /\ Judged'
    BY <1>1, <1>2, <1>7, <2>2, StoppedKept
  <2> QED BY <1>1, <2>3, Quiet
<1> QED BY <1>4, <1>5, <1>6, <1>7 DEF Inspect

\* The invariant, when only the processes of the job at hand change.
LEMMA StopsKept ==
    ASSUME IInv, job' = job, UNCHANGED <<tracker, registry, worker>>, Job \in Attempts,
           LifeShape', GuardianShape', CommandShape',
           \A b \in Attempts \ {Job} : /\ life'[b] = life[b] /\ guardian'[b] = guardian[b]
                                       /\ command'[b] = command[b],
           guardian'[Job] \in {guardian[Job], "gone"},
           command'[Job] \in {command[Job], "failed", "killed"},
           command'[Job] # command[Job] => command[Job] = "running",
           \A a \in Attempts : a = Job => StagedAt(a)',
           PassShape', Booked', Judged'
    PROVE  IInv'
<1>1. Shape'
  BY DEF IInv, Shape, JobShape, WorkerShape, RegistryShape, TrackerShape
<1>2. ASSUME NEW b \in Attempts
      PROVE  StagedAt(b)'
  <2>1. CASE b = Job
    BY <2>1
  <2>2. CASE b # Job
    BY <2>2 DEF IInv, Staged, StagedAt
  <2> QED BY <2>1, <2>2
<1>3. ASSUME NEW b \in Attempts
      PROVE  FiledAt(b)'
  <2>1. FiledAt(b)
    BY DEF IInv, Filed
  <2>2. /\ command'[b] = command[b] \/ (command[b] = "running" /\ command'[b] \in {"failed", "killed"})
        /\ guardian'[b] = "blocked" => guardian[b] = "blocked"
    BY DEF Commands
  <2> QED BY <2>1, <2>2 DEF FiledAt, Recorded
<1> QED BY <1>1, <1>2, <1>3 DEF IInv, Staged, Filed

\* The group is told to end; the command may.
LEMMA TermKept ==
    ASSUME JobAssumption, IInv, Term
    PROVE  IInv'
<1>1. At("term") /\ UNCHANGED <<tracker, registry, job, life, worker, guardian>>
  BY DEF Term
<1>2. Shape /\ Booked /\ Staged /\ Judged /\ PassShape /\ pass.at = "term"
  BY <1>1 DEF IInv, Shape, At
<1>3. ResultsKept
  BY <1>1 DEF ResultsKept, Recorded
<1>4. Job \in Attempts /\ StagedAt(Job) /\ LifeShape /\ GuardianShape /\ WorkerShape /\ CommandShape
  BY <1>2, EntryFacts DEF Judged, Reading, Staged, Shape
<1>5. CASE UNCHANGED command /\ (Raise(Entry) \/ (Terminal(Snap) /\ Stopped(FALSE)))
  <2>1. UNCHANGED <<tracker, registry, job, life, procVars>>
    BY <1>1, <1>5 DEF procVars
  <2>2. CASE Raise(Entry)
    BY <1>1, <1>2, <1>3, <2>1, <2>2, EntryRaised, Quiet
  <2>3. CASE Terminal(Snap) /\ Stopped(FALSE)
    <3>1. PassShape' /\ Booked' /\ Judged'
      BY <1>1, <1>2, <2>3, StoppedKept
    <3> QED BY <2>1, <3>1, Quiet
  <2> QED BY <1>5, <2>2, <2>3
<1>6. CASE /\ Goto("grace")
           /\ \/ UNCHANGED command
              \/ command[Job] = "running" /\ command' = [command EXCEPT ![Job] = "failed"]
  <2>1. /\ pass'.at = "grace" /\ pass'.entry = pass.entry /\ pass'.snap = pass.snap
        /\ PassShape'
    BY <1>2, <1>6, GotoFacts DEF PassPlaces
  <2>2. Booked'
    BY <1>1, <1>2, <1>3, <2>1, EntryStays
  <2>3. Judged'
    <3>1. Job' = Job /\ Snap' = Snap /\ job' = job
      BY <1>1, <2>1 DEF Job, Snap
    <3>2. Faithful'
      BY <1>2, <3>1 DEF Judged, Reading, Faithful, Terminal
    <3> QED BY <1>2, <2>1, <3>1, <3>2 DEF Judged, At, Reading, Terminal
  <2>4. /\ CommandShape' /\ \A b \in Attempts \ {Job} : command'[b] = command[b]
        /\ command'[Job] \in {command[Job], "failed"}
        /\ command'[Job] # command[Job] => command[Job] = "running"
    BY <1>4, <1>6 DEF CommandShape, Commands
  <2>5. \A a \in Attempts : a = Job => StagedAt(a)'
    BY <1>1, <1>4, <2>4 DEF StagedAt
  <2>6. LifeShape' /\ GuardianShape'
    BY <1>1, <1>4 DEF LifeShape, GuardianShape
  <2> QED BY <1>1, <1>4, <2>1, <2>2, <2>3, <2>4, <2>5, <2>6, StopsKept
<1> QED BY <1>5, <1>6 DEF Term, Vanished

\* The group is killed: the generation cannot run any more.
LEMMA KillKept ==
    ASSUME JobAssumption, IInv, Kill
    PROVE  IInv'
<1>1. At("grace") /\ UNCHANGED <<tracker, registry, job, worker>>
  BY DEF Kill
<1>2. Shape /\ Booked /\ Staged /\ Judged /\ PassShape /\ pass.at = "grace"
  BY <1>1 DEF IInv, Shape, At
<1>3. ResultsKept
  BY <1>1 DEF ResultsKept, Recorded
<1>4. Job \in Attempts /\ StagedAt(Job) /\ LifeShape /\ GuardianShape /\ WorkerShape /\ CommandShape
  BY <1>2, EntryFacts DEF Judged, Reading, Staged, Shape
<1>5. CASE Vanished /\ UNCHANGED <<life, guardian, command>>
  <2>1. UNCHANGED <<tracker, registry, job, life, procVars>>
    BY <1>1, <1>5 DEF procVars
  <2>2. CASE Raise(Entry)
    BY <1>1, <1>2, <1>3, <2>1, <2>2, EntryRaised, Quiet
  <2>3. CASE Terminal(Snap) /\ Stopped(FALSE)
    <3>1. PassShape' /\ Booked' /\ Judged'
      BY <1>1, <1>2, <2>3, StoppedKept
    <3> QED BY <2>1, <3>1, Quiet
  <2> QED BY <1>5, <2>2, <2>3 DEF Vanished
<1>6. CASE SeenDead /\ (Stopped(TRUE) \/ Raise(Entry)) /\ UNCHANGED <<life, guardian, command>>
  <2>1. UNCHANGED <<tracker, registry, job, life, procVars>>
    BY <1>1, <1>6 DEF procVars
  <2>2. CASE Raise(Entry)
    BY <1>1, <1>2, <1>3, <2>1, <2>2, EntryRaised, Quiet
  <2>3. CASE Stopped(TRUE)
    <3>1. guardian[Job] = "gone"
      BY <1>4, <1>6, RecordSays DEF SeenDead
    <3>2. pass'.entry = pass.entry
      BY <1>2, <2>3, StoppedFacts
    <3>3. Harmless(Job)'
      BY <1>6, <3>1, <3>2 DEF Harmless, Job
    <3>4. PassShape' /\ Booked' /\ Judged'
      BY <1>1, <1>2, <2>3, <3>3, StoppedKept
    <3> QED BY <2>1, <3>4, Quiet
  <2> QED BY <1>6, <2>2, <2>3
<1>7. CASE Live(Job) /\ Killed(Job) /\ life' = [life EXCEPT ![Job] = "completed"] /\ Stopped(TRUE)
  <2>1. /\ guardian'[Job] = "gone"
        /\ command'[Job] = IF command[Job] = "running" THEN "killed" ELSE command[Job]
        /\ \A b \in Attempts \ {Job} : guardian'[b] = guardian[b] /\ command'[b] = command[b]
        /\ GuardianShape' /\ CommandShape'
    BY <1>4, <1>7, KilledFacts
  <2>2. LifeShape' /\ life'[Job] = "completed" /\ \A b \in Attempts \ {Job} : life'[b] = life[b]
    BY <1>4, <1>7 DEF LifeShape
  <2>3. pass'.entry = pass.entry
    BY <1>2, <1>7, StoppedFacts
  <2>4. Harmless(Job)'
    BY <2>1, <2>3 DEF Harmless, Job
  <2>5. PassShape' /\ Booked' /\ Judged'
    BY <1>1, <1>2, <1>7, <2>4, StoppedKept
  <2>6. \A a \in Attempts : a = Job => StagedAt(a)'
    BY <1>1, <1>4, <1>7, <2>1, <2>2 DEF StagedAt, Unborn, Live, Waiting
  <2> QED BY <1>1, <1>4, <2>1, <2>2, <2>5, <2>6, StopsKept
<1> QED BY <1>5, <1>6, <1>7 DEF Kill

\* A record that does not live is forgotten.
LEMMA ForgetKept ==
    ASSUME JobAssumption, IInv, Forget
    PROVE  IInv'
<1>1. At("forget") /\ UNCHANGED <<tracker, registry, job, worker, guardian, command>>
  BY DEF Forget, procVars
<1>2. Shape /\ Booked /\ Staged /\ Judged /\ PassShape /\ pass.at = "forget"
  BY <1>1 DEF IInv, Shape, At
<1>3. ResultsKept
  BY <1>1 DEF ResultsKept, Recorded
<1>4. Job \in Attempts /\ StagedAt(Job) /\ LifeShape /\ GuardianShape /\ WorkerShape /\ CommandShape
  BY <1>2, EntryFacts DEF Judged, Reading, Staged, Shape
<1>5. CASE Raise(Entry) /\ UNCHANGED life
  <2>1. UNCHANGED <<tracker, registry, job, life, procVars>>
    BY <1>1, <1>5 DEF procVars
  <2> QED BY <1>1, <1>2, <1>3, <1>5, <2>1, EntryRaised, Quiet
<1>6. CASE ~Live(Job) /\ life' = [life EXCEPT ![Job] = "none"] /\ Goto("decide")
  <2>1. /\ pass'.at = "decide" /\ pass'.entry = pass.entry /\ pass'.snap = pass.snap
        /\ PassShape'
    BY <1>2, <1>6, GotoFacts DEF PassPlaces
  <2>2. Booked'
    BY <1>1, <1>2, <1>3, <2>1, EntryStays
  <2>3. Judged'
    <3>1. Job' = Job /\ Snap' = Snap /\ job' = job
      BY <1>1, <2>1 DEF Job, Snap
    <3>2. Faithful' /\ Job # 0 /\ Terminal(Snap)
      BY <1>2, <3>1 DEF Judged, Reading, Faithful, Terminal, At
    <3> QED BY <2>1, <3>1, <3>2 DEF Judged, At, Reading, Terminal
  <2>4. LifeShape' /\ life'[Job] = "none" /\ \A b \in Attempts \ {Job} : life'[b] = life[b]
    BY <1>4, <1>6 DEF LifeShape
  <2>5. guardian[Job] # "open" /\ (worker[Job].at \notin {"anchor", "register"} => guardian[Job] # "blocked")
    BY <1>4, <1>6, Forgotten
  <2>6. \A a \in Attempts : a = Job => StagedAt(a)'
    BY <1>1, <1>4, <2>4, <2>5 DEF StagedAt
  <2>7. GuardianShape' /\ CommandShape'
    BY <1>1, <1>4 DEF GuardianShape, CommandShape
  <2> QED BY <1>1, <1>4, <2>1, <2>2, <2>3, <2>4, <2>6, <2>7, StopsKept
<1> QED BY <1>5, <1>6 DEF Forget

------------------------------------------------------------------------------
(* What a pass writes into a job, and what it makes of it. *)

\* The first request for a cancellation stays.
LEMMA CancelKept ==
    ASSUME JobAssumption, IInv, RequestCancel
    PROVE  IInv'
<1>1. /\ pass.at \in {"cancel", "revoke"}
      /\ job' = [job EXCEPT ![Job].cancel = TRUE]
      /\ (Goto("inspect") /\ pass.at = "cancel") \/ Goto("save")
      /\ UNCHANGED <<tracker, registry, life, worker, guardian, command>>
  BY DEF RequestCancel, procVars, At
<1>2. Shape /\ Booked /\ Staged /\ Filed /\ Judged /\ PassShape /\ JobShape
  BY DEF IInv, Shape
<1>3. Job \in Attempts /\ Job # 0
  BY <1>1, <1>2, EntryFacts DEF Judged, Reading
<1>4. /\ \A b \in Attempts : job'[b].file = job[b].file
      /\ job'[Job].cancel
      /\ JobShape'
  BY <1>1, <1>2, <1>3, CancelFacts
<1>5. /\ pass'.at \in {"inspect", "save"} /\ (pass'.at = "inspect" => pass.at = "cancel")
      /\ pass'.entry = pass.entry /\ pass'.snap = pass.snap
      /\ PassShape'
  BY <1>1, <1>2, GotoFacts DEF PassPlaces
<1>6. Staged' /\ Filed' /\ ResultsKept /\ Shape'
  BY <1>1, <1>2, <1>4, <1>5, ProcessesKept
<1>7. Booked'
  BY <1>1, <1>2, <1>5, <1>6, EntryStays
<1>8. Judged'
  <2>1. Job' = Job /\ Snap' = Snap
    BY <1>5 DEF Job, Snap
  <2>2. ~Terminal(Snap) /\ ~Snap.ok
    BY <1>1, <1>2 DEF Judged, Reading, Faithful
  <2>3. Faithful'
    BY <2>1, <2>2 DEF Faithful, Terminal
  <2> QED BY <1>3, <1>4, <1>5, <2>1, <2>3 DEF Judged, At, Reading, Terminal
<1> QED BY <1>6, <1>7, <1>8 DEF IInv

\* A pass that replaces the result of a job that cannot run any more.
LEMMA RecoverKept ==
    ASSUME JobAssumption, IInv, Recover
    PROVE  IInv'
<1>1. At("recover") /\ UNCHANGED <<tracker, registry, life, worker, guardian, command>>
  BY DEF Recover, procVars
<1>2. Shape /\ Booked /\ Staged /\ Filed /\ Judged /\ PassShape /\ JobShape /\ pass.at = "recover"
  BY <1>1 DEF IInv, Shape, At
<1>3. Job \in Attempts /\ Job # 0 /\ Snap \in Results /\ Recorded(Job)
  BY <1>2, EntryFacts DEF Judged, Reading
<1>4. CASE Raise(Entry) /\ UNCHANGED job
  <2>1. UNCHANGED <<tracker, registry, job, life, procVars>> /\ ResultsKept
    BY <1>1, <1>4 DEF procVars, ResultsKept, Recorded
  <2> QED BY <1>1, <1>2, <1>4, <2>1, EntryRaised, Quiet
<1>5. CASE /\ Writable(Job)
           /\ LET file == [Snap EXCEPT
                            !.result = IF Snap.started THEN "completed" ELSE "cancelled",
                            !.revoked = Snap.started] IN
              /\ Put(Job, file)
              /\ pass' = [pass EXCEPT !.snap = file,
                           !.at = IF pass.held THEN "forget" ELSE "decide"]
  <2> DEFINE r == IF Snap.started THEN "completed" ELSE "cancelled"
             file == [Snap EXCEPT !.result = r, !.revoked = Snap.started]
  <2>1. Put(Job, file) /\ pass' = [pass EXCEPT !.snap = file, !.at = IF pass.held THEN "forget" ELSE "decide"]
    BY <1>5
  <2>2. Snap.started \in BOOLEAN /\ r \in {"completed", "cancelled"} /\ (Snap.started <=> r = "completed")
    BY <1>3, ResultFields
  <2>3. file \in Results
    <3> HIDE DEF r
    <3> QED BY <1>3, <2>2, ResultChanges
  <2>4. file.result = r /\ file.ok = Snap.ok /\ (file.revoked <=> r = "completed")
    <3>1. file.result = r /\ file.ok = Snap.ok /\ file.revoked = Snap.started
      BY <1>3 DEF Results
    <3> QED BY <2>2, <3>1
  <2> HIDE DEF file
  <2>5. /\ job'[Job].file = file /\ job'[Job].cancel = job[Job].cancel
        /\ \A b \in Attempts \ {Job} : job'[b] = job[b]
        /\ JobShape'
    BY <1>2, <1>3, <2>1, <2>3, PutFacts
  <2>6. /\ pass'.at \in {"forget", "decide"} /\ pass'.entry = pass.entry /\ pass'.snap = file
        /\ PassShape'
    BY <1>2, <2>1, <2>3 DEF PassShape, PassPlaces
  <2>7. ~Snap.ok /\ Harmless(Job) /\ ~Terminal(job[Job].file)
    BY <1>1, <1>2, <1>5 DEF Judged, Reading, Faithful, Writable
  <2>8. Terminal(file)
    BY <2>2, <2>4 DEF Terminal
  <2> HIDE DEF r
  <2>9. ResultsKept
    BY <1>3, <2>5, <2>8 DEF ResultsKept, Recorded, Terminal
  <2>10. Booked'
    BY <1>1, <1>2, <2>6, <2>9, EntryStays
  <2>11. Shape'
    BY <1>1, <1>2, <2>5, <2>6 DEF Shape, LifeShape, WorkerShape, GuardianShape, CommandShape,
                                 RegistryShape, TrackerShape
  <2>12. Staged'
    BY <1>1, <1>2 DEF Staged, StagedAt
  <2>13. ASSUME NEW b \in Attempts
         PROVE  FiledAt(b)'
    <3>1. CASE b # Job
      BY <1>1, <1>2, <2>5, <3>1 DEF Filed, FiledAt, Recorded, Terminal
    <3>2. CASE b = Job
      <4>1. StagedAt(b)
        BY <1>2 DEF Staged
      <4>2. command[b] # "running" /\ ~(worker[b].at = "go" /\ guardian[b] = "blocked")
        BY <2>7, <3>2, <4>1 DEF Harmless, StagedAt
      <4> QED BY <1>1, <2>4, <2>5, <2>7, <2>8, <3>2, <4>2 DEF FiledAt, Recorded, Terminal
    <3> QED BY <3>1, <3>2
  <2>14. Judged'
    <3>1. Job' = Job /\ Snap' = file
      BY <2>6 DEF Job, Snap
    <3>2. Faithful'
      BY <1>3, <2>4, <2>5, <2>8, <3>1 DEF Faithful, Terminal
    <3>3. file.result # "none"
      BY <2>8 DEF Terminal
    <3> QED BY <1>3, <2>6, <2>8, <3>1, <3>2, <3>3 DEF Judged, At, Reading, Terminal
  <2> QED BY <2>10, <2>11, <2>12, <2>13, <2>14 DEF IInv, Filed
<1> QED BY <1>4, <1>5 DEF Recover

\* The entry that accounts for the job.
Accounted(authority) == [Entry EXCEPT !.state = Outcome(authority), !.job = 0, !.last = Job]

\* It is sound, and one of a deployed run rests on an ended command and no cancellation.
LEMMA AccountIsSound ==
    ASSUME JobAssumption, Shape, Booked, Filed, Judged, At("decide"), Terminal(Snap),
           NEW authority \in BOOLEAN, UNCHANGED <<job, command>>
    PROVE  /\ Accounted(authority) \in Entries
           /\ Books(Accounted(authority))
           /\ \A e : e = Accounted(authority) => Done(e)'
<1>1. /\ Entry \in Entries /\ Books(Entry)
      /\ Job # 0 => Job \in Attempts /\ Recorded(Job)
  BY EntryFacts DEF At
<1>2. Faithful /\ Job # 0 /\ Job \in Attempts
  BY <1>1 DEF Judged, Faithful, Reading, At
<1>3. /\ Entry.job \in Nat /\ Entry.attempt \in Nat /\ Entry.last \in Nat /\ Job = Entry.job
      /\ Job = Entry.attempt /\ Entry.last < Job /\ Job \in 0 .. MaxAttempt /\ Recorded(Job)
  BY <1>1, <1>2, Named DEF Books, Job, Entry, Attempts, JobAssumption
<1>4. Outcome(authority) \in {"running", "blocked", "deployed"}
  BY DEF Outcome
<1>5. /\ Accounted(authority) \in Entries
      /\ Accounted(authority).last = Job /\ Accounted(authority).job = 0
      /\ Accounted(authority).attempt = Entry.attempt
      /\ Accounted(authority).state = Outcome(authority)
  <2>1. \A s \in {"running", "blocked", "deployed"} :
          LET new == [Entry EXCEPT !.state = s, !.job = 0, !.last = Job] IN
          /\ new \in Entries /\ new.last = Job /\ new.job = 0
          /\ new.attempt = Entry.attempt /\ new.state = s
    <3> SUFFICES ASSUME NEW s \in {"running", "blocked", "deployed"}
                 PROVE  LET new == [Entry EXCEPT !.state = s, !.job = 0, !.last = Job] IN
                        /\ new \in Entries /\ new.last = Job /\ new.job = 0
                        /\ new.attempt = Entry.attempt /\ new.state = s
      OBVIOUS
    <3> DEFINE new == [Entry EXCEPT !.state = s, !.job = 0, !.last = Job]
    <3>1. 0 \in 0 .. MaxAttempt
      BY JobAssumption DEF JobAssumption
    <3>2. new \in Entries
      BY <1>1, <1>3, <3>1 DEF Entries
    <3>3. new.last = Job /\ new.job = 0 /\ new.attempt = Entry.attempt /\ new.state = s
      BY <1>1 DEF Entries
    <3> QED BY <3>2, <3>3
  <2> QED BY <1>4, <2>1 DEF Accounted
<1>6. Terminal(job[Job].file)
  BY <1>2 DEF Faithful, Terminal
<1>7. Job \in Discovered(Entry) /\ \A b \in Attempts : b \in Discovered(Entry) => b = Job
  BY <1>1, <1>2, <1>3 DEF Books, Discovered
<1>8. Books(Accounted(authority))
  <2>1. \A b \in Attempts : Recorded(b) /\ b <= Job => Terminal(job[b].file)
    <3> SUFFICES ASSUME NEW b \in Attempts, Recorded(b), b <= Job PROVE Terminal(job[b].file)
      OBVIOUS
    <3>1. b \in Nat
      BY DEF Attempts
    <3>2. CASE b <= Entry.last
      BY <1>1, <3>2 DEF Books
    <3>3. CASE b > Entry.last
      BY <1>6, <1>7, <3>3 DEF Discovered
    <3> QED BY <1>3, <3>1, <3>2, <3>3
  <2>2. \A b \in Attempts : ~(Recorded(b) /\ b > Job)
    BY <1>3, <1>7 DEF Discovered, Attempts
  <2>3. Discovered(Accounted(authority)) = {}
    BY <1>5, <2>2 DEF Discovered
  <2> HIDE DEF Accounted
  <2> QED BY <1>3, <1>5, <2>1, <2>3 DEF Books
<1>9. Outcome(authority) = "deployed" => ~job[Job].cancel /\ command[Job] = "ok"
  <2> SUFFICES ASSUME Outcome(authority) = "deployed" PROVE ~job[Job].cancel /\ command[Job] = "ok"
    OBVIOUS
  <2>1. Snap.result = "completed" /\ Snap.ok /\ ~Snap.revoked
    BY DEF Outcome, Terminal
  <2>2. job[Job].file.ok
    BY <1>2, <2>1 DEF Faithful
  <2> QED BY <1>2, <2>1, <2>2 DEF Faithful, Filed, FiledAt
<1>10. \A e : e = Accounted(authority) => Done(e)'
  BY <1>2, <1>5, <1>9 DEF Done
<1> QED BY <1>5, <1>8, <1>10

\* The job that has ended is accounted for; one that runs is left alone or revoked.
LEMMA DecideKept ==
    ASSUME JobAssumption, IInv, Decide
    PROVE  IInv'
<1>1. At("decide") /\ UNCHANGED <<tracker, registry, job, life, procVars>>
  BY DEF Decide
<1>2. Shape /\ Booked /\ Filed /\ Judged /\ ResultsKept /\ PassShape /\ pass.at = "decide"
  BY <1>1, Quiet DEF IInv, Shape, At
<1>3. /\ Entry \in Entries /\ ~At("idle")
      /\ Job # 0 => Job \in Attempts /\ Recorded(Job)
      /\ Faithful
  BY <1>2, EntryFacts DEF Judged, Reading
<1> DEFINE valid == pass.eligible /\ pass.integrated
<1>4. valid \in BOOLEAN
  BY <1>2 DEF PassShape
<1>5. CASE Terminal(Snap) /\ Finish(valid)
  <2>1. /\ Accounted(valid) \in Entries /\ Books(Accounted(valid))
        /\ \A e : e = Accounted(valid) => Done(e)'
    BY <1>1, <1>2, <1>4, <1>5, AccountIsSound DEF procVars
  <2>2. Account(Accounted(valid))
    BY <1>5 DEF Finish, Accounted
  <2>3. \A e \in Entries : e = Accounted(valid) /\ Raise(e) => PassShape' /\ Booked' /\ Judged'
    BY <1>1, <1>2, <1>3, <2>1, Raised
  <2>4. CASE Raise(Accounted(valid))
    BY <1>1, <2>1, <2>3, <2>4, Quiet
  <2>5. CASE pass' = [pass EXCEPT !.entry = Accounted(valid), !.at = "save"]
    <3>1. PassShape' /\ pass'.at = "save" /\ pass'.entry = Accounted(valid)
      BY <1>2, <2>1, <2>5 DEF PassShape, PassPlaces
    <3>2. \A e \in Entries : e = Accounted(valid) /\ Books(e) /\ Done(e)' => Booked'
      BY <1>1, <1>2, <1>3, <3>1, PassBooks
    <3>3. Judged'
      BY <3>1 DEF Judged, At, Reading
    <3> QED BY <1>1, <2>1, <3>1, <3>2, <3>3, Quiet
  <2> QED BY <2>2, <2>4, <2>5 DEF Account
<1>6. ASSUME NEW at \in {"save", "revoke", "start"}, Goto(at),
             at = "revoke" => Snap.result # "none" /\ ~Terminal(Snap),
             at = "start" => Snap.result = "none" /\ Entry.attempt < MaxAttempt
      PROVE  IInv'
  <2>1. at \in PassPlaces
    BY DEF PassPlaces
  <2>2. /\ pass'.at = at /\ pass'.entry = pass.entry /\ pass'.snap = pass.snap
        /\ PassShape'
    BY <1>2, <1>6, <2>1, GotoFacts
  <2>3. Booked'
    BY <1>1, <1>2, <2>2, EntryStays
  <2>4. Judged'
    <3>1. Job' = Job /\ Snap' = Snap /\ Entry' = Entry /\ job' = job
      BY <1>1, <2>2 DEF Job, Snap, Entry
    <3>2. Faithful'
      BY <1>3, <3>1 DEF Faithful, Terminal
    <3>3. (Job # 0 <=> Snap.result # "none")
      BY <1>2 DEF Judged, At
    <3> QED BY <1>6, <2>2, <3>1, <3>2, <3>3 DEF Judged, At, Reading, Terminal
  <2> QED BY <1>1, <2>2, <2>3, <2>4, Quiet
<1>7. \/ Terminal(Snap) /\ Finish(valid)
      \/ Snap.result # "none" /\ ~Terminal(Snap) /\ (Goto("save") \/ Goto("revoke"))
      \/ Snap.result = "none" /\ (Goto("save") \/ (Entry.attempt < MaxAttempt /\ Goto("start")))
  BY DEF Decide
<1> HIDE DEF valid
<1> QED BY <1>5, <1>6, <1>7

------------------------------------------------------------------------------
(* The next attempt. *)

\* A directory, or its launch record, comes before the worker: nothing runs for it.
LEMMA FreshFiled ==
    ASSUME Shape, Staged, Filed, NEW a \in Attempts, worker[a].at = "new", ~job[a].file.ok,
           NEW r \in {"directory", "launching"},
           job'[a].file = [job[a].file EXCEPT !.result = r],
           \A b \in Attempts \ {a} : job'[b] = job[b],
           UNCHANGED <<life, worker, guardian, command>>
    PROVE  Staged' /\ Filed' /\ job'[a].file.result = r
<1>1. job[a].file \in Results
  BY DEF Shape, JobShape, Directories
<1>2. job'[a].file.result = r /\ ~job'[a].file.ok
  BY <1>1 DEF Results
<1>3. command[a] # "running"
  BY DEF Staged, StagedAt, Unborn
<1>4. ASSUME NEW b \in Attempts
      PROVE  FiledAt(b)'
  <2>1. CASE b = a
    BY <1>2, <1>3, <2>1 DEF FiledAt
  <2>2. CASE b # a
    BY <2>2 DEF Filed, FiledAt, Recorded, Terminal
  <2> QED BY <2>1, <2>2
<1>5. Staged'
  BY DEF Staged, StagedAt
<1> QED BY <1>2, <1>4, <1>5 DEF Filed

\* The directory of the next attempt is made where nothing was recorded.
LEMMA MakeDirKept ==
    ASSUME JobAssumption, IInv, MakeDir
    PROVE  IInv'
<1>1. At("start") /\ UNCHANGED <<tracker, registry, life, worker, guardian, command>>
  BY DEF MakeDir, procVars
<1>2. /\ Shape /\ Booked /\ Staged /\ Filed /\ Judged /\ PassShape /\ JobShape
      /\ pass.at = "start" /\ Job = 0 /\ Entry.attempt < MaxAttempt
  BY <1>1 DEF IInv, Shape, At, Judged
<1>3. CASE Existing(Entry) # {}
  <2>1. Goto("attach") /\ UNCHANGED <<tracker, registry, job, life, procVars>>
    BY <1>1, <1>3 DEF MakeDir, procVars
  <2>2. /\ pass'.at = "attach" /\ pass'.entry = pass.entry
        /\ PassShape'
    BY <1>2, <2>1, GotoFacts DEF PassPlaces
  <2>3. ResultsKept
    BY <2>1, Quiet
  <2>4. Booked'
    BY <1>1, <1>2, <2>2, <2>3, EntryStays
  <2>5. Judged'
    BY <2>2 DEF Judged, At, Reading
  <2> QED BY <2>1, <2>2, <2>4, <2>5, Quiet
<1>4. CASE Existing(Entry) = {}
  <2> DEFINE a == Entry.attempt + 1
  <2>1. Discovered(Entry) = {}
    BY <1>2, <1>4 DEF Existing, Job, Entry
  <2>2. /\ a \in Attempts /\ ~Recorded(a) /\ worker[a].at = "new"
        /\ job[a].file \in Results /\ ~job[a].file.revoked /\ ~Terminal(job[a].file)
        /\ ~job[a].file.ok
    BY <1>2, <2>1, Fresh
  <2>3. job' = [job EXCEPT ![a].file.result = "directory"] /\ Goto("record")
    BY <1>4 DEF MakeDir
  <2> HIDE DEF a
  <2>4. /\ job'[a].file = [job[a].file EXCEPT !.result = "directory"]
        /\ \A b \in Attempts \ {a} : job'[b] = job[b]
        /\ JobShape'
    BY <1>2, <2>2, <2>3, ResultFacts
  <2>5. Staged' /\ Filed' /\ job'[a].file.result = "directory"
    BY <1>1, <1>2, <2>2, <2>4, FreshFiled
  <2>6. /\ pass'.at = "record" /\ pass'.entry = pass.entry
        /\ PassShape'
    BY <1>2, <2>3, GotoFacts DEF PassPlaces
  <2>7. ResultsKept
    BY <2>2, <2>4, <2>5 DEF ResultsKept, Recorded, Terminal
  <2>8. Booked'
    BY <1>1, <1>2, <2>6, <2>7, EntryStays
  <2>9. Entry' = Entry /\ Job' = Job
    BY <2>6 DEF Entry, Job
  <2>10. Discovered(Entry)' = {}
    BY <2>1, <2>7, <2>9 DEF Discovered, ResultsKept
  <2>11. Judged'
    BY <1>2, <2>6, <2>9, <2>10 DEF Judged, At, Reading
  <2>12. Shape'
    BY <1>1, <1>2, <2>4, <2>6 DEF Shape, LifeShape, WorkerShape, GuardianShape, CommandShape,
                                 RegistryShape, TrackerShape
  <2> QED BY <2>5, <2>8, <2>11, <2>12 DEF IInv
<1> QED BY <1>3, <1>4

\* The one attempt that no entry knows is the new one.
LEMMA RecordKept ==
    ASSUME JobAssumption, IInv, Record
    PROVE  IInv'
<1>1. At("record") /\ UNCHANGED <<tracker, registry, life, worker, guardian, command>>
  BY DEF Record, procVars
<1>2. /\ Shape /\ Booked /\ Staged /\ Filed /\ Judged /\ PassShape /\ JobShape
      /\ pass.at = "record" /\ Job = 0 /\ Entry.attempt < MaxAttempt /\ Discovered(Entry) = {}
  BY <1>1 DEF IInv, Shape, At, Judged
<1> DEFINE a == Entry.attempt + 1
<1>3. /\ a \in Attempts /\ ~Recorded(a) /\ worker[a].at = "new"
      /\ job[a].file \in Results /\ ~job[a].file.revoked /\ ~Terminal(job[a].file)
      /\ ~job[a].file.ok
      /\ a > Entry.attempt
  BY <1>2, Fresh
<1>4. /\ job' = [job EXCEPT ![a].file.result = "launching"]
      /\ pass' = [pass EXCEPT !.entry.attempt = a, !.entry.job = a, !.at = "spawn"]
  BY DEF Record
<1> HIDE DEF a
<1>5. /\ job'[a].file = [job[a].file EXCEPT !.result = "launching"]
      /\ \A b \in Attempts \ {a} : job'[b] = job[b]
      /\ JobShape'
  BY <1>2, <1>3, <1>4, ResultFacts
<1>6. Staged' /\ Filed' /\ job'[a].file.result = "launching"
  BY <1>1, <1>2, <1>3, <1>5, FreshFiled
<1>7. /\ Entry \in Entries /\ Books(Entry) /\ Entry.state # "deployed" /\ Entry.last = registry.last
      /\ registry \in Entries /\ Books(registry) /\ registry.state # "deployed"
  BY <1>2, EntryFacts DEF Booked, At, Shape, RegistryShape
<1>8. Entry.attempt \in Nat /\ Entry.last \in Nat /\ a \in Nat /\ Entry.last < a /\ a # 0 /\ a \in 0 .. MaxAttempt
  BY <1>3, <1>7, Named DEF Books, Attempts, JobAssumption
<1>9. /\ pass'.at = "spawn" /\ pass'.entry = [Entry EXCEPT !.attempt = a, !.job = a]
      /\ PassShape'
  <2>1. pass'.at = "spawn" /\ pass'.entry = [pass.entry EXCEPT !.attempt = a, !.job = a]
    BY <1>2, <1>4 DEF PassShape
  <2>2. pass'.entry \in Entries
    BY <1>7, <1>8, <2>1 DEF Entries, Entry
  <2>3. pass' = [pass EXCEPT !.entry = pass'.entry, !.at = "spawn"]
    BY <1>2, <1>4, <2>1 DEF PassShape
  <2>4. PassShape'
    BY <1>2, <2>2, <2>3 DEF PassShape, PassPlaces
  <2> QED BY <2>1, <2>4 DEF Entry
<1>10. /\ Entry'.attempt = a /\ Entry'.job = a /\ Entry'.last = Entry.last /\ Entry'.state = Entry.state
       /\ Job' = a
  BY <1>7, <1>9 DEF Entry, Job, Entries
<1>11. \A b \in Attempts : /\ b # a => (Recorded(b)' <=> Recorded(b)) /\ job'[b] = job[b]
                           /\ b = a => Recorded(b)'
  BY <1>5, <1>6 DEF Recorded
<1>12. \A b \in Attempts : Recorded(b)' /\ b > Entry.last => b = a
  BY <1>2, <1>11 DEF Discovered, Recorded
<1>13. \A b \in Attempts : Recorded(b)' /\ b <= Entry.last => Terminal(job'[b].file)
  <2> SUFFICES ASSUME NEW b \in Attempts, Recorded(b)', b <= Entry.last PROVE Terminal(job'[b].file)
    OBVIOUS
  <2>1. b # a /\ Recorded(b)
    <3>1. b \in Nat
      BY DEF Attempts
    <3>2. b # a
      BY <1>8, <3>1
    <3> QED BY <1>11, <3>2 DEF Recorded
  <2>2. Terminal(job[b].file)
    BY <1>7, <2>1 DEF Books
  <2> QED BY <1>11, <2>1, <2>2
<1>14. Books(Entry)'
  <2>1. \A b, c \in Discovered(Entry)' : b = c
    BY <1>10, <1>12 DEF Discovered
  <2> QED BY <1>3, <1>8, <1>10, <1>11, <1>13, <2>1 DEF Books, Terminal
<1>15. Books(registry)'
  <2>1. \A b, c \in Discovered(registry)' : b = c
    BY <1>1, <1>7, <1>12 DEF Discovered
  <2>2. registry.job # 0 => Recorded(registry.job)'
    <3>1. registry.job # 0 => registry.job \in Attempts
      BY <1>7, Named
    <3> QED BY <1>1, <1>7, <1>11, <3>1 DEF Books, Recorded
  <2> QED BY <1>1, <1>7, <1>13, <2>1, <2>2 DEF Books, Recorded, Terminal
<1>16. Booked'
  BY <1>1, <1>7, <1>9, <1>10, <1>14, <1>15 DEF Booked, Done, At, Entry
<1>17. Judged'
  BY <1>1, <1>3, <1>6, <1>8, <1>9, <1>10 DEF Judged, At, Reading
<1>18. Shape'
  BY <1>1, <1>2, <1>5, <1>9 DEF Shape, LifeShape, WorkerShape, GuardianShape, CommandShape,
                               RegistryShape, TrackerShape
<1> QED BY <1>6, <1>16, <1>17, <1>18 DEF IInv

\* The worker of the attempt is started, or the attempt has failed.
LEMMA SpawnKept ==
    ASSUME JobAssumption, IInv, Spawn
    PROVE  IInv'
<1>1. At("spawn") /\ UNCHANGED <<tracker, registry, life, guardian, command>>
  BY DEF Spawn
<1>2. /\ Shape /\ Booked /\ Staged /\ Filed /\ Judged /\ PassShape /\ JobShape /\ WorkerShape
      /\ pass.at = "spawn" /\ worker[Job].at = "new" /\ job[Job].file.result = "launching"
  BY <1>1 DEF IInv, Shape, At, Judged
<1>3. Job \in Attempts /\ Job # 0 /\ Recorded(Job)
  BY <1>2, EntryFacts DEF Judged, Reading
<1>4. /\ StagedAt(Job) /\ guardian[Job] = "none" /\ command[Job] = "none"
      /\ ~job[Job].file.ok /\ job[Job].file \in Results
  BY <1>2, <1>3 DEF Staged, StagedAt, Unborn, Filed, FiledAt, Terminal, JobShape, Directories
<1>5. CASE worker' = [worker EXCEPT ![Job].at = "begin"] /\ Goto("await") /\ UNCHANGED job
  <2>1. Move(Job, "begin")
    BY <1>5 DEF Move
  <2>2. /\ worker'[Job].at = "begin" /\ worker'[Job].end = worker[Job].end
        /\ \A b \in Attempts \ {Job} : worker'[b] = worker[b]
        /\ WorkerShape'
    BY <1>2, <1>3, <2>1, MoveFacts DEF WorkerPlaces
  <2>3. pass'.at = "await" /\ pass'.entry = pass.entry /\ PassShape'
    BY <1>2, <1>5, GotoFacts DEF PassPlaces
  <2>4. ResultsKept
    BY <1>5 DEF ResultsKept, Recorded
  <2>5. Booked'
    BY <1>1, <1>2, <2>3, <2>4, EntryStays
  <2>6. Judged'
    BY <1>3, <2>3 DEF Judged, At, Reading, Job
  <2>7. ASSUME NEW b \in Attempts
        PROVE  StagedAt(b)' /\ FiledAt(b)'
    <3>1. CASE b # Job
      BY <1>1, <1>2, <1>5, <2>2, <3>1 DEF Staged, StagedAt, Filed, FiledAt, Recorded
    <3>2. CASE b = Job
      BY <1>1, <1>3, <1>4, <1>5, <2>2, <3>2 DEF StagedAt, Unborn, Waiting, FiledAt, Recorded
    <3> QED BY <3>1, <3>2
  <2>8. Shape'
    BY <1>1, <1>2, <1>5, <2>2, <2>3 DEF Shape, JobShape, LifeShape, GuardianShape, CommandShape,
                                 RegistryShape, TrackerShape
  <2> QED BY <2>5, <2>6, <2>7, <2>8 DEF IInv, Staged, Filed
<1>6. CASE /\ Put(Job, [job[Job].file EXCEPT !.result = "completed"])
           /\ Raise(Entry)
           /\ UNCHANGED worker
  <2> DEFINE file == [job[Job].file EXCEPT !.result = "completed"]
  <2>1. file \in Results /\ file.result = "completed" /\ ~file.ok
    <3>1. file \in Results
      BY <1>4, ResultChanges
    <3>2. file.result = "completed" /\ ~file.ok
      BY <1>4 DEF Results
    <3> QED BY <3>1, <3>2
  <2>2. Put(Job, file)
    BY <1>6
  <2> HIDE DEF file
  <2>3. /\ job'[Job].file = file
        /\ \A b \in Attempts \ {Job} : job'[b] = job[b]
        /\ JobShape'
    BY <1>2, <1>3, <2>1, <2>2, PutFacts
  <2>4. ResultsKept
    BY <1>3, <2>1, <2>3 DEF ResultsKept, Recorded, Terminal
  <2>5. PassShape' /\ Booked' /\ Judged'
    BY <1>1, <1>2, <1>6, <2>4, EntryRaised
  <2>6. ASSUME NEW b \in Attempts
        PROVE  FiledAt(b)'
    <3>1. CASE b # Job
      BY <1>1, <1>2, <1>6, <2>3, <3>1 DEF Filed, FiledAt, Recorded, Terminal
    <3>2. CASE b = Job
      BY <1>1, <1>2, <1>4, <1>6, <2>1, <2>3, <3>2 DEF FiledAt, Recorded, Terminal
    <3> QED BY <3>1, <3>2
  <2>7. Staged'
    BY <1>1, <1>2, <1>6 DEF Staged, StagedAt
  <2>8. Shape'
    BY <1>1, <1>2, <1>6, <2>3, <2>5 DEF Shape, LifeShape, WorkerShape, GuardianShape, CommandShape,
                                 RegistryShape, TrackerShape
  <2> QED BY <2>5, <2>6, <2>7, <2>8 DEF IInv, Filed
<1> QED BY <1>5, <1>6 DEF Spawn

------------------------------------------------------------------------------
(* The theorems. *)

\* At the start there is no job.
LEMMA InitOK ==
    ASSUME JobAssumption, Init
    PROVE  IInv
<1>1. NoJob \in Results /\ NoFile \in Directories /\ NewRun \in Entries
  BY DEF NoJob, NoFile, Results, Directories, NewRun, Entries, JobAssumption
<1>2. /\ [Off EXCEPT !.at = "new"] \in [at : WorkerPlaces, end : Ends]
      /\ [Off EXCEPT !.at = "new"].at = "new" /\ [Off EXCEPT !.at = "new"].end = ""
  BY DEF Off, WorkerPlaces, Ends
<1>3. /\ Resting \in [at : PassPlaces, entry : Entries, eligible : BOOLEAN,
                      integrated : BOOLEAN, snap : Results, held : BOOLEAN]
      /\ Resting.at = "idle"
  BY <1>1 DEF Resting, PassPlaces
<1>4. Shape
  <2>1. TrackerShape
    BY DEF Init, TrackerShape
  <2>2. JobShape /\ RegistryShape /\ PassShape
    BY <1>1, <1>3 DEF Init, JobShape, RegistryShape, PassShape
  <2>3. LifeShape /\ GuardianShape /\ CommandShape
    BY DEF Init, LifeShape, GuardianShape, CommandShape, Guardians, Commands
  <2>4. WorkerShape
    BY <1>2 DEF Init, WorkerShape
  <2> QED BY <2>1, <2>2, <2>3, <2>4 DEF Shape
<1>5. ASSUME NEW a \in Attempts
      PROVE  /\ worker[a].at = "new" /\ worker[a].end = "" /\ life[a] = "none"
             /\ guardian[a] = "none" /\ command[a] = "none"
             /\ job[a].file.result = "none" /\ ~job[a].file.ok /\ ~Recorded(a)
  BY <1>2 DEF Init, NoFile, NoJob, Recorded
<1>6. Staged
  BY <1>5 DEF Staged, StagedAt, Unborn, Waiting
<1>7. Filed
  BY <1>5 DEF Filed, FiledAt
<1>8. At("idle")
  BY <1>3 DEF Init, At
<1>9. Booked
  <2>1. /\ registry.last = 0 /\ registry.attempt = 0 /\ registry.job = 0 /\ registry.state = "running"
    BY DEF Init, NewRun
  <2>2. Discovered(registry) = {}
    BY <1>5 DEF Discovered
  <2>3. Books(registry)
    <3>1. \A a \in Attempts : ~Recorded(a)
      BY <1>5
    <3> QED BY <2>1, <2>2, <3>1 DEF Books
  <2> QED BY <1>8, <2>1, <2>3 DEF Booked, Done, At
<1>10. Judged
  BY <1>8 DEF Judged, At, Reading
<1> QED BY <1>4, <1>6, <1>7, <1>9, <1>10 DEF IInv

\* Every step keeps the invariant.
LEMMA StepOK ==
    ASSUME JobAssumption, IInv, [Next]_vars
    PROVE  IInv'
<1>1. CASE UNCHANGED vars
  <2>1. UNCHANGED <<tracker, registry, pass, job, life, worker, guardian, command>>
    BY <1>1 DEF vars, procVars
  <2>2. Staged' /\ Filed' /\ ResultsKept /\ (PassShape' /\ Booked' /\ Judged' => IInv')
    BY <2>1, Quiet DEF procVars
  <2>3. Settled
    BY <2>1 DEF Settled, Recorded
  <2>4. Booked'
    BY <2>1, <2>3, BookedKept DEF IInv
  <2>5. Judged'
    <3>1. Discovered(Entry)' = Discovered(Entry)
      BY <2>1 DEF Discovered, Recorded, Entry
    <3>2. (Faithful => Faithful') /\ (Harmless(Job) => Harmless(Job)')
      BY <2>1 DEF Faithful, Harmless, Job, Snap
    <3> QED BY <2>1, <3>1, <3>2 DEF IInv, Judged, At, Job, Snap, Entry
  <2>6. PassShape'
    BY <2>1 DEF IInv, Shape, PassShape
  <2> QED BY <2>2, <2>4, <2>5, <2>6
<1>2. CASE Next
  <2>1. PassStep => IInv'
    BY ScanKept, DispatchKept, AttachKept, CancelKept, InspectKept, TermKept, KillKept, RecoverKept,
       ForgetKept, DecideKept, MakeDirKept, RecordKept, SpawnKept, AwaitKept, SaveKept DEF PassStep
  <2>2. KillPass \/ Tracker => IInv'
    BY GoneKept, TrackerKept
  <2>3. ASSUME NEW a \in Attempts, WorkerSide(a)
        PROVE  IInv'
    BY <2>3, SideKept
  <2> QED BY <1>2, <2>1, <2>2, <2>3, Actors
<1> QED BY <1>1, <1>2

\* The inductive invariant of the release job (pm-agent.py:2063-2646, release-worker.py).
THEOREM Invariance == Spec => []IInv
<1>1. Init => IInv
  BY JobAssumption, InitOK
<1>2. IInv /\ [Next]_vars => IInv'
  BY JobAssumption, StepOK
<1> QED BY <1>1, <1>2, PTL DEF Spec

\* No release command outlives its job: at most one runs, and the result of its attempt is
\* open and says that it may have started (pm-agent.py:2452-2611, release-worker.py:1056-1060).
THEOREM OneCommand == Spec => []NoOrphan
<1>1. IInv => NoOrphan
  <2> SUFFICES ASSUME IInv PROVE NoOrphan
    OBVIOUS
  <2>1. /\ Shape /\ Staged /\ Filed /\ Books(registry) /\ registry \in Entries
    BY DEF IInv, Booked, Shape, RegistryShape
  <2>2. TypeOK
    <3>1. tracker \in [eligible : BOOLEAN, integrated : BOOLEAN] /\ pass.entry \in Entries /\ pass.snap \in Results
      BY <2>1 DEF Shape, TrackerShape, PassShape
    <3>2. \A a \in Attempts : /\ job[a].file \in Results
                              /\ life[a] \in {"none", "background", "completed"}
                              /\ guardian[a] \in Guardians /\ command[a] \in Commands
      BY <2>1 DEF Shape, JobShape, Directories, LifeShape, GuardianShape, CommandShape
    <3>3. registry.last <= registry.attempt
          /\ (registry.job # 0 => registry.job = registry.attempt /\ registry.last < registry.job)
      BY <2>1 DEF Books
    <3> QED BY <2>1, <3>1, <3>2, <3>3 DEF TypeOK
  <2>3. ASSUME NEW a \in Attempts, command[a] = "running"
        PROVE  ~Terminal(job[a].file) /\ job[a].file.started /\ a \in Discovered(registry)
    <3>1. ~Terminal(job[a].file) /\ job[a].file.started
      BY <2>1, <2>3 DEF Filed, FiledAt
    <3>2. Recorded(a)
      BY <2>1, <2>3 DEF Filed, FiledAt, Staged, StagedAt, Unborn
    <3>3. a \in Nat /\ registry.last \in Nat
      BY <2>1, JobAssumption, Named DEF Attempts
    <3> QED BY <2>1, <3>1, <3>2, <3>3 DEF Books, Discovered
  <2>4. \A a, b \in Attempts : command[a] = "running" /\ command[b] = "running" => a = b
    BY <2>1, <2>3 DEF Books
  <2> QED BY <2>2, <2>3, <2>4 DEF NoOrphan
<1> QED BY <1>1, Invariance, PTL

\* A run is recorded as deployed only when the release command of its last attempt ended
\* well and nothing had asked for its cancellation (pm-agent.py:2090-2118).
THEOREM DeploymentsRest == Spec => []DeployedDone
<1>1. IInv => DeployedDone
  BY DEF IInv, Booked, Done, DeployedDone
<1> QED BY <1>1, Invariance, PTL

\* A terminal result is final, whoever comes second (pm-agent.py:1984, release-worker.py:440).
THEOREM ResultsAreFinal == Spec => ResultsStay
<1>1. IInv /\ [Next]_vars =>
        [\A a \in Attempts : Terminal(job[a].file) => job'[a].file = job[a].file]_vars
  <2> SUFFICES ASSUME IInv, Next, NEW a \in Attempts, Terminal(job[a].file)
               PROVE  job'[a].file = job[a].file
    OBVIOUS
  <2>1. Shape /\ Staged /\ Filed /\ Booked /\ Judged /\ JobShape /\ PassShape
    BY DEF IInv, Shape
  <2>2. ASSUME NEW b \in Attempts, WorkerSide(b)
        PROVE  job'[a].file = job[a].file
    <3>1. ResultStep(b)
      BY <2>1, <2>2, SideSteps
    <3> QED BY <3>1 DEF ResultStep
  <2>3. (\/ Scan \/ Dispatch \/ Attach \/ Inspect \/ Term \/ Kill \/ Forget \/ Decide \/ Await
         \/ Save \/ KillPass \/ Tracker) => job' = job
    BY DEF Scan, Dispatch, Attach, Inspect, Term, Kill, Forget, Decide, Await, Save, KillPass, Tracker
  <2>4. CASE RequestCancel
    <3>1. pass.at \in {"cancel", "revoke"} /\ job' = [job EXCEPT ![Job].cancel = TRUE]
      BY <2>4 DEF RequestCancel
    <3>2. Job \in Attempts
      BY <2>1, <3>1, JobAssumption, EntryFacts DEF Judged, Reading
    <3> QED BY <2>1, <3>1, <3>2, CancelFacts
  <2>5. CASE Recover
    <3>1. CASE UNCHANGED job
      BY <3>1
    <3>2. CASE Writable(Job) /\ \E file : Put(Job, file)
      <4>1. Job \in Attempts /\ a # Job
        BY <2>1, <2>5, <3>2, JobAssumption, EntryFacts DEF Judged, Reading, Recover, At, Writable
      <4> QED BY <2>1, <3>2, <4>1, PutFacts
    <3> QED BY <2>5, <3>1, <3>2 DEF Recover
  <2>6. CASE MakeDir \/ Record
    <3> DEFINE b == Entry.attempt + 1
    <3>1. job' = job \/ (/\ Discovered(Entry) = {} /\ pass.at \in {"start", "record"}
                         /\ \E r \in {"directory", "launching"} :
                              job' = [job EXCEPT ![b].file.result = r])
      <4>1. Record => Discovered(Entry) = {} /\ pass.at = "record" /\ job' = [job EXCEPT ![b].file.result = "launching"]
        BY <2>1 DEF Record, Judged, At
      <4>2. MakeDir => job' = job \/ (/\ Existing(Entry) = {} /\ pass.at = "start"
                                      /\ job' = [job EXCEPT ![b].file.result = "directory"])
        BY DEF MakeDir, At
      <4>3. Existing(Entry) = {} => Discovered(Entry) = {}
        BY DEF Existing
      <4> QED BY <2>6, <4>1, <4>2, <4>3
    <3>2. CASE /\ Discovered(Entry) = {} /\ pass.at \in {"start", "record"}
               /\ \E r \in {"directory", "launching"} :
                              job' = [job EXCEPT ![b].file.result = r]
      <4>1. b \in Attempts /\ ~job[b].file.revoked /\ ~Terminal(job[b].file)
        BY <2>1, <3>2, JobAssumption, Fresh
      <4> HIDE DEF b
      <4>2. \A c \in Attempts \ {b} : job'[c] = job[c]
        BY <2>1, <3>2, <4>1, ResultFacts
      <4> QED BY <4>1, <4>2
    <3> QED BY <3>1, <3>2
  <2>7. CASE Spawn
    <3>1. Job \in Attempts /\ job[Job].file.result = "launching"
      BY <2>1, <2>7, JobAssumption, EntryFacts DEF Judged, Reading, Spawn, At
    <3>2. job' = job \/ \E file : Put(Job, file)
      BY <2>7 DEF Spawn
    <3>3. a # Job
      BY <3>1 DEF Terminal
    <3> QED BY <2>1, <3>1, <3>2, <3>3, PutFacts
  <2>8. PassStep => job'[a].file = job[a].file
    BY <2>3, <2>4, <2>5, <2>6, <2>7 DEF PassStep
  <2> QED BY <2>2, <2>3, <2>8, Actors
<1> QED BY <1>1, Invariance, PTL DEF Spec, ResultsStay

=============================================================================
