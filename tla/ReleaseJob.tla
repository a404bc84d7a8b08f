----------------------------- MODULE ReleaseJob -----------------------------
(***************************************************************************)
(* bin/pm-agent.py and bin/release-worker.py: the production release of    *)
(* one registered run as a detached job.  A pass of the supervisor starts  *)
(* a worker for the next attempt and goes; later passes find the job       *)
(* through its protected directory, poll it, cancel it when the run loses  *)
(* its authority, recover it when its heartbeat is old, and account for    *)
(* it in the run registry.  The worker puts the release command behind a   *)
(* guardian that waits for a decision on a pipe.  Passes and workers are   *)
(* killed anywhere; a worker may also only be held up.                     *)
(*                                                                         *)
(* An action is the code between two durable effects.  A read of a job     *)
(* directory, the replacement of a result under its lock, and a command of *)
(* process-lifecycle.py, which holds the records lock, are one step each.  *)
(***************************************************************************)
EXTENDS Naturals, FiniteSets

CONSTANTS MaxAttempt,  \* bound: release attempts of the run
          Budgets      \* the scenarios: how often each fault strikes

Attempts == 1 .. MaxAttempt

ASSUME JobAssumption == MaxAttempt \in Nat \ {0}

VARIABLES tracker,   \* whether the run is eligible, and its tasks integrated
          registry,  \* state.json: the entry of the run
          pass,      \* the supervisor pass: place, its copy of the entry, what it read
          job,       \* each job directory: result.json and cancel.json
          life,      \* the lifecycle record of each job
          worker,    \* the worker of each attempt: place, and the end it will report
          guardian,  \* the guardian group of the worker
          command,   \* the release command under it
          budget     \* the scenario: faults left

procVars == <<worker, guardian, command>>
vars == <<tracker, registry, pass, job, life, procVars, budget>>

Spend(fault) == budget[fault] > 0 /\ budget' = [budget EXCEPT ![fault] = @ - 1]

------------------------------------------------------------------------------
NoJob == [result |-> "none", started |-> FALSE, pid |-> FALSE, revoked |-> FALSE,
          ok |-> FALSE]
NoFile == [file |-> NoJob, cancel |-> FALSE, aged |-> FALSE]
NewRun == [state |-> "running", job |-> 0, attempt |-> 0, last |-> 0]
Resting == [at |-> "idle", entry |-> NewRun, eligible |-> FALSE, integrated |-> FALSE,
            snap |-> NoJob, held |-> FALSE]
Off == [at |-> "off", end |-> ""]

Init ==
    /\ tracker = [eligible |-> TRUE, integrated |-> TRUE]
    /\ registry = NewRun
    /\ pass = Resting
    /\ job = [a \in Attempts |-> NoFile]
    /\ life = [a \in Attempts |-> "none"]
    /\ worker = [a \in Attempts |-> [Off EXCEPT !.at = "new"]]
    /\ guardian = [a \in Attempts |-> "none"]
    /\ command = [a \in Attempts |-> "none"]
    /\ budget \in Budgets

------------------------------------------------------------------------------
(* What both programs see of a job. *)

Terminal(file) == file.result \in {"completed", "cancelled"}

\* A terminal result is never replaced: both writers check it under the directory lock.
Writable(a) == ~Terminal(job[a].file)

Put(a, file) == job' = [job EXCEPT ![a].file = file]

\* Mutant: the cancellation request is not looked at.
Read_ResultOnly(a) == job[a].file

\* read_release_job_result: a cancellation revokes also what was completed before it was seen.
Read(a) == [job[a].file EXCEPT !.revoked =
              @ \/ (job[a].file.result = "completed" /\ job[a].cancel)]

Recorded(a) == job[a].file.result \notin {"none", "directory"}

\* The group of a killed guardian is empty, its record dead.
Live(a) == life[a] = "background" /\ guardian[a] \in {"blocked", "open"}

\* SIGKILL to the group of a guardian, its command included.
Killed(a) == /\ guardian' = [guardian EXCEPT ![a] = "gone"]
             /\ command' = [command EXCEPT ![a] = IF @ = "running" THEN "killed" ELSE @]

------------------------------------------------------------------------------
(* The supervisor. *)

At(at) == pass.at = at
Goto(at) == pass' = [pass EXCEPT !.at = at]
Entry == pass.entry
Job == pass.entry.job
Snap == pass.snap

\* A MonitorError ends the reconciliation of the run, and the registry is saved. For a
\* run that is out of scope nothing catches it: the pass ends without saving.
Raise(entry) ==
    pass' = IF pass.eligible THEN [pass EXCEPT !.entry = entry, !.at = "save"] ELSE Resting

\* The run's authority is read anew in each pass; a paused run keeps the state it will
\* resume from, a deployed one is left alone.
Scan ==
    /\ At("idle")
    /\ registry.state # "deployed"
    /\ pass' = [Resting EXCEPT !.entry = registry, !.eligible = tracker.eligible,
                               !.at = IF tracker.eligible THEN "dispatch" ELSE "attach"]
    /\ UNCHANGED <<tracker, registry, job, life, procVars, budget>>

Dispatch ==
    /\ At("dispatch")
    /\ pass' = [pass EXCEPT !.integrated = tracker.integrated, !.at = "attach"]
    /\ UNCHANGED <<tracker, registry, job, life, procVars, budget>>

\* discover_release_job: what was recorded and not accounted for.
Discovered(entry) == {a \in Attempts : Recorded(a) /\ a > entry.last}
Existing(entry) == IF entry.job # 0 THEN {entry.job} ELSE Discovered(entry)

\* active_release_job, up to the judgement of the heartbeat.
Attach ==
    /\ At("attach")
    /\ LET found == Existing(Entry) IN
       \/ /\ found = {}
          /\ IF Entry.attempt > Entry.last THEN Raise(Entry)
             ELSE pass' = [pass EXCEPT !.at = "decide", !.snap = NoJob]
       \/ /\ Cardinality(found) > 1
          /\ Raise(Entry)
       \/ \E a \in found :
          /\ found = {a}
          /\ pass' = [pass EXCEPT
               !.entry = [Entry EXCEPT !.job = a,
                            !.attempt = IF a > Entry.attempt THEN a ELSE Entry.attempt],
               !.snap = Read(a),
               !.at = IF Terminal(job[a].file) THEN "inspect"
                         ELSE IF job[a].aged THEN "cancel" ELSE "decide"]
    /\ UNCHANGED <<tracker, registry, job, life, procVars, budget>>

\* request_release_job_cancel; the first request stays.
RequestCancel ==
    /\ pass.at \in {"cancel", "revoke"}
    /\ job' = [job EXCEPT ![Job].cancel = TRUE]
    /\ Goto(IF At("cancel") THEN "inspect" ELSE "save")
    /\ UNCHANGED <<tracker, registry, life, procVars, budget>>

\* Where stop_orphan_release_group returns to, and whether it holds the generation.
Stopped(held) ==
    pass' = [pass EXCEPT !.held = held,
                         !.at = IF ~Terminal(Snap) THEN "recover"
                                ELSE IF held THEN "forget" ELSE "decide"]

\* Mutant: a missing record is never trusted.
MissingIsSafe_Never == Terminal(Snap)

\* Without a record a job that cannot have started, or has ended, needs no stopping.
MissingIsSafe == ~Snap.started \/ Terminal(Snap)

\* The record must carry the PID that the result, read before, is anchored to.
Inspect ==
    /\ At("inspect")
    /\ \/ /\ life[Job] = "none"
          /\ IF MissingIsSafe THEN Stopped(FALSE) ELSE Raise(Entry)
       \/ /\ life[Job] # "none"
          /\ IF ~Snap.pid THEN Raise(Entry)
             ELSE IF Live(Job) THEN Goto("term") ELSE Stopped(TRUE)
    /\ UNCHANGED <<tracker, registry, job, life, procVars, budget>>

\* The record is gone while its generation is stopped: safe after a terminal result only.
Vanished ==
    /\ life[Job] = "none"
    /\ IF Terminal(Snap) THEN Stopped(FALSE) ELSE Raise(Entry)

\* The record, inspected again, is of a dead group or a tombstone.
SeenDead == life[Job] # "none" /\ ~Live(Job)

\* TERM reaches the command; guardian and containment ignore it. A dead leader is refused.
Term ==
    /\ At("term")
    /\ \/ Vanished /\ UNCHANGED command
       \/ SeenDead /\ Raise(Entry) /\ UNCHANGED command
       \/ /\ Live(Job)
          /\ Goto("grace")
          /\ \/ UNCHANGED command
             \/ command[Job] = "running" /\ command' = [command EXCEPT ![Job] = "failed"]
    /\ UNCHANGED <<tracker, registry, job, life, worker, guardian, budget>>

\* Mutant: the generation is retired and not killed.
Kill_RecordOnly ==
    /\ At("grace")
    /\ life' = [life EXCEPT ![Job] = "completed"]
    /\ Stopped(TRUE)
    /\ UNCHANGED <<tracker, registry, job, procVars, budget>>

\* After the grace: process-lifecycle.py kills the group and keeps a tombstone.
Kill ==
    /\ At("grace")
    /\ \/ Vanished /\ UNCHANGED <<life, guardian, command>>
       \/ /\ SeenDead
          /\ Stopped(TRUE) \/ Raise(Entry)
          /\ UNCHANGED <<life, guardian, command>>
       \/ /\ Live(Job)
          /\ Killed(Job)
          /\ life' = [life EXCEPT ![Job] = "completed"]
          /\ Stopped(TRUE)
    /\ UNCHANGED <<tracker, registry, job, worker, budget>>

\* recover_stale_release_job: the terminal result, from the result read before.
Recover ==
    /\ At("recover")
    /\ \/ /\ ~Writable(Job) /\ Raise(Entry) /\ UNCHANGED job
       \/ /\ Writable(Job)
          /\ LET file == [Snap EXCEPT
                            !.result = IF Snap.started THEN "completed" ELSE "cancelled",
                            !.revoked = Snap.started] IN
             /\ Put(Job, file)
             /\ pass' = [pass EXCEPT !.snap = file,
                           !.at = IF pass.held THEN "forget" ELSE "decide"]
    /\ UNCHANGED <<tracker, registry, life, procVars, budget>>

\* A live record is not forgotten; one that is gone already is.
Forget ==
    /\ At("forget")
    /\ IF Live(Job) THEN Raise(Entry) /\ UNCHANGED life
       ELSE life' = [life EXCEPT ![Job] = "none"] /\ Goto("decide")
    /\ UNCHANGED <<tracker, registry, job, procVars, budget>>

Outcome(authority) ==
    IF Snap.result = "cancelled" THEN "running"
    ELSE IF Snap.ok /\ ~Snap.revoked /\ authority THEN "deployed" ELSE "blocked"

Account(entry) ==
    IF entry.state = "blocked" THEN Raise(entry)
    ELSE pass' = [pass EXCEPT !.entry = entry, !.at = "save"]

\* finish_release_job: the job is accounted for, and what became of the attempt. An
\* approval still awaited (exit 4) leaves the run as a failure does.
Finish(authority) ==
    Account([Entry EXCEPT !.state = Outcome(authority), !.job = 0, !.last = Job])

\* What the pass does with the job, by the authority it read when it began.
Decide ==
    /\ At("decide")
    /\ LET valid == pass.eligible /\ pass.integrated
           begun == Snap.result # "none" IN
       \/ begun /\ Terminal(Snap) /\ Finish(valid)
       \/ begun /\ ~Terminal(Snap) /\ Goto(IF valid THEN "save" ELSE "revoke")
       \/ ~begun /\ Goto(IF valid /\ Entry.attempt < MaxAttempt THEN "start" ELSE "save")
    /\ UNCHANGED <<tracker, registry, job, life, procVars, budget>>

\* start_or_attach_release_job looks again for a job, then makes the directory.
MakeDir ==
    /\ At("start")
    /\ LET a == Entry.attempt + 1 IN
       IF Existing(Entry) # {} THEN Goto("attach") /\ UNCHANGED job
       ELSE /\ job' = [job EXCEPT ![a].file.result = "directory"]
            /\ Goto("record")
    /\ UNCHANGED <<tracker, registry, life, procVars, budget>>

Record ==
    /\ At("record")
    /\ LET a == Entry.attempt + 1 IN
       /\ job' = [job EXCEPT ![a].file.result = "launching"]
       /\ pass' = [pass EXCEPT !.entry.attempt = a, !.entry.job = a, !.at = "spawn"]
    /\ UNCHANGED <<tracker, registry, life, procVars, budget>>

\* The worker is a process of its own session; one that cannot be started has failed.
Spawn ==
    /\ At("spawn")
    /\ \/ /\ worker' = [worker EXCEPT ![Job].at = "begin"]
          /\ Goto("await")
          /\ UNCHANGED <<job, budget>>
       \/ /\ Spend("calls")
          /\ Put(Job, [job[Job].file EXCEPT !.result = "completed"])
          /\ Raise(Entry)
          /\ UNCHANGED worker
    /\ UNCHANGED <<tracker, registry, life, guardian, command>>

\* The result after the short wait; a launch that is overdue already is an error.
Await ==
    /\ At("await")
    /\ IF job[Job].file.result = "launching" /\ job[Job].aged
       THEN Raise(Entry)
       ELSE pass' = [pass EXCEPT !.snap = Read(Job), !.at = "decide"]
    /\ UNCHANGED <<tracker, registry, job, life, procVars, budget>>

\* The registry is replaced, and the pass ends.
Save ==
    /\ At("save")
    /\ registry' = Entry
    /\ pass' = Resting
    /\ UNCHANGED <<tracker, job, life, procVars, budget>>

\* Killed, it leaves its job, and its copy of the registry is gone.
KillPass ==
    /\ ~At("idle")
    /\ Spend("passes")
    /\ pass' = Resting
    /\ UNCHANGED <<tracker, registry, job, life, procVars>>

PassStep ==
    \/ Scan \/ Dispatch \/ Attach
    \/ RequestCancel \/ Inspect \/ Term \/ Kill \/ Recover \/ Forget
    \/ Decide \/ MakeDir \/ Record \/ Spawn \/ Await \/ Save

------------------------------------------------------------------------------
(* The worker: release-worker.py main. *)

File(a) == job[a].file
In(a, at) == worker[a].at = at
Move(a, at) == worker' = [worker EXCEPT ![a].at = at]
Exit(a) == worker' = [worker EXCEPT ![a] = Off]
EndAs(a, at, end) == worker' = [worker EXCEPT ![a].at = at, ![a].end = end]
supervisor == <<tracker, registry, pass>>

\* It publishes only over the untouched launch record.
Begin(a) ==
    /\ In(a, "begin")
    /\ IF File(a).result = "launching"
       THEN /\ job' = [job EXCEPT ![a].file.result = "running", ![a].aged = FALSE]
            /\ Move(a, "admit")
       ELSE Exit(a) /\ UNCHANGED job
    /\ UNCHANGED <<supervisor, life, guardian, command, budget>>

\* A cancellation seen at once ends it; else the team fence is awaited, for as long as it
\* takes, and the guardian started, which waits for its decision. Either may fail.
Admit(a) ==
    /\ In(a, "admit")
    /\ \/ /\ job[a].cancel
          /\ EndAs(a, "close", "cancelled")
          /\ UNCHANGED <<guardian, budget>>
       \/ /\ Spend("calls")
          /\ EndAs(a, "close", "failed")
          /\ UNCHANGED guardian
       \/ /\ Move(a, "anchor")
          /\ guardian' = [guardian EXCEPT ![a] = "blocked"]
          /\ UNCHANGED budget
    /\ UNCHANGED <<supervisor, job, life, command>>

\* The guardian's PID is durable before its record is. The heartbeat is not renewed.
Anchor(a) ==
    /\ In(a, "anchor")
    /\ IF Writable(a)
       THEN /\ Put(a, [File(a) EXCEPT !.pid = TRUE])
            /\ Move(a, "register")
            /\ UNCHANGED <<guardian, command>>
       ELSE Killed(a) /\ Exit(a) /\ UNCHANGED job
    /\ UNCHANGED <<supervisor, life, budget>>

\* When its answer is lost, the guardian is killed as an unregistered one. A record that
\* cannot be read leaves the job running: the guardian dies with the worker's pipe.
Register(a) ==
    /\ In(a, "register")
    /\ \/ /\ life' = [life EXCEPT ![a] = "background"]
          /\ Move(a, "recheck")
          /\ UNCHANGED <<job, guardian, command, budget>>
       \/ /\ Spend("calls")
          /\ life' \in {life, [life EXCEPT ![a] = "background"]}
          /\ Killed(a)
          /\ EndAs(a, "close", "failed")
          /\ UNCHANGED job
       \/ /\ Spend("calls")
          /\ life' = [life EXCEPT ![a] = "background"]
          /\ Killed(a) /\ Exit(a)
          /\ job' = [job EXCEPT ![a].aged = @ /\ ~Writable(a)]
    /\ UNCHANGED supervisor

\* A cancellation requested before the registration is seen here at the latest.
Recheck(a) ==
    /\ In(a, "recheck")
    /\ IF job[a].cancel THEN EndAs(a, "stop", "cancelled") ELSE Move(a, "may")
    /\ UNCHANGED <<supervisor, job, life, guardian, command, budget>>

\* That it may have started is durable before the guardian is told to go.
May(a) ==
    /\ In(a, "may")
    /\ IF Writable(a) THEN Put(a, [File(a) EXCEPT !.started = TRUE]) /\ Move(a, "go")
       ELSE EndAs(a, "stop", "beaten") /\ UNCHANGED job
    /\ UNCHANGED <<supervisor, life, guardian, command, budget>>

Go(a) ==
    /\ In(a, "go")
    /\ \/ /\ guardian[a] = "blocked"
          /\ guardian' = [guardian EXCEPT ![a] = "open"]
          /\ command' = [command EXCEPT ![a] = "running"]
          /\ Move(a, "loop")
       \/ /\ guardian[a] = "gone"
          /\ EndAs(a, "stop", "failed")
          /\ UNCHANGED <<guardian, command>>
    /\ UNCHANGED <<supervisor, job, life, budget>>

\* One round: a cancellation, the command's end, the timeout, or a heartbeat.
Watch(a) ==
    /\ In(a, "loop")
    /\ \/ job[a].cancel /\ EndAs(a, "stop", "revoked")
       \/ ~job[a].cancel /\ command[a] = "ok" /\ EndAs(a, "stop", "ok")
       \/ ~job[a].cancel /\ command[a] \in {"failed", "killed"} /\ EndAs(a, "stop", "failed")
    /\ UNCHANGED <<supervisor, job, life, guardian, command, budget>>

Overdue(a) ==
    /\ In(a, "loop")
    /\ ~job[a].cancel
    /\ command[a] = "running"
    /\ EndAs(a, "stop", "failed")
    /\ UNCHANGED <<supervisor, job, life, guardian, command, budget>>

Heartbeat(a) ==
    /\ In(a, "loop")
    /\ ~job[a].cancel
    /\ \/ /\ Writable(a)
          /\ job' = [job EXCEPT ![a].aged = FALSE]
          /\ UNCHANGED worker
       \/ ~Writable(a) /\ EndAs(a, "stop", "beaten") /\ UNCHANGED job
    /\ UNCHANGED <<supervisor, life, guardian, command, budget>>

\* terminate_release_generation; a generation that cannot be shown dead leaves the job
\* running, for the supervisor to recover.
Stop(a) ==
    /\ In(a, "stop")
    /\ LET sure == life[a] = "completed" \/ Live(a)
           beaten == worker[a].end = "beaten" IN
       \/ /\ sure
          /\ Killed(a)
          /\ life' = [life EXCEPT ![a] = "completed"]
          /\ Move(a, IF beaten THEN "retire" ELSE "final")
          /\ UNCHANGED job
       \/ /\ ~sure
          /\ IF beaten \/ ~Writable(a) THEN UNCHANGED job
             ELSE job' = [job EXCEPT ![a].aged = FALSE]
          /\ Exit(a)
          /\ UNCHANGED <<life, guardian, command>>
    /\ UNCHANGED <<supervisor, budget>>

\* The terminal result, unless another writer has won.
Final(a) ==
    /\ worker[a].at \in {"final", "close"}
    /\ IF Writable(a)
       THEN /\ LET end == worker[a].end IN
               Put(a, [File(a) EXCEPT
                             !.result = IF end = "cancelled" THEN "cancelled" ELSE "completed",
                             !.ok = end = "ok", !.revoked = end = "revoked"])
            /\ IF In(a, "final") THEN Move(a, "retire") ELSE Exit(a)
       ELSE Exit(a) /\ UNCHANGED job
    /\ UNCHANGED <<supervisor, life, guardian, command, budget>>

Retire(a) ==
    /\ In(a, "retire")
    /\ life' = IF Live(a) THEN life ELSE [life EXCEPT ![a] = "none"]
    /\ Exit(a)
    /\ UNCHANGED <<supervisor, job, guardian, command, budget>>

\* A guardian that still waits reads the end of its pipe and kills its group.
KillWorker(a) ==
    /\ worker[a].at \notin {"new", "off"}
    /\ Spend("workers")
    /\ Exit(a)
    /\ IF guardian[a] = "blocked" THEN Killed(a) ELSE UNCHANGED <<guardian, command>>
    /\ UNCHANGED <<supervisor, job, life>>

WorkerStep(a) ==
    \/ Begin(a) \/ Admit(a) \/ Anchor(a) \/ Register(a) \/ Recheck(a) \/ May(a) \/ Go(a)
    \/ Watch(a) \/ Overdue(a) \/ Stop(a) \/ Final(a) \/ Retire(a)

------------------------------------------------------------------------------
(* Everything else. *)

CommandEnds(a) ==
    /\ command[a] = "running"
    /\ \E end \in {"ok", "failed"} : command' = [command EXCEPT ![a] = end]
    /\ UNCHANGED <<supervisor, job, life, worker, guardian, budget>>

\* The time since the last heartbeat passes the limit: nobody renews it, or the
\* process that would is held up.
Age(a) ==
    /\ Recorded(a) /\ ~Terminal(job[a].file) /\ ~job[a].aged
    /\ job' = [job EXCEPT ![a].aged = TRUE]
    /\ IF worker[a].at \notin {"new", "off"} \/ (At("spawn") /\ Job = a)
       THEN Spend("lags") ELSE UNCHANGED budget
    /\ UNCHANGED <<supervisor, life, procVars>>

\* The tracker: the feature leaves its scope or comes back; a task is reopened.
Tracker ==
    /\ Spend("flips")
    /\ \E what \in {"eligible", "integrated"} : tracker' = [tracker EXCEPT ![what] = ~@]
    /\ UNCHANGED <<registry, pass, job, life, procVars>>

Next ==
    \/ PassStep \/ KillPass
    \/ \E a \in Attempts : \/ WorkerStep(a) \/ Heartbeat(a) \/ KillWorker(a)
                          \/ CommandEnds(a) \/ Age(a)
    \/ Tracker

\* Passes are scheduled for ever, a worker runs until it ends, and time passes; nothing
\* makes a release command end.
Fairness ==
    /\ WF_vars(PassStep)
    /\ \A a \in Attempts : WF_vars(WorkerStep(a)) /\ WF_vars(Age(a) /\ UNCHANGED budget)

Spec == Init /\ [][Next]_vars /\ Fairness

------------------------------------------------------------------------------
\* The results that are accepted, the entries of the registry, and the processes of a job.
Results == {r \in [result : {"none", "directory", "launching", "running", "completed", "cancelled"},
                   started : BOOLEAN, pid : BOOLEAN, revoked : BOOLEAN, ok : BOOLEAN] :
              r.revoked => r.result = "completed"}
Entries == [state : {"running", "blocked", "deployed"}, job : 0 .. MaxAttempt,
            attempt : 0 .. MaxAttempt, last : 0 .. MaxAttempt]
Guardians == {"none", "blocked", "open", "gone"}
Commands == {"none", "running", "ok", "failed", "killed"}

\* Every variable keeps its shape, and the registry never accounts for an attempt that
\* it has not counted (pm-agent.py, release-worker.py).
TypeOK ==
    /\ tracker \in [eligible : BOOLEAN, integrated : BOOLEAN]
    /\ registry \in Entries
    /\ registry.last <= registry.attempt
    /\ registry.job # 0 => registry.job = registry.attempt /\ registry.last < registry.job
    /\ pass.entry \in Entries /\ pass.snap \in Results
    /\ \A a \in Attempts : job[a].file \in Results
    /\ \A a \in Attempts : /\ life[a] \in {"none", "background", "completed"}
                          /\ guardian[a] \in Guardians
                          /\ command[a] \in Commands

\* No release command outlives its job: while one runs, no other does, and the result of
\* its attempt is open and says that it may have started, through kills of the pass, of the
\* worker and of both, and the races between a worker and the pass that recovers its job
\* (pm-agent.py:2452-2611, release-worker.py:1056-1060).
NoOrphan ==
    /\ TypeOK
    /\ \A a \in Attempts : command[a] = "running" =>
        /\ ~Terminal(job[a].file) /\ job[a].file.started
        /\ \A b \in Attempts \ {a} : command[b] # "running"

\* A run is recorded as deployed only when the release command of its last attempt ended
\* well and no pass had asked for its cancellation, in whatever order the request, the end
\* of the command and the result came, and whichever pass was killed (pm-agent.py:2090-2118).
DeployedDone ==
    registry.state = "deployed" =>
        /\ ~job[registry.last].cancel
        /\ command[registry.last] = "ok"

\* A terminal result is final: the worker that lost liveness and the pass that recovered
\* its job may both write, and the later one never replaces the earlier (pm-agent.py:1984,
\* release-worker.py:440).
ResultsStay ==
    [][\A a \in Attempts : Terminal(job[a].file) => job'[a].file = job[a].file]_vars

\* Every recorded job is accounted for, once the run keeps its eligibility: no kill, lag or
\* lost answer leaves a job that every later pass refuses (pm-agent.py:2614-2646).
JobsSettle ==
    <>[]tracker.eligible =>
        \A a \in Attempts : Recorded(a) ~> registry.last >= a

\* What reference/automation.md:414 says: an attempt is recorded as safely cancelled only
\* if its release command was never started.
SafeCancel ==
    \A a \in Attempts : command[a] # "none" => job[a].file.result # "cancelled"
=============================================================================
