# startup-factory: specifications, model checking and proofs

startup-factory runs teams of coding agents against an issue tracker. The agents
only prepare work: deterministic scripts and small Python programs under `bin/`
claim tasks, publish what agents write, merge reviewed branches, release features
and move tasks. Each of them must survive being killed at any point, being run
twice, and a human or a producer acting between two of its steps. The modules here
model those programs, the runs check them with TLC, and TLAPS checks the theorems.

## 1. The system

| Component | State it keeps | Operations | What makes it hard | What makes it correct |
|---|---|---|---|---|
| Integrator, `integrate-task.sh` | preparation, transaction, feature branch, MERGE_HEAD | prepare, load, merge, validate, commit, record, archive | killed between two effects; the broker, other integrations and humans act between its checks and its commit | an approved round lands once, on its base, under a grant, and is recorded |
| Integration broker, `finalize-integrations.sh` | grants, transaction phases, recoveries, lock directories | authorize, finalize, revert late findings, clean up | two starters, stale locks, findings at any time, tracker writes before phase writes | the phase tells the truth, even with two brokers inside; a recorded integration is completed or superseded |
| Durable outbox, `submit-artifact.sh`, `process-outbox.sh` | pending/done/failed entries, deliveries, publish bodies, locks | sign, enqueue, deliver, reject | killed anywhere; attempts, holds and statuses change between check and effect | posted once; nothing moves a held task or an attempt that is over |
| Capabilities, `outbox_capability.py` | records, active pointers, tombstones, admissions | mint, sign, revoke, locked tracker effect | several files per operation, one broker-wide lock | a fenced generation admits nothing; an admitted package drains once |
| Task holds, `task-hold.py` | hold registry and its protected copy | sync, check, authorize-claim | human moves at any time | no worker runs beside a hold |
| Dispatcher, `dispatch.sh`, `dispatch-plan.py`, `runtime-state.py` | snapshot, claims, executions | one pass: sync, brokers, stops, controls, plan, claims, launches | a pass killed without its launcher, a snapshot that ages | one worker per task, under a claim the tracker knows |
| Launcher, `launch-team.sh` | process records, worktrees | start, stop, restart, recover | starters and stoppers race; what is forked outlives its parent | one generation of a role; no work is lost |
| Lane lock, `launch-lane-lock.py` | flocks held by child processes, barriers | acquire, release | holders outlive or precede their parents | a stop excludes starts and is not starved |
| Restart policy, `restart-policy.py` | attempts, control receipts, breaker | authorize, check, complete | replays, circuit breaker | a control counts once |
| Worker control, `worker-control.py`, `control-grant.py` | control outbox, protected results | request, reconcile, retire results | crash between journal, signal and result | a control signals only what it named, and is answered once |
| Quarantine, `quarantine-attempt.py` | receipts of a moved worktree | inspect, prepare, move, finalize | a kill between any two | uncommitted work is never deleted |
| PM agent and worker, `pm-agent.py`, `release-worker.py` | run registry, job directories, lifecycle records | dispatch, poll, cancel, recover, settle | detached processes, old heartbeats, lost answers | no command outlives its job; only a finished job is deployed |
| Feature release, `release-feature.py` | release transaction, target record, approvals | accept, plan, approve, apply, verify, roll back | production effects with unknown outcome | the target has one owner; one apply per approval |
| Lineage migration, `lineage-migration.py` | request queue, receipts, backup, the execution record | stage, validate, displace, install, roll back | crash between renames, expiry, several requests | the record is never lost or put back over a newer one |
| Installers, `installer.py`, `update-installed-skill.sh` | install directory, stage, backup, lock | install, update | two programs, two kinds of lock, one directory | the project's files survive; no older release replaces a newer |
| Tracker, `tracker-ops.sh` | the external tracker | export, claim, state, comment-once, integrate | no compare-and-set | legal transitions only |
| Evidence, policies, readiness, profile, CLI, packaging | documents | validate, build | one process at a time | predicates over documents |

The programs interact through the tracker (statuses and comments, which humans
change too), files under the team's workspace (journals, locks, outboxes), Git (the
feature checkout and the task branches), and processes with their records. The
dispatcher runs the brokers, in the order finalize-integrations, process-outbox,
before its claims, and starts the launcher for what it claims; the integrator is an
agent role that runs its script on its own; `release-feature.py` starts the
integration broker too, and in `TRACKER_WRITERS=all` mode each publication starts an
outbox broker on its own entry. The PM agent starts release workers and returns.

## 2. Modules

The granularity is the same everywhere: one action is the code between two durable
effects, or between a check and the effect it guards where another process can act
in between. What the code does under a lock that all its readers take is one step.
A process that is killed loses its program counter and keeps its files. A message, a
digest or a document is its identity: what is current compares equal.

**Integration.** `Delivery` declares the shared state (Git, tracker, journals) and
the checks both scripts make. `Integrator` is `integrate-task.sh`, from `Prepare` and
`Load` over `EstablishMerge`, `ValidateMerge`, `FenceCommit`, `CommitMerge` to
`RecordTransaction` and `ArchivePreparation`, and the restarts of each. `Finalizer` is
`finalize-integrations.sh` for any set of brokers: its pass over preparations and
transactions, `finalize_one` with its phases and its lock (a directory and an owner
file, made and taken over in separate steps), and the recovery of late findings.
`Integration` composes them with producers, reviewers, a human who blocks and
unblocks, the dispatcher's claims, and kills.

**Outbox.** `TaskHold` is what a locked sync makes of one task's hold, as operators.
`Outbox` is the broker loop of `process-outbox.sh` for any set of brokers, with
`submit-artifact.sh` (`Sign`, `Enqueue`) and the world around it. Its program counters
are the places between durable effects: the lock directory and its owner file, the
publish body and the record that names it, the comment and its phase, the move and
its phase, the event, the receipt, the archive. Three kinds of artifact stand for all
markers: a task role's with a status change, a gate role's with a status change, and a
gate role's comment. The broker authority lock is taken for one step by mint, revoke,
sign, stage and sync, and held across hold check and tracker write by
`locked_tracker_effect` (`authority`). A killed broker takes the tracker child of its
effect along; that the child outlives the shell is the kill right after the effect.
`Publication` is what the outbox promises of an artifact - posted, then moved, then
announced, then certified, and settled once - and the refinement mapping is
`Published` in `Outbox`.

**Launch lanes.** `LaneLock` has the launcher's command and the holder process that
owns each of its locks: the turnstile, the team fence (shared or exclusive) and the
task's lane, with the pipes by which a holder learns that its parent is gone, and a
kill of either. `TeamFence` is the fence as its commands see it: who waits at the
turnstile and who is inside.

**One role.** `RoleControl` composes the launcher's start, stop, `restart-role` and
`retire-role` on one role with the pass of `worker-control.py` that runs authenticated
requests through them, `restart-policy.py` and its breaker, and the lifecycle record.
A launcher outlives the pass that started it; a forked process registers on its own
(`Register`) or gives up at its barrier (`BarrierTimeout`). A generation is the
`createdAt` of a launch. The lane is one variable, which `LaneLock` justifies.

**One task's attempts.** `Attempts` is a dispatcher pass (`Observe`, `Sync`, `Stop`,
`Control`, `Plan`, `Preflight`, the claim's archive, evacuation and publication,
`PostReceipt`, `Assign`, `SetState`, then the launch) beside launchers that recover,
restart or start a worker: they retire the worktree of the attempt before, remove it or
quarantine it, make the next one, write the packet, mint its capability, and spawn. A
pass acts on the snapshot it observed (`pass.seen`). People find faults, block, return
and resolve the task; workers edit, submit, quit and die.

**Release.** `ReleaseJob` is the supervisor pass of `pm-agent.py` over one run and the
worker of `release-worker.py` with its guardian: dispatch, the PID anchor and the
registration, the decision that lets the command start, the heartbeat, cancellation,
recovery, and the accounting of the outcome. `Release` is a pass of
`release-feature.py` over any number of features of one target: product acceptance,
CI, attestation or manifest and approval, policy, observation of the provider, the
consumption of the authority (lease, marker, second validation), apply, verification,
rollback and close. Each step of the pass reads the world again where the code does.

**Migration.** `LineageMigration` is the reconciliation of the queue, a request's
transaction, the rejection and archive of requests. `Plans` chooses from the receipts and
the record what is left to be done - fresh work, recovery, an installed target, repair,
replay, abort or rejection -, `First` where that begins, and the actions of `Transact` are
the durable effects in the order of the code, each naming the next (`broker.at`). Expiry,
changed evidence, staging, holds and unlocked writes go on beside it. The code compares
the record, renames it and compares what it has moved in three steps (`Compare`,
`Evacuate`, `Confirm`; `Read`, `Displace`, `Reinstall`), and a write may fall between any
two; `meddled` remembers it, with the other windows that the code leaves open.

**Installation.** `Installer` has the two updaters of an installed skill with the
system calls of their locks, admission, the stage that preserves the project's files,
the swap by two renames, its undo, and kills.

The modules `MCIntegration`, `MCOutbox`, `MCRoleControl`, `MCAttempts`, `MCReleaseJob`,
`MCRelease`, `MCLineageMigration` and `MCInstaller` only name instances: scenarios are
records of how often each fault strikes, and the initial state picks one.
The modules named `...Proofs` hold the theorems of section 4 and nothing that a run uses;
`LockProofs` holds those of `LaneLock` and of `Installer`, whose names are disjoint so that
one module can extend both. An operator marked as a mutant is a plausible mistake in the
definition after it; no specification uses it, and replacing the definition by it violates
a property.

## 3. Runs

| Run | Checks | Bounds |
|---|---|---|
| `OneTask` | `LandedIsJournaled`, `OnlyAuthorizedLands`, `LandsOnce`, `TerminalBacked`, `RecordedCompletes`, `ApprovedLands` | one task, two attempts, two heads, four commits (merge, revert, merge, revert), one kill of each script (or a `read-tree` that fails, or a retrospective that cannot be recorded), one producer edit, one block, one finding |
| `Shared` | `RecordedOnPreparedBase`, `RevertedOnce`, `PhasesEarned` | two interchangeable tasks that race for the branch, the dispatcher's broker and the release's, three commits, one kill of a broker, one finding |
| `Outbox` | `JournalTruth`, `EffectsUnheld`, `RequestsMoveTheirAttempt`, `ApprovalsAreCurrent`, `RejectedForCause` | a request, an approval and the request of the next attempt; one block, one new head, one kill before or between any two of the delivery's durable effects |
| `OutboxDrains` | `RefinesPublication`, `Drains` | two brokers, a request and an approval, one outage, one kill that leaves a lock with its owner |
| `LaneLock` | `WorkExcludes`, `RefinesFence`, `StopServed` | three commands, one lane, one command or holder killed |
| `RoleControl` | `OneGeneration`, `SignalsAllowed`, `ResultIsFinal`, `RequestsSettle` | two controls, two launchers at a time, three generations; one automatic restart before the breaker, one retained result; four scenarios |
| `Attempts` | `OneWorker`, `HeldIsFenced`, `RestartsAreCounted`, `WorkKept`, `Delivers` | five attempts, two launchers; every two mishaps, and four scenarios of three |
| `ReleaseJob` | `NoOrphan`, `DeployedDone`, `JobsSettle` | two attempts, seven scenarios of one or two faults |
| `Release` | `TargetFenced`, `OneApplyPerApproval`, `OutcomeServes`, `ReleaseEnds` | two features of two commits each, both modes, six scenarios of one or two faults |
| `LineageMigration` | `NothingLost`, `NoRollback`, `Restored` | two names, each staged up to twice, batches of two, two kills, two writes, one hold |
| `Installer` | `ProjectSurvives`, `NoLoneDowngrade` | three updates of either kind over every initial state, two edits, one failing effect, one kill |
| `LockUnlinked` | `NoDowngrade`, violated | three CLI updates, no faults |

Why these bounds are enough. A second task, broker, launcher or attempt is where
sharing, takeover and staleness begin, and a restart starts from durable state alone:
the first kill can leave each such state, and a second one meets nothing new unless it
strikes the recovery of the first, which the scenarios with two kills or a kill and
another mishap contain. Two commits of a feature, or two names of a migration, are one that
is current and one that is not. Three installers are needed since one must hold a lock
that has lost its name while another takes its successor. `MaxAttempt`, `MaxGen`,
`MaxCommits`, `MaxHead`, `LastCommit`, `MaxEvidence` and `MaxRequests` bound counters in
guards: the actions that would exceed them are disabled, and where an operation that
reaches the bound would still end, it ends as if refused.

`Installer`, `LockUnlinked` and `Shared` use symmetry: no step prefers one updater, or
one task, to another, and these runs check no liveness.

Deadlock is checked in `OneTask`, `Shared` and `LineageMigration`, where some process
always has a step. In the others the system may stop: when all is delivered, released
or answered and nobody asks for more, and where a worker or an updater is run once.

Type invariants are conjuncts of the first property of each module that a run checks.

### What the code does not keep

`LockUnlinked` ends in a counterexample: `_parent_lock` unlinks its lock file after it
has given the lock back, so an updater that opened the file before holds a lock that no
name refers to, a third locks a new file, and the older version may win.

The modules show more. Each row is one definition, the instance on which TLC finds it
violated, and what happens. For the integration, what is not named is one task, one
broker, one grant, one attempt, one head, two commits and no interference, and
`RecordedCompletes` and `ApprovedLands` are taken without their disjunct `Disturbed`;
for the outbox one request, one broker, and no interference; for the other modules the
constants of their run.

| Definition | Instance | What happens |
|---|---|---|
| `RecordedCompletes` | one broker kill | killed after the terminal move and before its phase: retries insist on a task in review (`finalize-integrations.sh:1373`; `team-roles.md:146` promises the retry) |
| `RecordedCompletes` | one integrator kill | killed between the transaction and the archive of its preparation: neither script goes on (`integrate-task.sh:719`) |
| `RecordedCompletes` | two tasks, three commits | two preparations on one base: the one that lost stops every later pass (`integrate-task.sh:463`; `integrator.md:78` drains the queue in one boot) |
| `RecordedCompletes` | two grants | a re-grant while the merge is under way: the archived grant is not the commit's |
| `ApprovedLands` | one integrator kill | killed between merge and index: the restart does not know its merge (`integrate-task.sh:569`) |
| `LateFindingsSupersede` | two attempts, one finding | `dispatch_once` on the left of `\|\|` goes on after a broker failed: a task is claimed whose transaction is not yet superseded (`dispatch.sh:790`) |
| `LandedFindingsReverted` | one finding | findings between transaction and archive: what landed is not reverted (`integrate-task.sh:716`) |
| `StoppedMergeAborted` | one block | the abort after a failed hold check is unreachable (`integrate-task.sh:586`) |
| `RevalidationFences` | two attempts and heads, one producer edit | the second validation's failure is lost in a command substitution, and the tracker is moved (`finalize-integrations.sh:1369`) |
| `CommittedOnPreparedBase` | two tasks, four commits, one finding | the merge is committed on a HEAD that has moved (`integrate-task.sh:610`) |
| `OneFinalizer` | two brokers, one broker kill | two takeovers of one stale transaction lock: the second `rm` and `rmdir` remove the first one's new lock (`finalize-integrations.sh:1352`) |
| `TerminalBacked` | two brokers, attempts, heads and findings, four commits | of two brokers that recover one transaction the late one moves the reworked task: `supersede_one` takes no lock (`finalize-integrations.sh:525`) |
| `Drains` | `CrashAt = {"own"}`, one kill | an outbox lock directory without an owner is live for ever (`process-outbox.sh:1380`) |
| `Drains` | `TwoFindings`, two attempts | findings posted after the next claim ask for an illegal move: each pass ends there, before the entries behind (`process-outbox.sh:1520`) |
| `RejectedForCause` without `HalfDone` | `CrashAt` one of `bind`, `receipt`, `archive`, one kill | the restart finds its own file, or its own receipt or event, and rejects the artifact (`process-outbox.sh:1183`, `1081`) |
| `PublishedNotRejected` | `CrashAt = {"receipt"}`, one kill | killed before the receipt, then the worker exits: rejected although published |
| `PostedNotRejected` | one block | a block after the comment: rejected, and no retry, which the comment at `process-outbox.sh:1526` promises |
| `RejectedForCause` without `HalfDone` | two brokers, one block | of two brokers the late one finds the delivery published and its producer gone (`process-outbox.sh:1081`) |
| `ApprovalsAreCurrent` | `RequestApprovalRequest`, two brokers, two attempts, one block | a direct broker posts the next attempt's request between the other's comparison and its comment (`process-outbox.sh:1503`) |
| `RequestsMoveTheirAttempt` | two brokers, two attempts, one block | the next attempt is claimed between a direct broker's last check and its move |
| `OneReplacement` | `Scenario(1, 0, 1, 0, 2)` | the launcher dies between launch and completion receipt, the replacement is stopped: the replay makes a second one (`restart-policy.py:261`) |
| `OneWorker` without `late` | an orphan, findings | a launcher that outlived its pass starts its worker beside the next attempt's (`launch-team.sh:3428`); with an edit that worker's changes are lost (`WorkKept` without `late`); so too with two orphans and a hold |
| `ResumesAreClaimed` | `TwoHolds` | a task held again between resume and claim refuses each later claim (`runtime-state.py:1811` against `dispatch.md:166`) |
| `Delivers` | `KeepsAssignee = TRUE`, a kill of pass and launcher | killed between assignee and state: the planner skips an assigned task (`dispatch.md:136`) |
| `SafeCancel` | one worker held up | a worker taken for dead registers and goes on after its job was settled (`pm-agent.py:2582` against `release-worker.py:1056` and `automation.md:414`) |
| `JobsSettle` | a kill of the pass, a worker held up | the recovered result names no PID, the worker registers after it: each pass refuses record and result (`pm-agent.py:2576`) |
| `OwnerInFlight` | `KillAndCommit` | a killed pass leaves the target to a transaction that a newer commit supersedes: no later release can have it (`release-feature.py:1486` against `deployment.md:636`) |
| `NothingLost` without `meddled` | one write | written after it was compared and before it is moved, or while another process' record is moved away: the record is displaced, the request deferred, and the same pass plans the task anew (`lineage-migration.py:2291`, `2308`; `dispatch-plan.py:919`) |
| `NothingLost` without `meddled` | evidence changes between the two looks at it | the request is deferred with the record away |
| `RejectionFrees` | that of the run | killed after its receipt, then expired: the request is rejected, and its receipt stays in the way of the next one under the name (`lineage-migration.py:2919`) |
| `NothingLost`, `NoRollback` without `meddled` | `MaxBatch = 1` | a request killed after its receipt waits for a later batch; meanwhile the planner finds no record and starts the task anew, or claims, and the request then puts the record back over that claim |
| `NoRollback` without `meddled` | one write | the write makes a repair fail between its two renames; another request repairs the record, the planner claims, and the first repair is replayed over that claim (`lineage-migration.py:2395`, `2408`) |
| `ProjectSurvives` with every edit in `kept` | that of the run | an edit between the CLI's stage and its swap, or the script's last look and its, is gone (`installer.py:1197-1203`) |
| `ProjectSurvives` without `Nameless`, or without `~met` | that of the run | two updaters are at work on one install directory, and the last one's stage is without an edit that the first preserved |

`Delivers` promises the review after a single mishap. With two, `<>[](tracker.status =
"review")` fails, always because what stands still waits for an operator: findings and
a death (`lineage-check` refuses, `dispatch-plan.py:912`); a death and a kill between
two of the recovery's effects; a hold and a kill or an orphan (a `stop-task` that was
lost, a claim without a packet); a hold and a death (the old review request keeps the
planner from recovering, `dispatch-plan.py:910`); a hold that is returned before the
dispatcher has seen it.

Some endings of `Release` and `LineageMigration` are by the code's own account an
operator's: a consumed automatic authority whose verdict changes, a verdict edited
during apply, evidence that changes between two passes (`Stranded` and the premise of
`ReleaseEnds` name them); two names of one migration whose evidence drifts are deferred
for ever, and the hold of a task forgets the generation that a request names.

### Fairness

- `OneTask`: `dispatch.sh --watch` runs pass after pass, so a broker that can step does
  (weak fairness), and a claim or a hold sync that is possible again and again between
  passes happens (strong). The integrator role is launched whenever a task waits for
  it: `Prepare` and `Load` are strongly fair, the rest of its script weakly.
  `ValidateMerge` and `CommitRevert` are strongly fair: a tree that can pass its
  validation does if it is tried often enough. Producers and reviewers do their part.
- `OutboxDrains`: the dispatcher's broker always runs again, a direct one once begun.
- `LaneLock`: commands and holders run until they end or are killed.
- `RoleControl`: launchers, passes and forked processes run; a launcher that waits for
  the lane gets it at last (strong), as the turnstile of `LaneLock` shows (`StopServed`).
- `Attempts`: passes and launchers run, a worker submits or quits, and people answer: an
  unblocked task is handed back, and the lead resolves and asks.
- `ReleaseJob`: passes and workers run, and a heartbeat of a dead worker ages.
- `Release`: a pass that has begun goes on; each feature's turn comes (strong, since
  passes of others exclude it); CI passes, people answer, a provider's operation ends.
- `LineageMigration`: the pass runs.

No kill, outage, block, finding, expiry or change of evidence is ever assumed.

## 4. Proofs

| Theorem | Module | Property |
|---|---|---|
| `TypeCorrect` | `IntegrationProofs` | `TypeOK` of `Integration` |
| `AuthorizedLanding` | `IntegrationProofs` | `OnlyAuthorizedLands` |
| `RecordedBase` | `IntegrationProofs` | `RecordedOnPreparedBase` |
| `PhasesTruthful` | `IntegrationProofs` | `PhasesEarned` |
| `HeadLandsOnce` | `IntegrationProofs` | `LandsOnce` |
| `LandedJournaled` | `IntegrationProofs` | `LandedIsJournaled` |
| `RecoveredOnce` | `IntegrationProofs` | `RevertedOnce` |
| `TerminalStands` | `IntegrationProofs` | `TerminalBacked`, of behaviours with `RecoversAlone` |
| `JournalIsTrue` | `OutboxProofs` | `JournalTruth` |
| `NoEffectUnderHold` | `OutboxProofs` | `EffectsUnheld` |
| `PublicationRefined` | `OutboxProofs` | `RefinesPublication` |
| `RequestsMoveTheirs` | `OutboxProofs` | `RequestsMoveTheirAttempt`, under `NoDirect` |
| `ApprovalsStayCurrent` | `OutboxProofs` | `ApprovalsAreCurrent`, under `OneBroker` |
| `RejectionsHaveCause` | `OutboxProofs` | `RejectedForCause` |
| `LaneTypes` | `LockProofs` | `TypeOK` of `LaneLock` |
| `LaneExclusion` | `LockProofs` | `WorkExcludes` |
| `FenceRefined` | `LockProofs` | the steps of `RefinesFence` |
| `ProjectStands` | `LockProofs` | `ProjectSurvives` |
| `LoneStands` | `LockProofs` | `NoLoneDowngrade` |
| `OneProcess` | `RoleControlProofs` | `OneGeneration` |
| `ControlsSignal` | `RoleControlProofs` | `SignalsAllowed` |
| `ResultsAreFinal` | `RoleControlProofs` | `ResultIsFinal` |
| `TypeCorrect` | `AttemptsProofs` | `TypeOK` of `Attempts` |
| `HoldsFence` | `AttemptsProofs` | `HeldIsFenced` |
| `RestartsCounted` | `AttemptsProofs` | `RestartsAreCounted` |
| `OneWorkerStands` | `AttemptsProofs` | `OneWorker` |
| `WorkStays` | `AttemptsProofs` | `WorkKept` |
| `OneCommand` | `ReleaseJobProofs` | `NoOrphan` |
| `DeploymentsRest` | `ReleaseJobProofs` | `DeployedDone` |
| `ResultsAreFinal` | `ReleaseJobProofs` | `ResultsStay`, which no run checks |
| `Fenced` | `ReleaseProofs` | `TargetFenced` |
| `AppliedOnce` | `ReleaseProofs` | `OneApplyPerApproval` |
| `OutcomesServe` | `ReleaseProofs` | `OutcomeServes` |
| `TypeCorrect` | `LineageMigrationProofs` | `TypeOK` of `LineageMigration` |
| `NothingLostStands` | `LineageMigrationProofs` | `NothingLost` |
| `NoRollbackStands` | `LineageMigrationProofs` | `NoRollback` |

They hold for every set of tasks, brokers, entries, lanes, grants, launchers, updaters and features,
for every scenario of faults and for all bounds, from the assumptions on the constants
alone, which each run evaluates. Three assume more, each time something without which TLC
finds the property violated (section 3). `TerminalStands` is about the behaviours in which
no broker works on a task beside one that supersedes its integration (`RecoversAlone`), of
the dispatcher's broker and release-feature.py's together; `ApprovalsStayCurrent` assumes
`OneBroker`, that brokers of the outbox do not run beside each other; `RequestsMoveTheirs`
only `NoDirect`, that none was started by `submit-artifact.sh`, which no dispatcher waits for.

**Integration.** `TypeCorrect` strengthens `TypeOK` to `TypeInv` (which program
counters have a task, a preparation, a commit) and goes action by action; the others
start from it, the last four each from the one before. Each first abstracts a step to what its invariant sees
(`FeatureStep`, `PrepStep`, `IntegStep`; `TxStep`, `VerifyStep`; `EffectsGrow`,
`PhaseStep`, `StageStep`; `LandSteps`, `RevertSteps`, `TerminalSteps`) in lemmas with
one case per action.

- `AuthorizationInv`: a preparation is for an approved round, the one the
  integrator has loaded is authorized, and what has landed is both. Approvals are
  never taken off the record, so a landed round stays approved.
- `RecordInv`: past its verification the integrator's commit is what the record
  will say (`VerifiedStands`), and the branch only grows, so a record stays true.
  `OnlyAuthorizedLands` holds of the commit at once; this property only of what is
  recorded, as the counterexample to `CommittedOnPreparedBase` shows.
- `EarnInv`: a broker about to write `tracker-finalized` has its comment behind it,
  one about to write `event-emitted` its event, and comments and events are never
  taken back. `PhasesEarned` alone is not inductive: the write of a phase says
  nothing of the effect, only the program counter does. The proof does not use the
  transaction lock, which does not exclude a second broker.
- `LandsInv`: whatever landed of a prepared head landed above the prepared base
  (`PreparedFirst`, and `LoadedFirst` for the copy in memory), so an integrator that
  finds the branch still at that base, wherever it was killed before, finds its head
  unmerged and keeps it so until its own commit (`NotLandedYet`). The look and the
  commit are four steps apart; what carries it over them is the feature's integration
  lock, in the model the single integrator.
- `JournalInv`: a preparation leaves its file only behind the transaction made of it,
  and the copy the integrator works with is that file's (`PreparationKept`). It rests on
  `LandsOnce`: of two merges of one preparation, its archival would leave one without a
  record.
- `RevertInv`: of the scripts that work in the one checkout, a broker with a staged
  revert has it for itself, and its commit has no revert on the branch yet
  (`CheckoutShared`). It needs neither the transaction lock nor a single broker: the
  staged revert itself, and the look for an earlier one before staging, exclude the
  second.
- `TerminalInv`: the broker that is about to write the terminal status holds the
  transaction it validated, still in its slot (`FinalizesOwn`), and a task that is being
  reopened has its recovery in its file up to the end (`RecoveryHeld`), so that no
  transaction outside a recovery is reverted (`SlotUnreverted`). Both are about what a
  broker read steps ago and fail as soon as a second broker works on a task whose
  integration another one supersedes, which is how `TerminalBacked` itself fails there.
  `RecoversAlone` excludes that and nothing else: brokers run beside each other, take each
  other's stale transaction locks and finalize one task together. `NoneAssumption` of `Delivery`, that the
  absence of a file is nothing that a file holds, now covers recoveries.

**Outbox.** `IInv` joins `JournalTruth` and `PostedOnce` with what holds of each broker
where it stands (`Placed`): one past the choice of an entry has one (`AtWork`), one in an
effect has the authority lock and the hold and the tracker checked under it
(`Authorities`), and one about to write a phase has the effect behind it (`Behind`).
None of the first three theorems is inductive without it: that a comment is posted once rests
on the check for it being made under the authority lock that the post is made under,
not on the entry's lock, whose takeover lets two brokers in. The step of a broker is shown to respect its own place
(`Respects`) and to keep the others' (`OthersKeep`). `PublicationRefined` then maps each
step to one of `Publication`'s or a stutter.

The last three are about what a broker checked several steps before it acts, so each needs
that the check still holds at every place between, or says why not: `Moving` that a request past its last
look is of the current attempt, since claims wait until the dispatcher's broker is done;
`Approving` that an approval past the comparison is of the request shown, since only a
broker's comment changes that; `InHand` that a written body without its record, and a
published delivery without its receipt, are in the hands of a broker at work until one is
killed. The written body is made and bound under the broker authority, so that no other
broker finds it; the published delivery one can, which `HalfDone` says. All rest on `Submitted`: what a broker works on has left
its producer's hands, and what has not has no delivery.

**Launch lanes.** The invariant says which holders a command has at each place
(`Places`), and that fence, lane and turnstile exclude (`FenceExcludes`, `LaneExcludes`,
`OneAtTurnstile`); a command whose holder was killed alone and which has not noticed is
excepted (`Exposed`). `FenceRefined` proves the safety part of the
refinement; its fairness, and that a stop is served, stay with TLC.

**Installation.** `LockInv` says that a lock file has one holder and the lock directory one
owner, and that an updater past its lock has the flock of the file it opened or owns the
directory; not that the file still has its name, since unlinking takes that away. Of two at
work, then, one is `Nameless`. `met` remembers that two were; until it is set the one at
work is alone (`Alone`), and the rest is about that one: what it built carries the
project's files (`Builds`) and is no older (`NotBehind`) than what it looked at, which is
still in its place or its backup, but for an edit made after its last look, which `kept`
leaves out. That a missing install directory has its backup (`KeepsPlace`) needs none of it
and holds beside others too.

**One role.** `IInv` says of the generations that only the recorded one lives, that one
being forked is not yet recorded, and that no control names one that is not yet
registered (`Generations`); of each launcher what holds where it stands (`Stands`): nothing
is signalled before its capability is fenced, nothing is launched before what it
replaces is gone for good. `OneGeneration` is not inductive without the last: that a new
process finds none beside it was settled steps earlier, under the lane. The breaker's
count is compared with the set of controls that signalled (`Breaker`), to which the one
that the policy has let through already belongs, so that a replay adds nothing. `Settled`
carries `ResultsAreFinal` and the breaker across kills: a control that completed has ended
its generation, and a launcher that still comes for it, from a pass that was killed, has
its first look before it. `History`, `Passing` and `Commands` tie results, passes and
launchers to the requests they are for.

**Attempts.** `IInv` joins types with two invariants that share nothing else; a third
is built on both.

- `FenceInv`: a launcher past its last look is in the lane (`InLane`), so a stop, which
  waits for the lane, meets none on its way to a capability or a worker; one that takes
  the lane after it looks again, and finds the hold. `HeldIsFenced` alone is not
  inductive, since it says nothing of the launcher that is about to mint. That a
  generation of a hold is fenced when it is new is never assumed: `Fence` says what
  holds from its stop to its end.
- `CountInv`: `Covered` counts one restart ahead. A control that the policy has counted
  and that has made no attempt yet (`Pending`) is in the books once, wherever its replay
  comes from: the planner, whose identity for an attempt is the attempt; the lead's
  request, whose identity is new; or a launcher under way. `Controlled` says that each
  identity is of an attempt executed or a request made, so that a new attempt finds
  nothing pending beyond it. The packet, where an attempt begins, has a receipt of its
  own or uses the pending restart up. The cardinalities are the three lemmas on
  `Uncovered`.
- `SerialInv`: a launcher may outlive its pass, and then the claim it looked at can pass on
  before it starts its worker, which is `late`: the launch looks at the claim, waits for the
  lane, mints and spawns in steps of their own. `Descent` and `Onward` say that a claim
  which has passed on never comes back, so that a late worker stays one that is not on
  record, and `Workforce` that every other worker is the one on record. `Serves` is what a
  launcher has made sure of, whatever others do beside it: its records (`Founded`), the lane
  that a restart keeps (`Inside`), the attempt before it, of which no fresh worker is left
  from `inspect` to `packet` and whose work, where it removes or moves the worktree, is
  clean, covered by a receipt, or a late worker's (`Succeeds`). `Awaited` is why a pass that
  waits for its launcher cannot get a late worker: it alone makes claims. With them
  `WorkKept`, an action property, is proved action by action (`Keeping`).

**Release jobs.** `IInv` says what each of the parties may rely on: where the worker stands
against its guardian, the record and the command (`Staged`); what a result says of the
command (`Filed`); that of the attempts in the registry, and in the copy a pass works on, at
most one is not accounted for, and those that are have ended (`Booked`); and what a pass
may believe of what it read before (`Judged`), down to the job it is about to call lost,
which can do no more harm (`Harmless`). `OneCommand` needs all four: a pass starts the next
attempt from what it read, and the proof is that no worker of the attempt before can
still let its command start. `ResultsAreFinal` is the action property that makes the
pass's copy of a terminal result as good as the file.

**Releases.** `IInv` has one conjunct per release and one for the pass at work.
`Journaled(r)` says what the transaction and the provider know of one another: an
operation the provider has accepted is marked in the transaction and, until the outcome
is recorded, owns the lease; a manifest with which apply was started has its approval
consumed. `Standing` says what a pass has seen and what of it still holds at each place:
before apply the target is untouched and the manifest at hand is the approved, unused
one; from apply to the outcome the lease is the pass's own; from the verification on the
artifact serves. It has to be in the invariant because what a pass saw is neither in the
transaction nor in the lease, and the provider moves in between. A step of a pass writes
a transaction that is `Faithful` and goes to a place where it `StandsAt`; `WriteStep`
and `StandingAfter` carry both to the invariant. That each release ends stays with TLC.

**Migration.** `StorageInv` says where on the path of its plan a request is (`OnPath`), and
what each step finds in the protected storage (`Phased`): a record is displaced only over
its backup and the sealed target, and each artifact is retired only behind what replaces
it. It contains the types.

- `NothingLost` says nothing of where the broker stands, and is not inductive. `Away` adds
  that the request with the backup is still to be taken by this pass, or at a step that
  restores the record or leaves it (`Holding`), unless the task is held or `meddled` says
  why not: the record was written after it was compared, the evidence changed between the
  two looks at it, or the batch was full. This is what keeps the planner, which runs at the
  end of the pass, from starting the task anew. A transaction that stops before its second
  commit does so for a hold or for changed evidence (`StillBound`), since its worker has
  not come to life (`Ended`).
- `LateInv`: a pass leaves no request behind that could still repair the record
  (`Attended`), so when the planner makes the next attempt there is none (`Replaced`), and
  none is consumed under it. A repair fails between its two renames only over a write
  (`Reinstalled`), which `meddled` records.

Only model-checked: all liveness and the fairness of the refinements, which are outside
the proof system. Where a theorem has an assumption, the table of section 3 shows what
happens without it.

## 5. Not modelled

- **Contents.** Parsing, formatting, path safety, MACs and digests. Evidence is
  current or not, and a signature is not forged.
- **Programs that only read or decide over one document**: agent health and heartbeats,
  the delivery profile, evidence and readiness gates, packets and packages, policies
  but the transition table, the command line interface, packaging. They keep no state that two
  actors share; tests reach their cases.
- **Adapters** of trackers, CI and deployment: what the programs use of them is an
  action or a field.
- **Capability files.** Mint and revoke write several files under the broker lock; the
  model has each as one step, so a kill between two of the files is not covered. Nor is
  the death of the process inside `locked_tracker_effect` alone, whose tracker child
  goes on without the lock.
- **Dispatch.** The takeover of a stale dispatch lock, several tasks in one plan,
  dependencies and dependency holds, labels, backoff, design gates; a `stop-task` that
  fails. A package and its publication are one step of a worker in `Attempts`.
- **Supervisor.** Planning of features, budgets, the agent's lease and its takeover
  (`pm-agent.py:531`), a paused run's completed job, which raises outside any handler
  (`pm-agent.py:3960` against `deployment.md:703`), failing dispatches and admissions, a
  guardian killed alone.
- **Release.** More than one open sibling of a feature. Denied releases that are
  pushed back are rewritten (`deployment.md:641` calls them terminal). A dead pass is
  taken to take its hook with it, as the deployment guide requires; `Interrupt` is also
  a hook or command that fails.
- **Roles.** The restart of the lead role itself; a control that was answered "failed"
  and whose launcher still acts.
- **Migration.** Malformed requests and temporary files.
- **Installation.** Dry runs, `--overwrite-config`, `--allow-downgrade`, the repair of a
  damaged target, verification, integration packs. A kill between the two renames makes `update` say that nothing is installed, and a fresh install takes
  the default configuration (`README.md:94`); the lock a killed script leaves blocks both.
