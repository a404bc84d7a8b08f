----------------------------- MODULE Finalizer -----------------------------
(***************************************************************************)
(* bin/finalize-integrations.sh, the credentialed broker.  One pass        *)
(* authorizes every preparation, exports the tracker, validates every      *)
(* transaction, supersedes those with late findings and finalizes the      *)
(* others.  Every pc of fin[b] is a place between two durable effects of   *)
(* broker b, or between a check and the effect it guards.  A pass that     *)
(* dies leaves its effects, its transaction lock among them.               *)
(***************************************************************************)
EXTENDS Delivery

\* Taking the transaction lock of fin[b].task, and between its owner.pid and
\* the rmdir that gives it back.
TakingPCs == {"remove-owner", "remove-lock", "retake", "own"}
LockedPCs == {"locked", "tracker", "moving", "writing", "commenting",
              "advance", "event",
              "emit", "event-phase", "cleanup", "complete", "release", "unlock"}
BrokerPCs == {"idle", "authorize", "export", "sort", "journal", "revert",
              "staged", "mark", "reopen", "announce", "retire", "archive", "discard",
              "finalize"} \cup TakingPCs \cup LockedPCs

\* What the pass's snapshot says of a task.
Sights == [status : Statuses, review : Reviews, noted : BOOLEAN]
NoSight == [status |-> "queued", noted |-> FALSE,
            review |-> [attempt |-> 0, head |-> 0, verdict |-> "none"]]

BrokerStates == [pc : BrokerPCs, task : Tasks \cup {None},
                 todo : SUBSET Tasks, ready : SUBSET Tasks,
                 phase : Phases \cup {"none"}, commit : Nat,
                 snap : [Tasks -> Sights]]

BrokerIdle == [pc |-> "idle", task |-> None, todo |-> {}, ready |-> {},
               phase |-> "none", commit |-> 0, snap |-> [t \in Tasks |-> NoSight]]

BrokerGoto(b, pc) == fin' = [fin EXCEPT ![b].pc = pc]
BrokerDies(b) == fin' = [fin EXCEPT ![b] = BrokerIdle]

At(b, pc) == fin[b].pc = pc

Entries == {t \in Tasks : tx[t] # None}

\* validate_entry with the pass's snapshot s of the task.
ValidAgainst(t, s) ==
    /\ ValidEntry(t)
    /\ s.status \in {"review", "terminal"}
    /\ EvidenceCurrent(s.review, tx[t].attempt, tx[t].head)
    /\ tx[t].phase = "completed" =>
          /\ s.status = "terminal" /\ s.noted
          /\ tx[t].commit \in Range(events) /\ worktree[t] = "absent"

LateInvalidation(t, s) ==
    /\ tx[t].phase \in {"awaiting-tracker", "completed"}
    /\ s.review.verdict = "findings"

-----------------------------------------------------------------------------
BeginPass(b) ==
    /\ At(b, "idle")
    /\ fin' = [fin EXCEPT ![b].pc = "authorize",
                          ![b].todo = {t \in Tasks : prep[t] # None}]
    /\ UNCHANGED <<gitVars, trackerVars, attempt, held, journalVars, integ, budget>>

(* authorize_preparation: a preparation that is already authorized gets a   *)
(* new grant; one that cannot be authorized ends the pass.                  *)
AuthorizePreparation(b) ==
    /\ At(b, "authorize")
    /\ \E t \in fin[b].todo :
          IF Authorizable(t)
          THEN /\ \E g \in Grants :
                     prep' = [prep EXCEPT ![t].grant = g]
               /\ fin' = [fin EXCEPT ![b].todo = @ \ {t}]
          ELSE BrokerDies(b) /\ UNCHANGED prep
    /\ UNCHANGED <<gitVars, trackerVars, attempt, held, prepHistory, tx,
                   txHistory, recovery, events, lock, integ, budget>>

(* The list of transactions, the fresh export and the structural validation *)
(* of every one of them.                                                    *)
ExportAndPrevalidate(b) ==
    /\ At(b, "authorize") /\ fin[b].todo = {}
    /\ IF Entries # {} /\ \A t \in Entries : ValidEntry(t) /\ Unheld(t)
       THEN fin' = [fin EXCEPT
              ![b].pc = "sort", ![b].todo = Entries,
              ![b].snap = [t \in Tasks |->
                  IF t \in Entries
                  THEN [status |-> status[t], review |-> review[t],
                        noted |-> tx[t].commit \in noted]
                  ELSE NoSight]]
       ELSE BrokerDies(b)
    /\ UNCHANGED <<gitVars, trackerVars, attempt, held, journalVars, integ, budget>>

(* The second loop of the pass: supersede, or admit to finalization.  The   *)
(* validation in supersede_one that fails leaves an empty phase, and dies.  *)
SortEntry(b) ==
    /\ At(b, "sort")
    /\ \E t \in fin[b].todo :
          LET s == fin[b].snap[t] IN
          \/ /\ tx[t] # None /\ LateInvalidation(t, s)
             /\ IF ValidEntry(t) /\ Unheld(t)
                THEN fin' = [fin EXCEPT ![b].pc = "journal", ![b].task = t,
                                        ![b].phase = tx[t].phase, ![b].commit = tx[t].commit,
                                        ![b].todo = @ \ {t}]
                ELSE BrokerDies(b)
          \/ /\ ~(tx[t] # None /\ LateInvalidation(t, s))
             /\ IF ValidAgainst(t, s) /\ Unheld(t)
                THEN fin' = [fin EXCEPT ![b].todo = @ \ {t}, ![b].ready = @ \cup {t}]
                ELSE BrokerDies(b)
    /\ UNCHANGED <<gitVars, trackerVars, attempt, held, journalVars, integ, budget>>

SortDone(b) ==
    /\ At(b, "sort") /\ fin[b].todo = {}
    /\ BrokerGoto(b, "finalize")
    /\ UNCHANGED <<gitVars, trackerVars, attempt, held, journalVars, integ, budget>>

-----------------------------------------------------------------------------
(* supersede_one.  The recovery journal is written first; one that is found *)
(* must bind the same transaction bytes and a phase that can be resumed.    *)
Resumable(t, c) ==
    /\ recovery[t].commit = c /\ recovery[t].txPhase = tx[t].phase
    /\ recovery[t].phase # "superseded"

JournalRecovery(b) ==
    /\ At(b, "journal")
    /\ LET t == fin[b].task
           c == fin[b].commit
       IN \/ /\ recovery[t] = None /\ Unheld(t) /\ tx[t] # None
             /\ recovery' = [recovery EXCEPT ![t] =
                    [commit |-> c, txPhase |-> tx[t].phase, preHead |-> Tip,
                     revert |-> 0, phase |-> "revert-prepared"]]
             /\ BrokerGoto(b, "revert")
          \/ /\ recovery[t] # None /\ tx[t] # None /\ Resumable(t, c)
             /\ BrokerGoto(b, "revert") /\ UNCHANGED recovery
          \/ /\ tx[t] # None => IF recovery[t] = None THEN ~Unheld(t) ELSE ~Resumable(t, c)
             /\ BrokerDies(b) /\ UNCHANGED recovery
    /\ UNCHANGED <<gitVars, trackerVars, attempt, held, prep, prepHistory, tx,
                   txHistory, events, lock, integ, budget>>

\* git log --grep of the recovery id.
RevertsOf(c) == {i \in 1 .. Tip : feature[i].op = "revert" /\ feature[i].of = c}

\* The journal of broker b's recovery is still the one it works on.
JournalOpen(b) == recovery[fin[b].task] # None /\ recovery[fin[b].task].commit = fin[b].commit

StageRevert(b) ==
    /\ At(b, "revert")
    /\ LET t == fin[b].task
           landed == RevertsOf(fin[b].commit) # {}
       IN \/ landed /\ BrokerGoto(b, "mark") /\ UNCHANGED checkout
          \/ /\ ~landed
             /\ IF JournalOpen(b) /\ Unheld(t) /\ CheckoutClean /\ Tip = recovery[t].preHead
                THEN /\ checkout' = [op |-> "revert", task |-> t, head |-> 0]
                     /\ BrokerGoto(b, "staged")
                ELSE BrokerDies(b) /\ UNCHANGED checkout
    /\ UNCHANGED <<feature, branch, worktree, trackerVars, attempt, held,
                   journalVars, integ, budget>>

(* run_recovery_validation and the commit.  A failed validation aborts the  *)
(* revert; a hold exits inside assert_task_not_held, before the abort.      *)
CommitRevert(b) ==
    /\ At(b, "staged")
    /\ LET t == fin[b].task IN
       \/ /\ Unheld(t) /\ Tip < MaxCommits
          /\ feature' = Append(feature, [op |-> "revert", task |-> t,
                 attempt |-> 0, head |-> 0, base |-> Tip, grant |-> None,
                 of |-> fin[b].commit])
          /\ checkout' = Clean /\ BrokerGoto(b, "mark")
       \/ ~Unheld(t) /\ BrokerDies(b) /\ UNCHANGED <<feature, checkout>>
    /\ UNCHANGED <<branch, worktree, trackerVars, attempt, held, journalVars,
                   integ, budget>>

AbortRevert(b) ==
    /\ At(b, "staged")
    /\ checkout' = Clean /\ BrokerDies(b)
    /\ UNCHANGED <<feature, branch, worktree, trackerVars, attempt, held,
                   journalVars, integ, budget>>

MarkReverted(b) ==
    /\ At(b, "mark")
    /\ LET t == fin[b].task IN
       IF JournalOpen(b) /\ Unheld(t)
       THEN /\ \E i \in RevertsOf(fin[b].commit) :
                  recovery' = [recovery EXCEPT ![t].phase = "reverted", ![t].revert = i]
            /\ BrokerGoto(b, "reopen")
       ELSE BrokerDies(b) /\ UNCHANGED recovery
    /\ UNCHANGED <<gitVars, trackerVars, attempt, held, prep, prepHistory, tx,
                   txHistory, events, lock, integ, budget>>

(* tracker-ops task-reopen for a completed transaction, tracker-ops state   *)
(* for one whose tracker move was never recorded.  Both read the status and *)
(* then write; the only moves another process can make in between are the   *)
(* same move, and one into [Blocked] that the tracker then refuses to leave.*)
ReopenSource(b) == IF fin[b].phase = "completed" THEN "terminal" ELSE "review"

\* Mutant: the move to queued is left out.
ReopenTask_Unmoved(b) ==
    /\ At(b, "reopen")
    /\ IF Unheld(fin[b].task) /\ status[fin[b].task] \in {"queued", ReopenSource(b)}
       THEN BrokerGoto(b, "announce")
       ELSE BrokerDies(b)
    /\ UNCHANGED <<gitVars, trackerVars, attempt, held, journalVars, integ, budget>>

\* Mutant: the comment that retracts the integration is left out.
ReopenTask_Silent(b) ==
    /\ At(b, "reopen")
    /\ LET t == fin[b].task
       IN IF Unheld(t) /\ status[t] \in {"queued", ReopenSource(b)}
          THEN status' = [status EXCEPT ![t] = "queued"] /\ BrokerGoto(b, "retire")
          ELSE BrokerDies(b) /\ UNCHANGED status
    /\ UNCHANGED <<gitVars, review, approvals, noted, retracted, attempt, held,
                   journalVars, integ, budget>>

ReopenTask(b) ==
    /\ At(b, "reopen")
    /\ LET t == fin[b].task
       IN IF Unheld(t) /\ status[t] \in {"queued", ReopenSource(b)}
          THEN status' = [status EXCEPT ![t] = "queued"] /\ BrokerGoto(b, "announce")
          ELSE BrokerDies(b) /\ UNCHANGED status
    /\ UNCHANGED <<gitVars, review, approvals, noted, retracted, attempt, held,
                   journalVars, integ, budget>>

AnnounceSuperseded(b) ==
    /\ At(b, "announce")
    /\ LET c == fin[b].commit IN
       IF c \in retracted \/ Unheld(fin[b].task)
       THEN retracted' = retracted \cup {c} /\ BrokerGoto(b, "retire")
       ELSE BrokerDies(b) /\ UNCHANGED retracted
    /\ UNCHANGED <<gitVars, status, review, approvals, noted, attempt, held,
                   journalVars, integ, budget>>

RetireRecovery(b) ==
    /\ At(b, "retire")
    /\ LET t == fin[b].task IN
       IF JournalOpen(b) /\ recovery[t].phase = "reverted" /\ Unheld(t)
       THEN recovery' = [recovery EXCEPT ![t].phase = "superseded"] /\ BrokerGoto(b, "archive")
       ELSE BrokerDies(b) /\ UNCHANGED recovery
    /\ UNCHANGED <<gitVars, trackerVars, attempt, held, prep, prepHistory, tx,
                   txHistory, events, lock, integ, budget>>

(* The two renames into integrations/history, the transaction first.        *)
\* Mutant: the transaction is removed, not archived.
ArchiveTransaction_Removed(b) ==
    /\ At(b, "archive")
    /\ tx' = [tx EXCEPT ![fin[b].task] = None]
    /\ BrokerGoto(b, "discard")
    /\ UNCHANGED <<gitVars, trackerVars, attempt, held, prep, prepHistory, txHistory,
                   recovery, events, lock, integ, budget>>

ArchiveTransaction(b) ==
    /\ At(b, "archive")
    /\ LET t == fin[b].task IN
       IF tx[t] # None /\ \A h \in txHistory : h.commit # fin[b].commit
       THEN /\ txHistory' = txHistory \cup {tx[t]}
            /\ tx' = [tx EXCEPT ![t] = None]
            /\ BrokerGoto(b, "discard")
       ELSE BrokerDies(b) /\ UNCHANGED <<tx, txHistory>>
    /\ UNCHANGED <<gitVars, trackerVars, attempt, held, prep, prepHistory,
                   recovery, events, lock, integ, budget>>

ArchiveRecovery(b) ==
    /\ At(b, "discard")
    /\ LET t == fin[b].task IN
       IF recovery[t] # None
       THEN /\ recovery' = [recovery EXCEPT ![t] = None]
            /\ fin' = [fin EXCEPT ![b].pc = "sort", ![b].task = None,
                                  ![b].phase = "none", ![b].commit = 0]
       ELSE BrokerDies(b) /\ UNCHANGED recovery
    /\ UNCHANGED <<gitVars, trackerVars, attempt, held, prep, prepHistory, tx,
                   txHistory, events, lock, integ, budget>>

-----------------------------------------------------------------------------
(* finalize_one, up to the transaction lock.  A first validation that fails *)
(* leaves every field empty and goes on to the tracker fence; a completed   *)
(* transaction is left alone.  The lock is a directory: mkdir, and then an  *)
(* owner.pid in it.  One that names a dead process is removed and made      *)
(* again, in four steps that two brokers can interleave; one that names     *)
(* nobody, or a live process, ends the pass.                                *)
Owns(b, t) == lock[t] = b /\ fin[b].task = t /\ fin[b].pc \in LockedPCs

TakeTransactionLock(b) ==
    /\ At(b, "finalize")
    /\ \E t \in fin[b].ready :
          LET valid == ValidAgainst(t, fin[b].snap[t])
              done == valid /\ Unheld(t) /\ tx[t].phase = "completed"
              stale == lock[t] \in Brokers /\ ~Owns(lock[t], t)
              Enter(pc) == fin' = [fin EXCEPT ![b].pc = pc, ![b].task = t,
                               ![b].commit = IF valid THEN tx[t].commit ELSE 0]
          IN \/ /\ done
                /\ fin' = [fin EXCEPT ![b].ready = @ \ {t}] /\ UNCHANGED lock
             \/ /\ ~done /\ (valid => Unheld(t)) /\ lock[t] = None
                /\ lock' = [lock EXCEPT ![t] = Ownerless] /\ Enter("own")
             \/ /\ ~done /\ (valid => Unheld(t)) /\ stale
                /\ Enter("remove-owner") /\ UNCHANGED lock
             \/ /\ ~done /\ (~(valid => Unheld(t)) \/ (lock[t] # None /\ ~stale))
                /\ BrokerDies(b) /\ UNCHANGED lock
    /\ UNCHANGED <<gitVars, trackerVars, attempt, held, prep, prepHistory, tx,
                   txHistory, recovery, events, integ, budget>>

\* rm -f of owner.pid, which asks neither for the file nor for the directory.
RemoveOwner(b, next) ==
    LET t == fin[b].task IN
    /\ lock' = [lock EXCEPT ![t] = IF @ = None THEN None ELSE Ownerless]
    /\ BrokerGoto(b, next)

\* mkdir, rmdir or the write of owner.pid, which the lock as it is allows or not.
ChangeLock(b, allowed, new, next) ==
    LET t == fin[b].task IN
    IF allowed THEN lock' = [lock EXCEPT ![t] = new] /\ BrokerGoto(b, next)
    ELSE BrokerDies(b) /\ UNCHANGED lock

ContinueTaking(b) ==
    /\ \/ At(b, "remove-owner") /\ RemoveOwner(b, "remove-lock")
       \/ At(b, "remove-lock") /\ ChangeLock(b, lock[fin[b].task] = Ownerless, None, "retake")
       \/ At(b, "retake") /\ ChangeLock(b, lock[fin[b].task] = None, Ownerless, "own")
       \/ At(b, "own") /\ ChangeLock(b, lock[fin[b].task] # None, b, "locked")
    /\ UNCHANGED <<gitVars, trackerVars, attempt, held, prep, prepHistory, tx,
                   txHistory, recovery, events, integ, budget>>

FinalizeDone(b) ==
    /\ At(b, "finalize") /\ fin[b].ready = {}
    /\ BrokerDies(b)
    /\ UNCHANGED <<gitVars, trackerVars, attempt, held, journalVars, integ, budget>>

(* "Revalidate after taking the transaction lock": the command substitution *)
(* ends the script on a hold, but a failed validate_entry only leaves the   *)
(* phase empty, and the function goes on.                                   *)
Revalidate(b) ==
    /\ At(b, "locked")
    /\ LET t == fin[b].task IN
       \/ /\ ValidAgainst(t, fin[b].snap[t]) /\ ~Unheld(t)
          /\ BrokerDies(b)
       \/ /\ ValidAgainst(t, fin[b].snap[t]) /\ Unheld(t)
          /\ fin' = [fin EXCEPT ![b].phase = tx[t].phase,
                  ![b].pc = IF tx[t].phase = "completed" THEN "release" ELSE "tracker"]
       \/ /\ ~ValidAgainst(t, fin[b].snap[t])
          /\ fin' = [fin EXCEPT ![b].pc = "tracker", ![b].phase = "none"]
    /\ UNCHANGED <<gitVars, trackerVars, attempt, held, journalVars, integ, budget>>

FenceTracker(b) ==
    /\ At(b, "tracker")
    /\ IF fin[b].commit # 0 /\ Unheld(fin[b].task) /\ InReview(fin[b].task)
       THEN BrokerGoto(b, "moving")
       ELSE BrokerDies(b)
    /\ UNCHANGED <<gitVars, trackerVars, attempt, held, journalVars, integ, budget>>

(* tracker-ops integrate reads the status, and the write that follows can    *)
(* find another one: the tracker has no compare-and-set, and refuses only    *)
(* automated moves out of [Blocked], by its access rules.                    *)
ReadForTerminal(b) ==
    /\ At(b, "moving")
    /\ CASE status[fin[b].task] = "review" -> BrokerGoto(b, "writing")
         [] status[fin[b].task] = "terminal" -> BrokerGoto(b, "commenting")
         [] OTHER -> BrokerDies(b)
    /\ UNCHANGED <<gitVars, trackerVars, attempt, held, journalVars, integ, budget>>

MoveToTerminal(b) ==
    /\ At(b, "writing")
    /\ LET t == fin[b].task IN
       IF status[t] # "blocked"
       THEN status' = [status EXCEPT ![t] = "terminal"] /\ BrokerGoto(b, "commenting")
       ELSE BrokerDies(b) /\ UNCHANGED status
    /\ UNCHANGED <<gitVars, review, approvals, noted, retracted, attempt, held,
                   journalVars, integ, budget>>

CommentIntegrated(b) ==
    /\ At(b, "commenting")
    /\ IF status[fin[b].task] = "terminal"
       THEN /\ noted' = noted \cup {fin[b].commit}
            /\ BrokerGoto(b, IF fin[b].phase = "awaiting-tracker" THEN "advance" ELSE "event")
       ELSE BrokerDies(b) /\ UNCHANGED noted
    /\ UNCHANGED <<gitVars, status, review, approvals, retracted, attempt, held,
                   journalVars, integ, budget>>

(* assert_task_not_held and advance_phase.                                  *)
AdvancePhase(b, from, to, next) ==
    LET t == fin[b].task IN
    IF Unheld(t) /\ tx[t] # None /\ tx[t].commit = fin[b].commit /\ tx[t].phase = from
    THEN /\ tx' = [tx EXCEPT ![t].phase = to]
         /\ fin' = [fin EXCEPT ![b].phase = to, ![b].pc = next]
    ELSE BrokerDies(b) /\ UNCHANGED tx

TrackerFinalized(b) ==
    /\ At(b, "advance")
    /\ AdvancePhase(b, "awaiting-tracker", "tracker-finalized", "event")
    /\ UNCHANGED <<gitVars, trackerVars, attempt, held, prep, prepHistory,
                   txHistory, recovery, events, lock, integ, budget>>

(* event_exists, then the emission behind the hold check.                   *)
\* Mutant: any task.integrated record will do.
EventExists_AnyTransaction(c) == events # <<>>
EventExists(c) == c \in Range(events)

\* Mutant: a transaction whose tracker move is recorded is left there.
AfterEvent_Left(b) == IF fin[b].phase = "event-emitted" THEN "cleanup" ELSE "release"
AfterEvent(b) ==
    CASE fin[b].phase = "tracker-finalized" -> "event-phase"
      [] fin[b].phase = "event-emitted" -> "cleanup"
      [] OTHER -> "release"

FindEvent(b) ==
    /\ At(b, "event")
    /\ IF EventExists(fin[b].commit)
       THEN BrokerGoto(b, AfterEvent(b))
       ELSE IF Unheld(fin[b].task) THEN BrokerGoto(b, "emit") ELSE BrokerDies(b)
    /\ UNCHANGED <<gitVars, trackerVars, attempt, held, journalVars, integ, budget>>

EmitEvent(b) ==
    /\ At(b, "emit")
    /\ events' = Append(events, fin[b].commit)
    /\ BrokerGoto(b, AfterEvent(b))
    /\ UNCHANGED <<gitVars, trackerVars, attempt, held, prep, prepHistory, tx,
                   txHistory, recovery, lock, integ, budget>>

EventEmitted(b) ==
    /\ At(b, "event-phase")
    /\ AdvancePhase(b, "tracker-finalized", "event-emitted", "cleanup")
    /\ UNCHANGED <<gitVars, trackerVars, attempt, held, prep, prepHistory,
                   txHistory, recovery, events, lock, integ, budget>>

(* The worktree is removed only when git status finds it clean.  A          *)
(* retrospective that cannot be recorded just before ends the pass here with *)
(* nothing done, which is a kill of the broker at this place (CrashBroker).  *)
CleanupWorktree(b) ==
    /\ At(b, "cleanup")
    /\ LET t == fin[b].task IN
       IF Unheld(t) /\ worktree[t] # "dirty"
       THEN worktree' = [worktree EXCEPT ![t] = "absent"] /\ BrokerGoto(b, "complete")
       ELSE BrokerDies(b) /\ UNCHANGED worktree
    /\ UNCHANGED <<feature, checkout, branch, trackerVars, attempt, held,
                   journalVars, integ, budget>>

CompleteTransaction(b) ==
    /\ At(b, "complete")
    /\ AdvancePhase(b, "event-emitted", "completed", "release")
    /\ UNCHANGED <<gitVars, trackerVars, attempt, held, prep, prepHistory,
                   txHistory, recovery, events, lock, integ, budget>>

ReleaseTransactionLock(b) ==
    /\ \/ At(b, "release") /\ RemoveOwner(b, "unlock")
       \/ /\ At(b, "unlock")
          /\ LET t == fin[b].task IN
             IF lock[t] = Ownerless
             THEN /\ lock' = [lock EXCEPT ![t] = None]
                  /\ fin' = [fin EXCEPT ![b].pc = "finalize", ![b].task = None,
                                        ![b].phase = "none", ![b].commit = 0,
                                        ![b].ready = @ \ {t}]
             ELSE BrokerDies(b) /\ UNCHANGED lock
    /\ UNCHANGED <<gitVars, trackerVars, attempt, held, prep, prepHistory, tx,
                   txHistory, recovery, events, integ, budget>>

SupersedeNext(b) ==
    \/ JournalRecovery(b) \/ StageRevert(b) \/ CommitRevert(b) \/ AbortRevert(b)
    \/ MarkReverted(b)
    \/ ReopenTask(b) \/ AnnounceSuperseded(b) \/ RetireRecovery(b) \/ ArchiveTransaction(b)
    \/ ArchiveRecovery(b)

FinalizeNext(b) ==
    \/ TakeTransactionLock(b) \/ ContinueTaking(b) \/ FinalizeDone(b) \/ Revalidate(b) \/ FenceTracker(b)
    \/ ReadForTerminal(b) \/ MoveToTerminal(b) \/ CommentIntegrated(b) \/ TrackerFinalized(b)
    \/ FindEvent(b) \/ EmitEvent(b) \/ EventEmitted(b) \/ CleanupWorktree(b)
    \/ CompleteTransaction(b) \/ ReleaseTransactionLock(b)

BrokerNext(b) ==
    \/ BeginPass(b) \/ AuthorizePreparation(b) \/ ExportAndPrevalidate(b)
    \/ SortEntry(b) \/ SortDone(b) \/ SupersedeNext(b) \/ FinalizeNext(b)
=============================================================================
