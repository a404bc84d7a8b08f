----------------------------- MODULE Integrator -----------------------------
(***************************************************************************)
(* bin/integrate-task.sh, run by the integrator role for one task at a     *)
(* time in single-writer mode (TRACKER_WRITERS=broker).  Every action is   *)
(* the code between two durable effects, or between a check and the effect *)
(* it guards where another process can act in between.  A script that dies *)
(* leaves only its durable effects: the journals and the Git state.        *)
(***************************************************************************)
EXTENDS Delivery

IntegratorPCs == {"idle", "loaded", "at-base", "merging", "overlaid",
                  "validated", "fenced", "landed", "verified", "recorded"}

IntegratorStates == [pc : IntegratorPCs, task : Tasks \cup {None},
                     prep : Preparations \cup {None}, commit : Nat]

IntegratorIdle == [pc |-> "idle", task |-> None, prep |-> None, commit |-> 0]

Goto(pc) == integ' = [integ EXCEPT !.pc = pc]
IntegratorDies == integ' = IntegratorIdle

\* The execution record matches the invocation and its worktree is usable.
ExecutionUsable(t) == worktree[t] = "clean"

-----------------------------------------------------------------------------
\* git rev-list --count feature..branch is not zero: the branch has a commit
\* that no integration brought to the feature branch, reverted or not.
\* Mutant: the count is not taken.
HasNewCommits_Any(t) == TRUE
HasNewCommits(t) ==
    \A i \in 1 .. Tip : ~ /\ feature[i].op = "merge"
                          /\ feature[i].task = t
                          /\ feature[i].head = branch[t]

(* The first invocation: no transaction and no preparation yet.  tasks.json *)
(* is the dispatcher's last export, so its approvals may be out of date.    *)
Prepare(t) ==
    /\ integ.pc = "idle"
    /\ tx[t] = None /\ prep[t] = None
    /\ Unheld(t) /\ ExecutionUsable(t) /\ CheckoutClean
    /\ HasNewCommits(t)
    /\ [attempt |-> attempt[t], head |-> branch[t]] \in approvals[t]
    /\ prep' = [prep EXCEPT ![t] =
           [task |-> t, attempt |-> attempt[t], head |-> branch[t],
            base |-> Tip, grant |-> None]]
    /\ UNCHANGED <<gitVars, trackerVars, attempt, held, prepHistory, tx,
                   txHistory, recovery, events, lock, integ, fin, budget>>

Prepared == {t \in Tasks : prep[t] # None}

Regranted(g) == [t \in Tasks |-> IF t \in Prepared
                                 THEN [prep[t] EXCEPT !.grant = g[t]] ELSE None]

(* The transaction is already recorded.  finalize-integrations.sh           *)
(* --validate-only authorizes every preparation before it validates the     *)
(* entry; only then is the preparation archived, under a name that must be  *)
(* free.  The worktree is not looked at: it may be dirty, or gone.          *)
ResumeRecorded(t) ==
    /\ integ.pc = "idle"
    /\ tx[t] # None
    /\ Unheld(t)
    /\ \A u \in Prepared : Authorizable(u)
    /\ \E g \in [Prepared -> Grants] :
          IF /\ ValidEntry(t) /\ t \in Prepared
             /\ \A q \in prepHistory : PrepId(q) # PrepId(prep[t])
          THEN /\ prepHistory' = prepHistory \cup {Regranted(g)[t]}
               /\ prep' = [Regranted(g) EXCEPT ![t] = None]
          ELSE prep' = Regranted(g) /\ UNCHANGED prepHistory
    /\ UNCHANGED <<gitVars, trackerVars, attempt, held, tx, txHistory, recovery,
                   events, lock, integ, fin, budget>>

(* A later invocation loads the preparation the broker has authorized.  The *)
(* copy in `integ.prep` is what the rest of the run uses.                   *)
Load(t) ==
    /\ integ.pc = "idle"
    /\ tx[t] = None /\ prep[t] # None
    /\ Unheld(t) /\ ExecutionUsable(t)
    /\ prep[t].attempt = attempt[t] /\ prep[t].head = branch[t]
    /\ Authorized(prep[t])
    /\ integ' = [integ EXCEPT !.pc = "loaded", !.task = t, !.prep = prep[t]]
    /\ UNCHANGED <<gitVars, trackerVars, attempt, held, journalVars, fin, budget>>

(* Read HEAD and MERGE_HEAD and decide where the interrupted or new         *)
(* integration stands.                                                      *)
AlreadyLanded(p) ==
    /\ Tip = p.base + 1
    /\ feature[Tip].op = "merge"
    /\ feature[Tip].task = p.task /\ feature[Tip].head = p.head

ResumableMerge(p) ==
    /\ Tip = p.base
    /\ checkout.op = "merge" /\ checkout.task = p.task /\ checkout.head = p.head

Locate ==
    /\ integ.pc = "loaded"
    /\ LET p == integ.prep IN
       \/ /\ AlreadyLanded(p)
          /\ integ' = [integ EXCEPT !.pc = "landed", !.commit = Tip]
       \/ ResumableMerge(p) /\ Goto("overlaid")
       \/ Tip = p.base /\ CheckoutClean /\ Goto("at-base")
       \/ /\ ~AlreadyLanded(p) /\ ~ResumableMerge(p)
          /\ ~(Tip = p.base /\ CheckoutClean)
          /\ IntegratorDies
    /\ UNCHANGED <<gitVars, trackerVars, attempt, held, journalVars, fin, budget>>

(* git merge --no-commit --strategy=ours after the hold and tracker fences. *)
(* Git itself refuses when the index no longer equals HEAD.                 *)
EstablishMerge ==
    /\ integ.pc = "at-base"
    /\ LET t == integ.task IN
       IF Unheld(t) /\ InReview(t) /\ CheckoutClean
       THEN /\ checkout' = [op |-> "merge-head", task |-> t, head |-> integ.prep.head]
            /\ Goto("merging")
       ELSE IntegratorDies /\ UNCHANGED checkout
    /\ UNCHANGED <<feature, branch, worktree, trackerVars, attempt, held,
                   journalVars, fin, budget>>

(* git read-tree of the canonical overlay, and the index check after it.    *)
MaterializeOverlay ==
    /\ integ.pc = "merging"
    /\ checkout' = [checkout EXCEPT !.op = "merge"]
    /\ Goto("overlaid")
    /\ UNCHANGED <<feature, branch, worktree, trackerVars, attempt, held,
                   journalVars, fin, budget>>

(* run_validation succeeds, fails, or outlives the five-minute grant, in    *)
(* which case the merge is aborted and the grant in the file is withdrawn.  *)
ValidateMerge ==
    /\ integ.pc = "overlaid"
    /\ Goto("validated")
    /\ UNCHANGED <<gitVars, trackerVars, attempt, held, journalVars, fin, budget>>

FailValidation ==
    /\ integ.pc = "overlaid"
    /\ checkout' = Clean /\ IntegratorDies
    /\ UNCHANGED <<feature, branch, worktree, trackerVars, attempt, held,
                   journalVars, fin, budget>>

ExpireGrant ==
    /\ integ.pc = "overlaid"
    /\ prep[integ.task] # None
    /\ checkout' = Clean
    /\ prep' = [prep EXCEPT ![integ.task].grant = None]
    /\ IntegratorDies
    /\ UNCHANGED <<feature, branch, worktree, trackerVars, attempt, held,
                   prepHistory, tx, txHistory, recovery, events, lock, fin, budget>>

(* The fences before the commit.  assert_task_not_held exits the script on  *)
(* a hold, so only a task that left review aborts the merge.                *)
FenceCommit ==
    /\ integ.pc = "validated"
    /\ LET t == integ.task IN
       \/ Unheld(t) /\ InReview(t) /\ Goto("fenced") /\ UNCHANGED checkout
       \/ Unheld(t) /\ ~InReview(t) /\ checkout' = Clean /\ IntegratorDies
       \/ ~Unheld(t) /\ IntegratorDies /\ UNCHANGED checkout
    /\ UNCHANGED <<feature, branch, worktree, trackerVars, attempt, held,
                   journalVars, fin, budget>>

CommitMerge ==
    /\ integ.pc = "fenced"
    /\ Tip < MaxCommits
    /\ LET p == integ.prep IN
       /\ feature' = Append(feature, [op |-> "merge", task |-> p.task,
              attempt |-> p.attempt, head |-> p.head, base |-> p.base,
              grant |-> p.grant, of |-> 0])
       /\ integ' = [integ EXCEPT !.pc = "landed", !.commit = Tip + 1]
    /\ checkout' = Clean
    /\ UNCHANGED <<branch, worktree, trackerVars, attempt, held, journalVars,
                   fin, budget>>

(* The landed commit must have the prepared parents and trailers; then the  *)
(* completion body is written behind two fences.                            *)
VerifyLanded ==
    /\ integ.pc = "landed"
    /\ IF /\ IsIntegration(integ.commit, integ.prep)
          /\ Unheld(integ.task) /\ InReview(integ.task)
       THEN Goto("verified")
       ELSE IntegratorDies
    /\ UNCHANGED <<gitVars, trackerVars, attempt, held, journalVars, fin, budget>>

RecordTransaction ==
    /\ integ.pc = "verified"
    /\ LET t == integ.task
           p == integ.prep
       IN IF Unheld(t) /\ InReview(t)
          THEN /\ tx' = [tx EXCEPT ![t] =
                     [commit |-> integ.commit, attempt |-> p.attempt,
                      head |-> p.head, base |-> p.base, phase |-> "awaiting-tracker"]]
               /\ Goto("recorded")
          ELSE IntegratorDies /\ UNCHANGED tx
    /\ UNCHANGED <<gitVars, trackerVars, attempt, held, prep, prepHistory,
                   txHistory, recovery, events, lock, fin, budget>>

(* mv of the preparation, as it is in the directory now, to its history.    *)
ArchivePreparation ==
    /\ integ.pc = "recorded"
    /\ LET t == integ.task
       IN IF /\ Unheld(t) /\ InReview(t)
             /\ prep[t] # None
             /\ \A q \in prepHistory : PrepId(q) # PrepId(integ.prep)
          THEN /\ prepHistory' = prepHistory \cup {prep[t]}
               /\ prep' = [prep EXCEPT ![t] = None]
          ELSE UNCHANGED <<prep, prepHistory>>
    /\ IntegratorDies
    /\ UNCHANGED <<gitVars, trackerVars, attempt, held, tx, txHistory,
                   recovery, events, lock, fin, budget>>

\* The steps of a running script that neither validation nor time decides.
IntegratorContinues ==
    \/ Locate \/ EstablishMerge \/ MaterializeOverlay \/ FenceCommit \/ CommitMerge
    \/ VerifyLanded \/ RecordTransaction \/ ArchivePreparation

IntegratorNext ==
    \/ \E t \in Tasks : Prepare(t) \/ ResumeRecorded(t) \/ Load(t)
    \/ ValidateMerge \/ FailValidation \/ ExpireGrant
    \/ IntegratorContinues
=============================================================================
