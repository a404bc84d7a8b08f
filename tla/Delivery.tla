------------------------------ MODULE Delivery ------------------------------
(***************************************************************************)
(* The state that integrate-task.sh (the integrator) and                   *)
(* finalize-integrations.sh (the credentialed broker) share: the feature   *)
(* branch and its one checkout, the tracker board, the task hold registry  *)
(* and the journals under <workspace>/integrations.                        *)
(*                                                                         *)
(* A commit of the feature branch is identified by its position, so the    *)
(* head of the branch is Len(feature) and the first parent of commit i is  *)
(* i - 1.  A review round is identified by the attempt that asked for it   *)
(* and the task-branch head it binds: the digests of the package and of    *)
(* the approvals are functions of those two.                               *)
(***************************************************************************)
EXTENDS Naturals, Sequences, Functions

CONSTANTS
    Tasks,        \* task ids of one feature
    Brokers,      \* processes that may run finalize-integrations.sh
    Grants,       \* digests of the snapshots that authorize a preparation
    None,         \* an absent file, and the digest of no authorization
    MaxAttempt,   \* bound: attempts claimed per task
    MaxHead,      \* bound: commits on a task branch
    MaxCommits,   \* bound: commits on the feature branch
    MaxIntegratorCrashes, MaxBrokerCrashes,  \* bounds: kills of either script, or failures like them
    MaxEdits,     \* bound: producer edits after the review was requested
    MaxBlocks,    \* bound: human moves into [Blocked]
    MaxFindings   \* bound: review findings posted

ASSUME BudgetAssumption == {MaxIntegratorCrashes, MaxBrokerCrashes, MaxEdits,
                            MaxBlocks, MaxFindings} \subseteq Nat

Statuses == {"queued", "working", "review", "blocked", "terminal"}
Verdicts == {"none", "requested", "approved", "findings"}
Worktrees == {"absent", "clean", "dirty"}

\* A commit on the feature branch: a two-parent integration, or a revert of
\* commit `of`.  `base` is the head the commit was prepared against.
Commits == [op : {"merge", "revert"}, task : Tasks, attempt : Nat,
            head : Nat, base : Nat, grant : Grants \cup {None}, of : Nat]

\* integrations/.prepared/<task>.json
Preparations == [task : Tasks, attempt : Nat, head : Nat, base : Nat,
                 grant : Grants \cup {None}]

\* integrations/<task>.json
Phases == {"awaiting-tracker", "tracker-finalized", "event-emitted", "completed"}
Transactions == [commit : Nat, attempt : Nat, head : Nat, base : Nat,
                 phase : Phases]

\* integrations/.recoveries/<task>.json
Recoveries == [commit : Nat, txPhase : Phases, preHead : Nat, revert : Nat,
               phase : {"revert-prepared", "reverted", "superseded"}]

\* The absence of a file is not something a file holds.
ASSUME NoneAssumption == None \notin Grants \cup Preparations \cup Transactions \cup Recoveries

\* The feature checkout: clean, a merge whose MERGE_HEAD is set but whose
\* tree is not yet the reviewed overlay, the same with the overlay in the
\* index, or a staged revert.
Checkouts == [op : {"clean", "merge-head", "merge", "revert"},
              task : Tasks \cup {None}, head : Nat]
Clean == [op |-> "clean", task |-> None, head |-> 0]

\* A transaction lock is absent, names a broker, or is a directory without an
\* owner.pid.
Ownerless == "ownerless"

Reviews == [attempt : Nat, head : Nat, verdict : Verdicts]

VARIABLES
    \* Git
    feature,     \* the feature branch, oldest commit first
    checkout,    \* what is in progress in the feature checkout
    branch,      \* head of each task branch
    worktree,    \* the task worktree of the current attempt
    \* tracker
    status, review,
    approvals,   \* review rounds whose approvals were ever posted
    noted,       \* commits cited by an "Integrated: commit" comment
    retracted,   \* commits cited by an [integration-superseded] comment
    \* workspace
    attempt,     \* executions/<task>.json
    held,        \* task-holds.json says the task is held
    prep, prepHistory, tx, txHistory, recovery,
    events,      \* task.integrated records of events.ndjson, by commit, in order
    lock,        \* integrations/.locks/<task>.lock
    \* processes
    integ, fin,
    budget       \* what is left of the bounds on the environment

gitVars == <<feature, checkout, branch, worktree>>
trackerVars == <<status, review, approvals, noted, retracted>>
journalVars == <<prep, prepHistory, tx, txHistory, recovery, events, lock>>
vars == <<gitVars, trackerVars, attempt, held, journalVars, integ, fin, budget>>

-----------------------------------------------------------------------------
Tip == Len(feature)

\* git status --porcelain is empty and no MERGE_HEAD exists.
CheckoutClean == checkout.op = "clean"

\* assert_task_not_held
Unheld(t) == ~held[t]

\* assert_tracker_task_review_authorized
InReview(t) == status[t] = "review"

\* validate_review_evidence: the current round is this one, approved, and no
\* findings were posted after its request.
EvidenceCurrent(r, a, h) == r = [attempt |-> a, head |-> h, verdict |-> "approved"]

\* The identity of a preparation is computed from everything but its phase.
PrepId(p) == [task |-> p.task, attempt |-> p.attempt, head |-> p.head, base |-> p.base]

SameIntent(p, t, x) ==
    PrepId(p) = [task |-> t, attempt |-> x.attempt, head |-> x.head, base |-> x.base]

\* Mutant: the integrator does not wait for the broker.
Authorized_Any(p) == TRUE
Authorized(p) == p.grant # None

\* The commit has these trailers and these parents.
\* Mutant: the first parent is not compared.
IsIntegration_AnyParent(i, p) ==
    /\ i \in 1 .. Tip
    /\ feature[i].op = "merge"
    /\ PrepId(feature[i]) = PrepId(p)
    /\ feature[i].grant = p.grant
IsIntegration(i, p) ==
    /\ i \in 1 .. Tip
    /\ feature[i].op = "merge"
    /\ PrepId(feature[i]) = PrepId(p)
    /\ feature[i].grant = p.grant
    /\ i = p.base + 1

\* The checks of authorize_preparation.
\* Mutant: the base is compared with the wrong parent.
Authorizable_OffByOne(t) ==
    /\ Unheld(t) /\ prep[t] # None
    /\ prep[t].base + 1 = Tip /\ prep[t].head = branch[t]
    /\ InReview(t) /\ EvidenceCurrent(review[t], prep[t].attempt, prep[t].head)
Authorizable(t) ==
    /\ Unheld(t) /\ prep[t] # None
    /\ prep[t].base = Tip /\ prep[t].head = branch[t]
    /\ InReview(t) /\ EvidenceCurrent(review[t], prep[t].attempt, prep[t].head)

\* validate_entry without a snapshot: the branch, the execution record, the
\* worktree, the commit's trailers and the archived preparation still agree.
ValidEntry(t) ==
    /\ tx[t] # None
    /\ branch[t] = tx[t].head /\ attempt[t] = tx[t].attempt
    /\ worktree[t] # "dirty"
    /\ \E p \in prepHistory : /\ SameIntent(p, t, tx[t]) /\ Authorized(p)
                              /\ IsIntegration(tx[t].commit, p)
=============================================================================
