------------------------------- MODULE Release -------------------------------
(***************************************************************************)
(* bin/release-feature.py: the passes of the release executor over the     *)
(* features that share one production target.  A pass holds the lock of    *)
(* the target and of the feature, so passes exclude one another; what      *)
(* races with a pass is everything outside it: the feature branch, the     *)
(* tracker, CI, the approver, the clocks of the proofs and the provider.   *)
(* What a pass leaves behind when it ends, or is killed, is the            *)
(* transaction of the release and the record of the target (the lease).    *)
(*                                                                         *)
(* A pass that dies takes its hook process with it (the OS job the         *)
(* deployment guide requires), but never the provider's own operation.     *)
(***************************************************************************)
EXTENDS Naturals

CONSTANTS Features,    \* the features released to this target
          LastCommit,  \* bound: commits of a feature branch, numbered in order
          Refused,     \* the releases whose plan the policy denies
          Reversible,  \* the releases whose plan declares a safe rollback
          Budgets,     \* the scenarios: mode, and how often each fault strikes
          None         \* no release: nothing deployed, no lease, no pass

Releases == Features \X (1 .. LastCommit)

ASSUME ReleaseAssumption ==
    /\ LastCommit \in Nat \ {0}
    /\ None \notin Releases
    /\ Refused \subseteq Releases
    /\ Reversible \subseteq Releases
    /\ Budgets \subseteq [mode : {"automatic", "approval-required"}, kills : Nat, heads : Nat,
                         verdicts : Nat, evidence : Nat, lapses : Nat, provider : Nat]

VARIABLES txn,      \* transaction.json of each release
          lease,    \* active.json of the target: the release that owns it
          run,      \* the pass at work and where it stands
          head,     \* commit of each feature branch
          tracker,  \* per feature: evidence digest and latest product verdict
          green,    \* CI of the head commit is green
          approval, \* nonce of the manifest the approver approved last
          stale,    \* releases whose approval or attestation has expired
          target,   \* the provider: its operation of each release, what is live
          finished, \* features in their terminal status
          spent,    \* <<release, nonce>> with which apply was started
          left      \* the scenario: mode and remaining faults

outside == <<head, tracker, green, approval, stale>>
vars == <<txn, lease, run, outside, target, finished, spent, left>>

PreApply == {"new", "awaiting-product-approval", "awaiting-ci",
             "awaiting-attestation", "planned", "awaiting-approval"}
InFlight == {"applying", "verifying", "rolling-back"}
Settled == {"succeeded", "rolled-back"}
Closed == {"failed", "denied", "superseded"}

Automatic == left.mode = "automatic"

Blank == [phase |-> "none", product |-> 0, used |-> FALSE, evidence |-> 0,
          attested |-> FALSE, nonce |-> 0, consumed |-> FALSE,
          plannedOver |-> None, previous |-> None]

Init ==
    /\ txn = [r \in Releases |-> Blank]
    /\ lease = None
    /\ run = [pc |-> "idle", r |-> None, seen |-> None, why |-> ""]
    /\ head = [f \in Features |-> 1]
    /\ tracker = [f \in Features |-> [evidence |-> 0, ok |-> FALSE, id |-> 0, on |-> 0, over |-> 0]]
    /\ green = [f \in Features |-> FALSE]
    /\ approval = [r \in Releases |-> 0]
    /\ stale = {}
    /\ target = [op |-> [r \in Releases |-> "not-applied"], live |-> None]
    /\ finished = {}
    /\ spent = {}
    /\ left \in Budgets

(***************************************************************************)
(* The pass: shorthands.                                                   *)
(***************************************************************************)
r0 == run.r
f0 == run.r[1]
here == txn[run.r]

Goto(pc) == run' = [run EXCEPT !.pc = pc]
Exit == run' = [pc |-> "idle", r |-> None, seen |-> None, why |-> ""]
Put(t) == txn' = [txn EXCEPT ![r0] = t]
Free(r) == lease' = IF lease = r THEN None ELSE lease

\* Mutant: the nonce is drawn once per release.
Manifest_Stable(t) == [t EXCEPT !.nonce = 1]

\* write_manifest: a fresh nonce, which no approval names yet.
Manifest(t) == [t EXCEPT !.nonce = @ + 1]

ResetForProduct(t) ==
    [t EXCEPT !.phase = "new", !.attested = FALSE, !.consumed = FALSE, !.used = FALSE]
ResetForAttestation(t) ==
    [t EXCEPT !.phase = "new", !.attested = FALSE, !.consumed = FALSE]
\* Mutant: a reset that keeps the phase.
ResetForCi_KeepsPhase(t) ==
    [t EXCEPT !.attested = FALSE, !.consumed = FALSE, !.used = FALSE, !.previous = None]
ResetForCi(t) ==
    [t EXCEPT !.phase = "awaiting-ci", !.attested = FALSE, !.consumed = FALSE,
              !.used = FALSE, !.previous = None]
ResetForEvidence(t) == [ResetForProduct(t) EXCEPT !.product = 0]

\* verify_integrations: the branch still stands at the commit of the pass.
AtHead == head[f0] = r0[2]
SameEvidence == AtHead /\ tracker[f0].evidence = here.evidence

\* evaluate: the latest verdict approves this commit with this evidence.
Accepted == /\ tracker[f0].ok
            /\ tracker[f0].on = r0[2]
            /\ tracker[f0].over = tracker[f0].evidence
SameProduct == Accepted /\ tracker[f0].id = here.product
TrackerStands == SameEvidence /\ SameProduct

\* validate_ci_proof and validate_approval_proof: the exact commit, the exact nonce.
CiGreen == green[f0]
NamesManifest(t) == approval[r0] = t.nonce

\* Mutant: a failed owner may be taken over.
Claimable_Failed == \/ lease \in {None, r0}
                    \/ lease \in Releases /\ txn[lease].phase \in Settled \union {"failed"}
Claimable == \/ lease \in {None, r0}
             \/ lease \in Releases /\ txn[lease].phase \in Settled

(***************************************************************************)
(* The pass: locks, other commits of the feature, transaction, product     *)
(* acceptance.                                                             *)
(***************************************************************************)
Siblings(f) == {r \in Releases : r[1] = f /\ r[2] # head[f] /\ txn[r].phase # "none"}

\* At most one sibling is still open: each pass closes or is blocked by it.
Blocks(r) == \/ txn[r].phase \in PreApply /\ (txn[r].used \/ txn[r].consumed)
             \/ txn[r].phase \in InFlight

Begin(f) ==
    /\ run.pc = "idle"
    /\ f \notin finished
    /\ \A r \in Siblings(f) : ~Blocks(r)
    /\ txn' = [r \in Releases |->
                 IF r \in Siblings(f) /\ txn[r].phase \in PreApply
                 THEN [txn[r] EXCEPT !.phase = "superseded"] ELSE txn[r]]
    /\ run' = [pc |-> "load", r |-> <<f, head[f]>>, seen |-> None, why |-> ""]
    /\ UNCHANGED <<lease, outside, target, finished, spent, left>>

Opened == IF here.phase = "none"
          THEN [Blank EXCEPT !.phase = "new", !.evidence = tracker[f0].evidence]
          ELSE here

VerdictChanged(t) == \/ t.product # 0 /\ t.product # tracker[f0].id
                     \/ t.phase = "awaiting-product-approval"

Load ==
    /\ run.pc = "load"
    /\ LET t == Opened
           accepted == [t EXCEPT !.product = tracker[f0].id]
       IN  \/ /\ ~AtHead \/ t.evidence # tracker[f0].evidence
              /\ Exit /\ UNCHANGED txn
           \/ /\ AtHead /\ t.evidence = tracker[f0].evidence
              /\ \/ t.used /\ Goto("ci") /\ UNCHANGED txn
                 \/ /\ ~t.used /\ ~Accepted
                    /\ Put([t EXCEPT !.phase = "awaiting-product-approval"]) /\ Exit
                 \/ /\ ~t.used /\ Accepted /\ VerdictChanged(t)
                    /\ t.phase \notin PreApply \/ t.consumed
                    /\ Exit /\ UNCHANGED txn
                 \/ /\ ~t.used /\ Accepted /\ VerdictChanged(t)
                    /\ t.phase \in PreApply /\ ~t.consumed
                    /\ Put(ResetForProduct(accepted)) /\ Goto("ci")
                 \/ /\ ~t.used /\ Accepted /\ ~VerdictChanged(t)
                    /\ Put(accepted) /\ Goto("ci")
    /\ UNCHANGED <<lease, outside, target, finished, spent, left>>

\* CI is asked only while no authority is consumed; later its proof is history.
CheckCi ==
    /\ run.pc = "ci"
    /\ \/ /\ here.phase \notin PreApply \/ here.used \/ here.consumed
          /\ Goto("attest") /\ UNCHANGED txn
       \/ /\ here.phase \in PreApply /\ ~here.used /\ ~here.consumed
          /\ \/ /\ CiGreen \/ ~AtHead
                /\ Put(IF here.phase = "awaiting-ci" THEN [here EXCEPT !.phase = "new"] ELSE here)
                /\ Goto("attest")
             \/ ~CiGreen /\ Put(ResetForCi(here)) /\ Exit
    /\ UNCHANGED <<lease, outside, target, finished, spent, left>>

\* Automatic mode: keep the recorded attestation, or obtain one.
Attested == LET expired == /\ here.attested /\ r0 \in stale
                           /\ here.phase \in PreApply /\ ~here.used /\ ~here.consumed
            IN  IF expired THEN ResetForAttestation(here) ELSE here

Attest ==
    /\ run.pc = "attest"
    /\ \/ (~Automatic \/ Attested.attested) /\ Goto("branch") /\ UNCHANGED <<txn, stale>>
       \/ /\ Automatic /\ ~Attested.attested
          /\ Attested.phase \notin {"new", "awaiting-attestation"}
          /\ Exit /\ UNCHANGED <<txn, stale>>
       \/ /\ Automatic /\ ~Attested.attested
          /\ Attested.phase \in {"new", "awaiting-attestation"}
          /\ Put([Attested EXCEPT !.phase = "new", !.attested = TRUE])
          /\ stale' = stale \ {r0}
          /\ Goto("branch")
    /\ UNCHANGED <<lease, head, tracker, green, approval, target, finished, spent, left>>

AttestorRefuses ==
    /\ run.pc = "attest"
    /\ Automatic /\ ~Attested.attested
    /\ Attested.phase \in {"new", "awaiting-attestation"}
    /\ left.lapses > 0
    /\ left' = [left EXCEPT !.lapses = @ - 1]
    /\ Put([Attested EXCEPT !.phase = "awaiting-attestation"])
    /\ Exit
    /\ UNCHANGED <<lease, outside, target, finished, spent>>

(***************************************************************************)
(* Closed transactions, the plan and its authorization.                    *)
(***************************************************************************)
Branch ==
    /\ run.pc = "branch"
    /\ \/ here.phase = "succeeded" /\ TrackerStands /\ Free(r0) /\ Goto("finish") /\ UNCHANGED <<txn, stale>>
       \/ here.phase = "succeeded" /\ ~TrackerStands /\ Exit /\ UNCHANGED <<txn, lease, stale>>
       \/ here.phase = "rolled-back" /\ Free(r0) /\ Exit /\ UNCHANGED <<txn, stale>>
       \/ here.phase \in Closed /\ Exit /\ UNCHANGED <<txn, lease, stale>>
       \/ /\ here.phase = "new"
          /\ Put([Manifest(here) EXCEPT !.phase = "planned", !.plannedOver = target.live])
          /\ stale' = IF Automatic THEN stale ELSE stale \ {r0}
          /\ Goto("authorize") /\ UNCHANGED lease
       \/ /\ here.phase \notin Settled \union Closed \union {"new"}
          /\ Goto("authorize") /\ UNCHANGED <<txn, lease, stale>>
    /\ UNCHANGED <<head, tracker, green, approval, target, finished, spent, left>>

\* verify_approval, then the policy on the plan. It never asks for an approval here: what
\* it would ask for is given by now, or the mode is automatic and it denies the plan.
Authorize ==
    /\ run.pc = "authorize"
    /\ LET asked == ~Automatic /\ ~here.consumed
           renewed == IF r0 \in stale THEN Manifest(here) ELSE here
           verified == NamesManifest(renewed)
           t == IF asked THEN [here EXCEPT !.phase = "planned"] ELSE here
       IN  \/ /\ asked /\ ~verified
              /\ Put([renewed EXCEPT !.phase = "awaiting-approval"])
              /\ stale' = stale \ {r0}
              /\ Exit
           \/ /\ ~asked \/ verified
              /\ UNCHANGED stale
              /\ \/ r0 \in Refused /\ Put([t EXCEPT !.phase = "denied"]) /\ Exit
                 \/ r0 \notin Refused /\ Put(t) /\ Goto("status")
    /\ UNCHANGED <<lease, head, tracker, green, approval, target, finished, spent, left>>

(***************************************************************************)
(* What the provider reports decides where the pass goes on.               *)
(***************************************************************************)
Operation == target.op[r0]
Pending == {"in-progress", "undoing"}
IsLive == Operation = "applied" /\ target.live = r0
\* Mutant: any applied artifact counts as the restored one.
Restored_Any == Operation = "applied"
Restored == Operation = "applied" /\ target.live = here.previous

Observe ==
    /\ run.pc = "status"
    /\ here.phase # "rolling-back"
    /\ \/ /\ Operation \in Pending \union {"failed"} /\ Claimable
          /\ lease' = r0
          /\ Put([here EXCEPT !.phase = IF Operation = "failed" THEN "failed" ELSE "applying"])
          /\ Exit
       \/ /\ Operation # "not-applied" /\ (~Claimable \/ (Operation = "applied" /\ ~IsLive))
          /\ Exit /\ UNCHANGED <<txn, lease>>
       \/ IsLive /\ Claimable /\ lease' = r0 /\ Goto("preverify") /\ UNCHANGED txn
       \/ /\ Operation = "not-applied" /\ here.consumed
          /\ Put([Manifest(here) EXCEPT !.phase = "awaiting-approval", !.consumed = FALSE,
                                        !.used = FALSE])
          /\ Exit /\ UNCHANGED lease
       \/ /\ Operation = "not-applied" /\ ~here.consumed
          /\ run' = [run EXCEPT !.pc = "recheck", !.seen = target.live]
          /\ UNCHANGED <<txn, lease>>
    /\ stale' = IF Operation = "not-applied" /\ here.consumed THEN stale \ {r0} ELSE stale
    /\ UNCHANGED <<head, tracker, green, approval, target, finished, spent, left>>

\* reconcile_rolling_back: a rollback is never started twice.
ObserveRollback ==
    /\ run.pc = "status"
    /\ here.phase = "rolling-back"
    /\ \/ ~Claimable /\ Exit /\ UNCHANGED <<txn, lease>>
       \/ /\ Claimable /\ lease' = r0
          /\ \/ Restored /\ Put([here EXCEPT !.phase = "rolled-back"]) /\ Goto("unlock")
             \/ Operation \in Pending /\ Exit /\ UNCHANGED txn
             \/ /\ ~Restored /\ Operation \notin Pending
                /\ Put([here EXCEPT !.phase = "failed"]) /\ Exit
    /\ UNCHANGED <<outside, target, finished, spent, left>>

(***************************************************************************)
(* Before apply: the tracker again, then the freshness of the proof.       *)
(***************************************************************************)
Recheck ==
    /\ run.pc = "recheck"
    /\ \/ ~AtHead /\ Exit /\ UNCHANGED txn
       \/ /\ AtHead /\ ~SameEvidence
          /\ Put([ResetForEvidence(here) EXCEPT !.phase = "awaiting-product-approval",
                                                !.evidence = tracker[f0].evidence])
          /\ Exit
       \/ /\ SameEvidence /\ ~SameProduct
          /\ Put([here EXCEPT !.phase = "awaiting-product-approval"]) /\ Exit
       \/ TrackerStands /\ Goto("fresh") /\ UNCHANGED txn
    /\ UNCHANGED <<lease, outside, target, finished, spent, left>>

Freshen ==
    /\ run.pc = "fresh"
    /\ \/ r0 \notin stale /\ Goto("consume") /\ UNCHANGED <<txn, stale>>
       \/ /\ r0 \in stale /\ Automatic
          /\ Put([ResetForAttestation(here) EXCEPT !.phase = "awaiting-attestation"])
          /\ Exit /\ UNCHANGED stale
       \/ /\ r0 \in stale /\ ~Automatic
          /\ Put([Manifest(here) EXCEPT !.phase = "awaiting-approval", !.consumed = FALSE])
          /\ Exit /\ stale' = stale \ {r0}
    /\ UNCHANGED <<lease, head, tracker, green, approval, target, finished, spent, left>>

\* In automatic mode a manifest that has expired is written again, and the pass goes on.
RenewManifest ==
    /\ run.pc = "fresh"
    /\ Automatic /\ r0 \notin stale
    /\ left.lapses > 0
    /\ left' = [left EXCEPT !.lapses = @ - 1]
    /\ Put(Manifest(here)) /\ Goto("consume")
    /\ UNCHANGED <<lease, outside, target, finished, spent>>

(***************************************************************************)
(* consume_apply_authority, between the policy check and the hook process: *)
(* validate, take the lease, write the marker, validate again.             *)
(***************************************************************************)
Consume ==
    /\ run.pc = "consume"
    /\ \/ (~TrackerStands \/ r0 \in stale) /\ Exit /\ UNCHANGED txn
       \/ TrackerStands /\ r0 \notin stale /\ ~CiGreen /\ Put(ResetForCi(here)) /\ Exit
       \/ TrackerStands /\ r0 \notin stale /\ CiGreen /\ Goto("claim") /\ UNCHANGED txn
    /\ UNCHANGED <<lease, outside, target, finished, spent, left>>

Claim ==
    /\ run.pc = "claim"
    /\ \/ Claimable /\ lease' = r0 /\ Goto("mark")
       \/ ~Claimable /\ Exit /\ UNCHANGED lease
    /\ UNCHANGED <<txn, outside, target, finished, spent, left>>

Mark ==
    /\ run.pc = "mark"
    /\ Put([here EXCEPT !.phase = "applying", !.used = TRUE, !.consumed = ~Automatic,
                        !.previous = run.seen])
    /\ Goto("again")
    /\ UNCHANGED <<lease, outside, target, finished, spent, left>>

\* Changed evidence ends the pass as it stands; the other losses undo the marker.
ValidateAgain ==
    /\ run.pc = "again"
    /\ \/ ~SameEvidence /\ Exit /\ UNCHANGED lease
       \/ /\ SameEvidence /\ (~SameProduct \/ r0 \in stale \/ ~CiGreen)
          /\ lease' = None
          /\ run' = [run EXCEPT !.pc = "unmark",
                                !.why = IF SameProduct /\ r0 \notin stale THEN "ci" ELSE "authority"]
       \/ /\ TrackerStands /\ r0 \notin stale /\ CiGreen
          /\ Goto("apply") /\ UNCHANGED lease
    /\ UNCHANGED <<txn, outside, target, finished, spent, left>>

Unmark ==
    /\ run.pc = "unmark"
    /\ Put(CASE run.why = "ci" -> ResetForCi(here)
             [] run.why # "ci" /\ Automatic ->
                  [ResetForAttestation(here) EXCEPT !.phase = "awaiting-attestation", !.used = FALSE]
             [] OTHER ->
                  [here EXCEPT !.phase = "awaiting-approval", !.consumed = FALSE, !.used = FALSE])
    /\ Exit
    /\ UNCHANGED <<lease, outside, target, finished, spent, left>>

(***************************************************************************)
(* Apply, verify, roll back, close.                                        *)
(***************************************************************************)
Apply ==
    /\ run.pc = "apply"
    /\ target' = [target EXCEPT !.op[r0] = "in-progress"]
    /\ spent' = spent \union {<<r0, here.nonce>>}
    /\ Goto("applied")
    /\ UNCHANGED <<txn, lease, outside, finished, left>>

\* The status after the hook: done, accepted and in progress, or an error.
ApplyReturns ==
    /\ run.pc = "applied"
    /\ IF IsLive THEN Goto("preverify") ELSE Exit
    /\ UNCHANGED <<txn, lease, outside, target, finished, spent, left>>

PreVerify ==
    /\ run.pc = "preverify"
    /\ \/ TrackerStands /\ Put([here EXCEPT !.phase = "verifying"]) /\ Goto("verify")
       \/ ~TrackerStands /\ Exit /\ UNCHANGED txn
    /\ UNCHANGED <<lease, outside, target, finished, spent, left>>

Verify ==
    /\ run.pc = "verify"
    /\ Goto("record")
    /\ UNCHANGED <<txn, lease, outside, target, finished, spent, left>>

SafeRollback == r0 \in Reversible /\ here.plannedOver = here.previous

VerifyFails ==
    /\ run.pc = "verify"
    /\ \/ SafeRollback /\ Put([here EXCEPT !.phase = "rolling-back"]) /\ Goto("rollback")
       \/ ~SafeRollback /\ Put([here EXCEPT !.phase = "failed"]) /\ Exit
    /\ UNCHANGED <<lease, outside, target, finished, spent, left>>

Rollback ==
    /\ run.pc = "rollback"
    /\ target' = [target EXCEPT !.op[r0] = "undoing"]
    /\ Goto("undone")
    /\ UNCHANGED <<txn, lease, outside, finished, spent, left>>

RollbackReturns ==
    /\ run.pc = "undone"
    /\ \/ Restored /\ Put([here EXCEPT !.phase = "rolled-back"]) /\ Goto("unlock")
       \/ ~Restored /\ Put([here EXCEPT !.phase = "failed"]) /\ Exit
    /\ UNCHANGED <<lease, outside, target, finished, spent, left>>

Record ==
    /\ run.pc = "record"
    /\ \/ TrackerStands /\ Put([here EXCEPT !.phase = "succeeded"]) /\ Goto("unlock")
       \/ ~TrackerStands /\ Exit /\ UNCHANGED txn
    /\ UNCHANGED <<lease, outside, target, finished, spent, left>>

Unlock ==
    /\ run.pc = "unlock"
    /\ Free(r0)
    /\ IF here.phase = "succeeded" /\ lease \in {r0, None} THEN Goto("finish") ELSE Exit
    /\ UNCHANGED <<txn, outside, target, finished, spent, left>>

\* finish_feature: the tracker once more, then the terminal status.
Finish ==
    /\ run.pc = "finish"
    /\ IF TrackerStands THEN Goto("close") ELSE Exit
    /\ UNCHANGED <<txn, lease, outside, target, finished, spent, left>>

CloseFeature ==
    /\ run.pc = "close"
    /\ finished' = finished \union {f0}
    /\ Exit
    /\ UNCHANGED <<txn, lease, outside, target, spent, left>>

Pass == \/ Load \/ CheckCi \/ Attest \/ AttestorRefuses \/ Branch \/ Authorize
        \/ Observe \/ ObserveRollback \/ Recheck \/ Freshen \/ RenewManifest
        \/ Consume \/ Claim \/ Mark
        \/ ValidateAgain \/ Unmark \/ Apply \/ ApplyReturns \/ PreVerify \/ Verify
        \/ VerifyFails \/ Rollback \/ RollbackReturns \/ Record \/ Unlock \/ Finish
        \/ CloseFeature

\* A kill, or a hook or command that fails, ends the pass between two steps.
Interrupt ==
    /\ run.pc # "idle"
    /\ left.kills > 0
    /\ left' = [left EXCEPT !.kills = @ - 1]
    /\ Exit
    /\ UNCHANGED <<txn, lease, outside, target, finished, spent>>

(***************************************************************************)
(* Outside the pass: developers, tracker, CI, approver, clocks, provider.  *)
(***************************************************************************)
Current(f) == /\ tracker[f].ok
              /\ tracker[f].on = head[f]
              /\ tracker[f].over = tracker[f].evidence

Commit(f) ==
    /\ left.heads > 0 /\ head[f] < LastCommit /\ f \notin finished
    /\ left' = [left EXCEPT !.heads = @ - 1]
    /\ head' = [head EXCEPT ![f] = @ + 1]
    /\ green' = [green EXCEPT ![f] = FALSE]
    /\ UNCHANGED <<txn, lease, run, tracker, approval, stale, target, finished, spent>>

EvidenceChanges(f) ==
    /\ left.evidence > 0
    /\ left' = [left EXCEPT !.evidence = @ - 1]
    /\ tracker' = [tracker EXCEPT ![f].evidence = @ + 1]
    /\ UNCHANGED <<txn, lease, run, head, green, approval, stale, target, finished, spent>>

ApproveProduct(f) ==
    /\ ~Current(f)
    /\ LET verdict == tracker[f]
       IN  tracker' = [tracker EXCEPT ![f] = [verdict EXCEPT !.ok = TRUE, !.id = verdict.id + 1,
                                              !.on = head[f], !.over = verdict.evidence]]
    /\ UNCHANGED <<txn, lease, run, head, green, approval, stale, target, finished, spent, left>>

\* The verdict is withdrawn, or its comment edited, which gives it a new digest.
VerdictChanges(f) ==
    /\ left.verdicts > 0 /\ Current(f)
    /\ left' = [left EXCEPT !.verdicts = @ - 1]
    /\ \/ tracker' = [tracker EXCEPT ![f].ok = FALSE]
       \/ tracker' = [tracker EXCEPT ![f].id = @ + 1]
    /\ UNCHANGED <<txn, lease, run, head, green, approval, stale, target, finished, spent>>

CiPasses(f) ==
    /\ ~green[f]
    /\ green' = [green EXCEPT ![f] = TRUE]
    /\ UNCHANGED <<txn, lease, run, head, tracker, approval, stale, target, finished, spent, left>>

CiFails(f) ==
    /\ left.lapses > 0 /\ green[f]
    /\ left' = [left EXCEPT !.lapses = @ - 1]
    /\ green' = [green EXCEPT ![f] = FALSE]
    /\ UNCHANGED <<txn, lease, run, head, tracker, approval, stale, target, finished, spent>>

Approve(r) ==
    /\ txn[r].phase = "awaiting-approval" /\ approval[r] # txn[r].nonce
    /\ approval' = [approval EXCEPT ![r] = txn[r].nonce]
    /\ UNCHANGED <<txn, lease, run, head, tracker, green, stale, target, finished, spent, left>>

Expire(r) ==
    /\ left.lapses > 0 /\ r \notin stale /\ txn[r].nonce > 0
    /\ left' = [left EXCEPT !.lapses = @ - 1]
    /\ stale' = stale \union {r}
    /\ UNCHANGED <<txn, lease, run, head, tracker, green, approval, target, finished, spent>>

Complete(r) ==
    /\ target.op[r] \in Pending
    /\ target' = [op |-> [target.op EXCEPT ![r] = "applied"],
                  live |-> IF target.op[r] = "undoing" THEN txn[r].previous ELSE r]
    /\ UNCHANGED <<txn, lease, run, outside, finished, spent, left>>

OperationFails(r) ==
    /\ left.provider > 0
    /\ left' = [left EXCEPT !.provider = @ - 1]
    /\ \/ /\ target.op[r] \in Pending
          /\ target' = [target EXCEPT !.op[r] = "failed"]
       \/ /\ target.op[r] = "in-progress"
          /\ target' = [target EXCEPT !.op[r] = "not-applied"]
    /\ UNCHANGED <<txn, lease, run, outside, finished, spent>>

Outside ==
    \/ \E f \in Features : \/ Commit(f) \/ EvidenceChanges(f) \/ ApproveProduct(f)
                           \/ VerdictChanges(f) \/ CiPasses(f) \/ CiFails(f)
    \/ \E r \in Releases : Approve(r) \/ Expire(r) \/ Complete(r) \/ OperationFails(r)

Next == (\E f \in Features : Begin(f)) \/ Pass \/ Interrupt \/ Outside

Safety == Init /\ [][Next]_vars

\* Cron repeats the passes of every feature, hooks and commands return, CI ends
\* green, people answer requests, and the provider ends what it accepted.
Fairness ==
    /\ WF_vars(Pass)
    /\ \A f \in Features : /\ SF_vars(Begin(f))
                           /\ WF_vars(ApproveProduct(f))
                           /\ WF_vars(CiPasses(f))
    /\ \A r \in Releases : WF_vars(Approve(r)) /\ WF_vars(Complete(r))

Spec == Safety /\ Fairness

(***************************************************************************)
(* Properties.                                                             *)
(***************************************************************************)
Phases == PreApply \union InFlight \union Settled \union Closed \union {"none"}

\* The transactions, the lease, the pass and what surrounds them have their types.
TypeOK ==
    /\ txn \in [Releases -> [phase : Phases, product : Nat, used : BOOLEAN, evidence : Nat,
                             attested : BOOLEAN, nonce : Nat, consumed : BOOLEAN,
                             plannedOver : Releases \union {None},
                             previous : Releases \union {None}]]
    /\ lease \in Releases \union {None}
    /\ run.r \in Releases \union {None} /\ run.seen \in Releases \union {None}
    /\ run.pc = "idle" <=> run.r = None
    /\ head \in [Features -> 1 .. LastCommit]
    /\ tracker \in [Features -> [evidence : Nat, ok : BOOLEAN, id : Nat, on : Nat, over : Nat]]
    /\ green \in [Features -> BOOLEAN]
    /\ approval \in [Releases -> Nat]
    /\ stale \subseteq Releases
    /\ target \in [op : [Releases -> {"not-applied", "applied", "failed"} \union Pending],
                   live : Releases \union {None}]
    /\ finished \subseteq Features
    /\ spent \subseteq Releases \X Nat

\* What a release started on the target it owns there until the outcome is verified or
\* rolled back, whatever kills, lost proofs and other features come in between
\* (claim_target_lease, release_target_lease): so no two releases are at work on it. And a
\* feature in its terminal status has a release that succeeded.
TargetFenced ==
    /\ TypeOK
    /\ \A r \in Releases :
        target.op[r] # "not-applied" /\ txn[r].phase \notin Settled => lease = r
    /\ \A f \in finished : \E c \in 1 .. LastCommit : txn[<<f, c>>].phase = "succeeded"

Applies(r) == run.r = r /\ run.pc = "apply" /\ run'.pc = "applied"

\* Apply starts behind the lease and the durable marker, on a target without the release,
\* and an approved manifest starts it at most once: a pass that died after the marker
\* must have a new manifest approved (the approvalConsumedAt branch of execute).
OneApplyPerApproval ==
    [][\A r \in Releases : Applies(r) =>
          /\ target.op[r] = "not-applied"
          /\ lease = r /\ txn[r].phase = "applying" /\ txn[r].used
          /\ Automatic \/ (approval[r] = txn[r].nonce /\ <<r, txn[r].nonce>> \notin spent)]_vars

\* A release is recorded as succeeded only while its artifact serves the target, and as
\* rolled back only while the artifact observed before its apply does.
OutcomeServes ==
    [][\A r \in Releases : txn'[r].phase # txn[r].phase =>
          /\ txn'[r].phase = "succeeded" => target.live = r
          /\ txn'[r].phase = "rolled-back" => target.live = txn[r].previous]_vars

\* The owner of the target's record is in flight, settled or failed: that is what the
\* refusal of claim_target_lease tells the release it turns away.
OwnerInFlight == lease = None \/ txn[lease].phase # "superseded"

\* An operator must step in: the release failed, or the verdict that its apply consumed
\* was changed since.
Stranded(r) ==
    \/ txn[r].phase = "failed"
    \/ txn[r].used /\ ~(tracker[r[1]].ok /\ tracker[r[1]].id = txn[r].product)

\* While commits and evidence stand still, each feature is finished, or its release is
\* refused or rolled back, or it or the release that owns the target is stranded.
ReleaseEnds ==
    left.heads = 0 /\ left.evidence = 0 =>
        \A f \in Features :
            LET r == <<f, head[f]>>
            IN  <>(\/ f \in finished
                   \/ txn[r].phase \in {"denied", "rolled-back"}
                   \/ Stranded(r)
                   \/ lease # None /\ Stranded(lease))
=============================================================================
