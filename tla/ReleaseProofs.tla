---------------------------- MODULE ReleaseProofs ----------------------------
(***************************************************************************)
(* The safety of production releases, for any number of features, commits   *)
(* and faults: what a release started on a target it owns there until its   *)
(* outcome is known, an approved manifest starts an apply at most once, and *)
(* an outcome is recorded only while the target shows it.                   *)
(***************************************************************************)
EXTENDS Release, TLAPS

PassPlaces == {"idle", "load", "ci", "attest", "branch", "authorize", "status", "recheck",
               "fresh", "consume", "claim", "mark", "again", "unmark", "apply", "applied",
               "preverify", "verify", "record", "rollback", "undone", "unlock", "finish", "close"}

TxnType == [phase : Phases, product : Nat, used : BOOLEAN, evidence : Nat, attested : BOOLEAN,
            nonce : Nat, consumed : BOOLEAN, plannedOver : Releases \union {None},
            previous : Releases \union {None}]
RunType == [pc : PassPlaces, r : Releases \union {None}, seen : Releases \union {None},
            why : {"", "ci", "authority"}]
Modes == [mode : {"automatic", "approval-required"}, kills : Nat, heads : Nat,
          verdicts : Nat, evidence : Nat, lapses : Nat, provider : Nat]
TargetType == [op : [Releases -> {"not-applied", "applied", "failed"} \union Pending],
               live : Releases \union {None}]
TrackerType == [evidence : Nat, ok : BOOLEAN, id : Nat, on : Nat, over : Nat]

Types == TypeOK /\ run \in RunType /\ left \in Modes

\* What a transaction says, the provider agrees with; the marker of an apply outlives it, and
\* so does its consumed approval.
Journaled(r) ==
    /\ txn[r].phase = "none" => txn[r] = Blank
    /\ target.op[r] # "not-applied" => txn[r].used
    /\ txn[r].phase \in {"verifying", "rolling-back"} => target.op[r] \in {"applied", "undoing", "failed"}
    /\ txn[r].phase \in Settled => target.op[r] = "applied"
    /\ target.op[r] # "not-applied" /\ txn[r].phase \notin Settled => lease = r
    /\ approval[r] <= txn[r].nonce
    /\ \A p \in spent : p[1] = r => p[2] <= txn[r].nonce
    /\ ~Automatic /\ <<r, txn[r].nonce>> \in spent => txn[r].consumed

\* From the status of the provider to its apply, and from its apply to the outcome.
Before == {"recheck", "fresh", "consume", "claim", "mark", "again", "unmark", "apply"}
After == {"applied", "preverify", "verify", "record", "rollback", "undone"}

\* What the pass has seen still stands.
Standing ==
    /\ run.pc \notin {"idle", "load"} => here.phase # "none"
    /\ run.pc \in Before => target.op[r0] = "not-applied"
    /\ run.pc \in {"mark", "again", "apply"} \union After => lease = r0
    /\ run.pc \in {"authorize", "status", "applied", "preverify"} => here.phase \notin Settled
    /\ run.pc \in {"again", "apply"}
           => here.phase = "applying" /\ here.used /\ here.consumed = ~Automatic
    /\ run.pc \in {"preverify", "verify", "record", "rollback"}
           => target.op[r0] = "applied" /\ target.live = r0
    /\ run.pc \in {"verify", "record"} => here.phase = "verifying"
    /\ run.pc \in {"rollback", "undone"} => here.phase = "rolling-back"
    /\ run.pc = "unlock" => here.phase \in Settled
    /\ run.pc \in {"finish", "close"} => here.phase = "succeeded"
    /\ ~Automatic /\ run.pc = "status" /\ ~here.consumed => approval[r0] = here.nonce
    /\ ~Automatic /\ run.pc \in Before
           => approval[r0] = here.nonce /\ <<r0, here.nonce>> \notin spent

Ended == \A f \in finished : \E c \in 1 .. LastCommit : txn[<<f, c>>].phase = "succeeded"

IInv == Types /\ (\A r \in Releases : Journaled(r)) /\ Standing /\ Ended

LEMMA BlankFacts ==
    /\ Blank \in TxnType /\ Blank.phase = "none" /\ Blank.nonce = 0 /\ ~Blank.used
    /\ ~Blank.consumed
<1>1. "none" \in Phases
  BY DEF Phases
<1> QED BY <1>1 DEF Blank, TxnType

LEMMA InitInv == Init => IInv
<1> SUFFICES ASSUME Init PROVE IInv
  OBVIOUS
<1>1. Types
  <2>1. txn = [r \in Releases |-> Blank] /\ txn \in [Releases -> TxnType]
    BY BlankFacts DEF Init
  <2>2. run \in RunType /\ run.r = None /\ run.seen = None /\ run.pc = "idle"
    <3>1. "idle" \in PassPlaces /\ "" \in {"", "ci", "authority"}
      BY DEF PassPlaces
    <3> QED BY <3>1 DEF Init, RunType
  <2>3. left \in Modes
    BY ReleaseAssumption DEF Init, Modes
  <2>4. 1 \in 1 .. LastCommit
    BY ReleaseAssumption
  <2>5. head \in [Features -> 1 .. LastCommit]
    BY <2>4 DEF Init
  <2>6. [evidence |-> 0, ok |-> FALSE, id |-> 0, on |-> 0, over |-> 0] \in TrackerType
    BY DEF TrackerType
  <2>7. tracker \in [Features -> TrackerType]
    BY <2>6 DEF Init
  <2>8. approval \in [Releases -> Nat] /\ green \in [Features -> BOOLEAN]
    BY DEF Init
  <2>9. target \in TargetType
    BY DEF Init, TargetType
  <2>10. /\ lease = None /\ stale = {} /\ finished = {} /\ spent = {}
    BY DEF Init
  <2> QED BY <2>1, <2>2, <2>3, <2>5, <2>7, <2>8, <2>9, <2>10
         DEF Types, TypeOK, TxnType, TrackerType, TargetType
<1>2. ASSUME NEW r \in Releases PROVE Journaled(r)
  <2>1. /\ txn[r] = Blank /\ target.op[r] = "not-applied" /\ approval[r] = 0 /\ spent = {}
    BY DEF Init
  <2> QED BY <2>1, BlankFacts DEF Journaled, Settled
<1>3. Standing
  BY DEF Init, Standing, Before, After
<1> QED BY <1>1, <1>2, <1>3 DEF IInv, Ended, Init

\* What the types say of the pass under way.
LEMMA PassFacts ==
    ASSUME Types, run.pc # "idle"
    PROVE  /\ r0 \in Releases /\ f0 \in Features /\ here \in TxnType
           /\ txn \in [Releases -> TxnType] /\ run \in RunType
           /\ None \notin Releases
BY ReleaseAssumption DEF Types, TypeOK, r0, f0, here, TxnType, RunType, Releases

\* A pass that exits holds nothing it has seen.
LEMMA ExitFacts ==
    ASSUME Exit
    PROVE  /\ run' \in RunType /\ Standing' /\ run'.pc = "idle" /\ run'.r = None
           /\ run'.pc = "idle" <=> run'.r = None
BY DEF Exit, RunType, PassPlaces, Standing, Before, After

LEMMA GotoFacts ==
    ASSUME Types, run.pc # "idle", NEW pc \in PassPlaces \ {"idle"}, Goto(pc)
    PROVE  /\ run' \in RunType /\ run'.pc = pc /\ r0' = r0 /\ run'.r = run.r
           /\ run'.pc = "idle" <=> run'.r = None
BY DEF Goto, Types, TypeOK, RunType, r0

-----------------------------------------------------------------------------
(* A step of the pass writes its own transaction, or the lease, or neither.  *)

\* What a pass may write into the transaction of its release.
Faithful(t) ==
    /\ t \in TxnType
    /\ t.phase = "none" => t = Blank
    /\ target.op[r0] # "not-applied" => t.used
    /\ t.phase \in {"verifying", "rolling-back"} => target.op[r0] \in {"applied", "undoing", "failed"}
    /\ t.phase \in Settled => target.op[r0] = "applied"
    /\ target.op[r0] # "not-applied" /\ t.phase \notin Settled => lease' = r0
    /\ t.nonce >= here.nonce
    /\ ~Automatic /\ <<r0, t.nonce>> \in spent => t.consumed
    /\ here.phase = "succeeded" => t.phase = "succeeded"
    /\ t.phase = "succeeded" => here.phase = "succeeded" \/ target.live = r0
    /\ t.phase = "rolled-back" => here.phase = "rolled-back" \/ target.live = here.previous

\* The outcomes that a step records are those the target shows.
Served == \A r \in Releases : txn'[r].phase # txn[r].phase =>
              /\ txn'[r].phase = "succeeded" => target.live = r
              /\ txn'[r].phase = "rolled-back" => target.live = txn[r].previous

Surroundings ==
    /\ UNCHANGED <<head, tracker, green, approval, target, spent, finished>>
    /\ stale' \subseteq stale
    /\ left' \in Modes /\ left'.mode = left.mode

LeaseStep == lease' = lease \/ (Claimable /\ lease' \in {r0, None})

LEMMA WriteStep ==
    ASSUME IInv, run.pc # "idle", NEW t, Faithful(t), Put(t), Surroundings, LeaseStep,
           run' \in RunType, run'.pc = "idle" <=> run'.r = None, Standing'
    PROVE  IInv' /\ Served
<1>1. /\ r0 \in Releases /\ txn \in [Releases -> TxnType] /\ None \notin Releases /\ here = txn[r0]
      /\ here \in TxnType
  BY PassFacts DEF IInv, here, r0
<1>2. /\ txn' \in [Releases -> TxnType] /\ txn'[r0] = t
      /\ \A r \in Releases \ {r0} : txn'[r] = txn[r]
  BY <1>1 DEF Put, Faithful
<1>3. ASSUME NEW r \in Releases, r = r0 PROVE Journaled(r)'
  <2>1. /\ Journaled(r) /\ txn[r].nonce \in Nat /\ approval[r] \in Nat /\ t.nonce \in Nat
        /\ t.nonce >= txn[r].nonce /\ spent \subseteq Releases \X Nat
    BY <1>1, <1>3 DEF IInv, Types, TypeOK, TxnType, Faithful
  <2>2. approval[r] <= t.nonce /\ \A p \in spent : p[1] = r => p[2] <= t.nonce
    BY <2>1 DEF Journaled
  <2>3. txn'[r] = t
    BY <1>2, <1>3
  <2> QED BY <1>3, <2>2, <2>3 DEF Journaled, Faithful, Automatic, Surroundings
<1>4. ASSUME NEW r \in Releases, r # r0 PROVE Journaled(r)'
  <2>1. Journaled(r) /\ txn'[r] = txn[r]
    BY <1>2, <1>4 DEF IInv
  <2>2. target.op[r] # "not-applied" /\ txn[r].phase \notin Settled => lease' = r
    BY <1>1, <1>4, <2>1 DEF Journaled, Claimable, LeaseStep
  <2> QED BY <2>1, <2>2 DEF Journaled, Automatic, Surroundings
<1>5. Ended'
  <2>1. \A f \in finished, c \in 1 .. LastCommit : <<f, c>> \in Releases
    BY DEF IInv, Types, TypeOK, Releases
  <2>2. \A r \in Releases : txn[r].phase = "succeeded" => txn'[r].phase = "succeeded"
    BY <1>1, <1>2 DEF Faithful
  <2> QED BY <2>1, <2>2 DEF IInv, Ended, Surroundings
<1>6. Types'
  <2>1. lease' \in Releases \union {None} /\ stale' \subseteq Releases
    BY <1>1 DEF LeaseStep, IInv, Types, TypeOK, Surroundings
  <2> QED BY <1>2, <2>1 DEF IInv, Types, TypeOK, Surroundings, TxnType, RunType
<1>7. Served
  BY <1>1, <1>2 DEF Served, Faithful
<1> QED BY <1>3, <1>4, <1>5, <1>6, <1>7 DEF IInv

\* What stands in the transaction is faithful, as long as the lease stays with it.
LEMMA HereFaithful ==
    ASSUME IInv, run.pc # "idle",
           target.op[r0] # "not-applied" /\ here.phase \notin Settled => lease' = r0
    PROVE  Faithful(here)
<1>1. r0 \in Releases /\ here \in TxnType /\ here = txn[r0] /\ here.nonce \in Nat
  BY PassFacts DEF IInv, here, r0, TxnType
<1>2. Journaled(r0)
  BY <1>1 DEF IInv
<1> QED BY <1>1, <1>2 DEF Faithful, Journaled

LEMMA WaitStep ==
    ASSUME IInv, run.pc # "idle", UNCHANGED txn, Surroundings, LeaseStep,
           target.op[r0] # "not-applied" /\ here.phase \notin Settled => lease' = r0,
           run' \in RunType, run'.pc = "idle" <=> run'.r = None, Standing'
    PROVE  IInv' /\ Served
<1>1. Faithful(here)
  BY HereFaithful
<1>2. Put(here)
  BY PassFacts DEF IInv, Put, here, r0
<1> QED BY <1>1, <1>2, WriteStep

\* A step that leaves the lease alone.
LEMMA IdleWait ==
    ASSUME IInv, run.pc # "idle", UNCHANGED <<txn, lease>>, Surroundings, Exit
    PROVE  IInv' /\ Served
<1>1. target.op[r0] # "not-applied" /\ here.phase \notin Settled => lease' = r0
  BY PassFacts DEF IInv, Journaled, here, r0
<1> QED BY <1>1, ExitFacts, WaitStep DEF LeaseStep

LEMMA IdleWrite ==
    ASSUME IInv, run.pc # "idle", NEW t, Faithful(t), Put(t), Surroundings, LeaseStep, Exit
    PROVE  IInv' /\ Served
BY ExitFacts, WriteStep

\* What must stand when the pass goes on at pc with the transaction t.
StandsAt(pc, t) ==
    /\ pc # "load" => t.phase # "none"
    /\ pc \in Before => target.op[r0] = "not-applied"
    /\ pc \in {"mark", "again", "apply"} \union After => lease' = r0
    /\ pc \in {"authorize", "status", "applied", "preverify"} => t.phase \notin Settled
    /\ pc \in {"again", "apply"} => t.phase = "applying" /\ t.used /\ t.consumed = ~Automatic
    /\ pc \in {"preverify", "verify", "record", "rollback"}
           => target.op[r0] = "applied" /\ target.live = r0
    /\ pc \in {"verify", "record"} => t.phase = "verifying"
    /\ pc \in {"rollback", "undone"} => t.phase = "rolling-back"
    /\ pc = "unlock" => t.phase \in Settled
    /\ pc \in {"finish", "close"} => t.phase = "succeeded"
    /\ ~Automatic /\ pc = "status" /\ ~t.consumed => approval[r0] = t.nonce
    /\ ~Automatic /\ pc \in Before => approval[r0] = t.nonce /\ <<r0, t.nonce>> \notin spent

MovesTo(pc) == run' \in RunType /\ run'.pc = pc /\ run'.r = run.r

LEMMA GotoMoves ==
    ASSUME IInv, run.pc # "idle", NEW pc \in PassPlaces \ {"idle"}, Goto(pc)
    PROVE  MovesTo(pc)
BY GotoFacts DEF IInv, MovesTo

\* What stands for the pass is what must stand at its place.
LEMMA Stands == ASSUME Standing, run.pc # "idle", lease' = lease PROVE StandsAt(run.pc, here)
BY DEF Standing, StandsAt

LEMMA StandingAfter ==
    ASSUME IInv, run.pc # "idle", NEW pc \in PassPlaces \ {"idle"}, NEW t, txn'[r0] = t,
           Surroundings, MovesTo(pc), StandsAt(pc, t)
    PROVE  Standing' /\ (run'.pc = "idle" <=> run'.r = None)
<1>1. r0' = r0 /\ here' = t /\ run'.pc = pc
  BY DEF MovesTo, r0, here
<1>2. run.r # None
  BY DEF IInv, Types, TypeOK
<1>3. /\ target' = target /\ spent' = spent /\ approval' = approval
      /\ Automatic' = Automatic
  BY DEF Surroundings, Automatic
<1>4. Standing'
  BY <1>1, <1>3 DEF Standing, StandsAt, Before, After
<1> QED BY <1>1, <1>2, <1>4 DEF MovesTo

LEMMA GotoWrite ==
    ASSUME IInv, run.pc # "idle", NEW pc \in PassPlaces \ {"idle"}, NEW t, Faithful(t), Put(t),
           Surroundings, LeaseStep, MovesTo(pc), StandsAt(pc, t)
    PROVE  IInv' /\ Served
<1>1. txn'[r0] = t
  BY PassFacts DEF IInv, Put
<1>2. Standing' /\ (run'.pc = "idle" <=> run'.r = None)
  BY <1>1, StandingAfter
<1> QED BY <1>2, WriteStep DEF MovesTo

LEMMA GotoWait ==
    ASSUME IInv, run.pc # "idle", NEW pc \in PassPlaces \ {"idle"}, UNCHANGED txn,
           Surroundings, LeaseStep,
           target.op[r0] # "not-applied" /\ here.phase \notin Settled => lease' = r0,
           MovesTo(pc), StandsAt(pc, here)
    PROVE  IInv' /\ Served
<1>1. txn'[r0] = here
  BY DEF here, r0
<1>2. Standing' /\ (run'.pc = "idle" <=> run'.r = None)
  BY <1>1, StandingAfter
<1> QED BY <1>2, WaitStep DEF MovesTo

\* A step that leaves transaction and lease alone.
LEMMA GotoQuiet ==
    ASSUME IInv, run.pc # "idle", NEW pc \in PassPlaces \ {"idle"}, UNCHANGED <<txn, lease>>,
           Surroundings, MovesTo(pc), StandsAt(pc, here)
    PROVE  IInv' /\ Served
<1>1. target.op[r0] # "not-applied" /\ here.phase \notin Settled => lease' = r0
  BY PassFacts DEF IInv, Journaled, here, r0
<1> QED BY <1>1, GotoWait DEF LeaseStep

-----------------------------------------------------------------------------
(* The steps of a pass.                                                      *)

\* What the invariant says of the transaction of the pass.
LEMMA HereFacts ==
    ASSUME IInv, run.pc # "idle"
    PROVE  /\ here \in TxnType /\ here.nonce \in Nat /\ here.phase \in Phases
           /\ here.phase = "none" => here = Blank
           /\ target.op[r0] # "not-applied" => here.used
           /\ here.phase \in {"verifying", "rolling-back"}
                  => target.op[r0] \in {"applied", "undoing", "failed"}
           /\ here.phase \in Settled => target.op[r0] = "applied"
           /\ target.op[r0] # "not-applied" /\ here.phase \notin Settled => lease = r0
           /\ approval[r0] \in Nat /\ approval[r0] <= here.nonce
           /\ \A n \in Nat : <<r0, n>> \in spent => n <= here.nonce
           /\ ~Automatic /\ <<r0, here.nonce>> \in spent => here.consumed
           /\ r0 \in Releases /\ None \notin Releases /\ run.r = r0
           /\ f0 \in Features
<1>1. /\ r0 \in Releases /\ here \in TxnType /\ here = txn[r0] /\ f0 \in Features
      /\ None \notin Releases /\ run.r = r0
  BY PassFacts DEF IInv, here, r0
<1>2. Journaled(r0) /\ approval[r0] \in Nat
  BY <1>1 DEF IInv, Types, TypeOK
<1> QED BY <1>1, <1>2 DEF Journaled, TxnType

\* Before the provider has anything of the release its transaction is free to change; later
\* it keeps its marker, and the lease.
LEMMA Unapplied ==
    ASSUME IInv, run.pc # "idle",
           NEW t \in TxnType, t.phase \notin Settled \union {"none", "verifying", "rolling-back"},
           \/ target.op[r0] = "not-applied"
           \/ t.used = here.used /\ here.phase \notin Settled /\ lease' \in {lease, r0},
           t.nonce >= here.nonce,
           ~Automatic /\ <<r0, t.nonce>> \in spent => t.consumed
    PROVE  Faithful(t)
BY HereFacts DEF Faithful, Settled

\* An updated transaction, field by field.
LEMMA Resets ==
    ASSUME NEW t \in TxnType
    PROVE  /\ ResetForProduct(t) \in TxnType /\ ResetForProduct(t).phase = "new"
           /\ ResetForProduct(t).nonce = t.nonce /\ ~ResetForProduct(t).consumed
           /\ ResetForAttestation(t) \in TxnType /\ ResetForAttestation(t).phase = "new"
           /\ ResetForAttestation(t).nonce = t.nonce /\ ~ResetForAttestation(t).consumed
           /\ ResetForAttestation(t).used = t.used
           /\ ResetForCi(t) \in TxnType /\ ResetForCi(t).phase = "awaiting-ci"
           /\ ResetForCi(t).nonce = t.nonce /\ ~ResetForCi(t).consumed
           /\ ResetForEvidence(t) \in TxnType /\ ResetForEvidence(t).phase = "new"
           /\ ResetForEvidence(t).nonce = t.nonce /\ ~ResetForEvidence(t).consumed
           /\ Manifest(t) \in TxnType /\ Manifest(t).nonce = t.nonce + 1
           /\ Manifest(t).phase = t.phase /\ Manifest(t).used = t.used
           /\ Manifest(t).consumed = t.consumed
<1>1. {"new", "awaiting-ci"} \subseteq Phases
  BY DEF Phases, PreApply
<1>2. /\ ResetForProduct(t) \in TxnType /\ ResetForProduct(t).phase = "new"
      /\ ResetForProduct(t).nonce = t.nonce /\ ~ResetForProduct(t).consumed
  BY <1>1 DEF TxnType, ResetForProduct
<1>3. /\ ResetForAttestation(t) \in TxnType /\ ResetForAttestation(t).phase = "new"
      /\ ResetForAttestation(t).nonce = t.nonce /\ ~ResetForAttestation(t).consumed
      /\ ResetForAttestation(t).used = t.used
  BY <1>1 DEF TxnType, ResetForAttestation
<1>4. /\ ResetForCi(t) \in TxnType /\ ResetForCi(t).phase = "awaiting-ci"
      /\ ResetForCi(t).nonce = t.nonce /\ ~ResetForCi(t).consumed
  BY <1>1, ReleaseAssumption DEF TxnType, ResetForCi
<1>5. /\ ResetForEvidence(t) \in TxnType /\ ResetForEvidence(t).phase = "new"
      /\ ResetForEvidence(t).nonce = t.nonce /\ ~ResetForEvidence(t).consumed
  BY <1>2 DEF TxnType, ResetForEvidence
<1>6. /\ Manifest(t) \in TxnType /\ Manifest(t).nonce = t.nonce + 1
      /\ Manifest(t).phase = t.phase /\ Manifest(t).used = t.used
      /\ Manifest(t).consumed = t.consumed
  BY DEF TxnType, Manifest
<1> QED BY <1>2, <1>3, <1>4, <1>5, <1>6

LEMMA PhaseSet ==
    ASSUME NEW t \in TxnType, NEW p \in Phases
    PROVE  /\ [t EXCEPT !.phase = p] \in TxnType
           /\ [t EXCEPT !.phase = p].phase = p
           /\ [t EXCEPT !.phase = p].nonce = t.nonce
           /\ [t EXCEPT !.phase = p].used = t.used
           /\ [t EXCEPT !.phase = p].consumed = t.consumed
           /\ [t EXCEPT !.phase = p].previous = t.previous
BY DEF TxnType

LEMMA PhaseNames ==
    /\ PreApply \subseteq Phases /\ InFlight \subseteq Phases /\ Settled \subseteq Phases
    /\ Closed \subseteq Phases
    /\ PreApply \intersect (Settled \union {"none", "verifying", "rolling-back"}) = {}
    /\ "denied" \in Closed /\ "failed" \in Closed /\ "applying" \in InFlight
    /\ "verifying" \in InFlight /\ "rolling-back" \in InFlight
    /\ Closed \intersect (Settled \union {"none", "verifying", "rolling-back"}) = {}
    /\ {"new", "awaiting-product-approval", "awaiting-ci", "awaiting-attestation", "planned",
        "awaiting-approval"} \subseteq PreApply
    /\ "applying" \notin Settled /\ Settled = {"succeeded", "rolled-back"}
BY DEF Phases, PreApply, InFlight, Settled, Closed

LEMMA LoadKeeps == ASSUME IInv, Load PROVE IInv' /\ Served
<1> DEFINE t == Opened
           accepted == [t EXCEPT !.product = tracker[f0].id]
<1>1. run.pc # "idle" /\ Surroundings /\ lease' = lease
  BY DEF Load, Surroundings, outside, IInv, Types
<1>2. /\ t \in TxnType /\ t.phase # "none" /\ t.nonce = here.nonce /\ t.consumed = here.consumed
      /\ t.used = here.used /\ t.phase \in {here.phase, "new"}
  <2>1. CASE here.phase = "none"
    BY <1>1, <2>1, HereFacts, BlankFacts, PhaseNames DEF Opened, TxnType, Blank, IInv, Types, TypeOK
  <2>2. CASE here.phase # "none"
    BY <1>1, <2>2, HereFacts DEF Opened
  <2> QED BY <2>1, <2>2
<1>3. /\ accepted \in TxnType /\ accepted.nonce = t.nonce /\ accepted.consumed = t.consumed
      /\ accepted.phase = t.phase /\ accepted.used = t.used
  BY <1>1, <1>2, HereFacts DEF TxnType, IInv, Types, TypeOK
<1> HIDE DEF t, accepted
<1>4. CASE Exit /\ UNCHANGED txn
  BY <1>1, <1>4, IdleWait
<1>5. CASE Goto("ci") /\ UNCHANGED txn /\ t.used
  BY <1>1, <1>2, <1>5, HereFacts, GotoMoves, GotoQuiet, BlankFacts
     DEF StandsAt, PassPlaces, Before, After
<1>6. ASSUME ~t.used
      PROVE  /\ target.op[r0] = "not-applied"
             /\ t.phase \notin Settled /\ t.phase \notin {"verifying", "rolling-back"}
  BY <1>1, <1>2, <1>6, HereFacts, PhaseNames
<1>7. CASE ~t.used /\ Put([t EXCEPT !.phase = "awaiting-product-approval"]) /\ Exit
  <2> DEFINE u == [t EXCEPT !.phase = "awaiting-product-approval"]
  <2>1. /\ u \in TxnType /\ u.phase = "awaiting-product-approval" /\ u.nonce = here.nonce
        /\ u.consumed = here.consumed
    BY <1>2, PhaseSet, PhaseNames
  <2> HIDE DEF u
  <2>2. Faithful(u)
    BY <1>1, <1>6, <1>7, <2>1, PhaseNames, Unapplied, HereFacts
  <2> QED BY <1>1, <1>7, <2>2, IdleWrite DEF LeaseStep, u
<1>8. CASE ~t.used /\ Put(ResetForProduct(accepted)) /\ Goto("ci") /\ ~t.consumed
  <2> DEFINE u == ResetForProduct(accepted)
  <2>1. u \in TxnType /\ u.phase = "new" /\ u.nonce = here.nonce /\ ~here.consumed
    BY <1>2, <1>3, <1>8, Resets
  <2> HIDE DEF u
  <2>2. Faithful(u)
    BY <1>1, <1>6, <1>8, <2>1, PhaseNames, Unapplied, HereFacts
  <2>3. StandsAt("ci", u)
    BY <2>1 DEF StandsAt, Before, After
  <2>4. MovesTo("ci") /\ "ci" \in PassPlaces \ {"idle"}
    BY <1>1, <1>8, GotoMoves DEF PassPlaces
  <2> QED BY <1>1, <1>8, <2>2, <2>3, <2>4, GotoWrite DEF LeaseStep, u
<1>9. CASE ~t.used /\ Put(accepted) /\ Goto("ci")
  <2>1. Faithful(accepted)
    BY <1>1, <1>2, <1>3, <1>6, <1>9, PhaseNames, Unapplied, HereFacts
  <2>2. StandsAt("ci", accepted)
    BY <1>2, <1>3 DEF StandsAt, Before, After
  <2>3. MovesTo("ci") /\ "ci" \in PassPlaces \ {"idle"}
    BY <1>1, <1>9, GotoMoves DEF PassPlaces
  <2> QED BY <1>1, <1>9, <2>1, <2>2, <2>3, GotoWrite DEF LeaseStep
<1> QED BY <1>4, <1>5, <1>7, <1>8, <1>9 DEF Load, t, accepted

LEMMA CheckCiKeeps == ASSUME IInv, CheckCi PROVE IInv' /\ Served
<1>1. run.pc = "ci" /\ run.pc # "idle" /\ Surroundings /\ lease' = lease
  BY DEF CheckCi, Surroundings, outside, IInv, Types
<1>2. here.phase # "none"
  BY <1>1 DEF IInv, Standing
<1>3. StandsAt("attest", here) /\ "attest" \in PassPlaces \ {"idle"}
  BY <1>2 DEF StandsAt, Before, After, PassPlaces
<1>4. CASE UNCHANGED txn /\ Goto("attest")
  BY <1>1, <1>3, <1>4, GotoMoves, GotoQuiet
<1>5. ASSUME here.phase \in PreApply /\ ~here.used /\ ~here.consumed,
             NEW t \in TxnType, t.phase \in PreApply, t.nonce = here.nonce, ~t.consumed,
             Put(t), Goto("attest") \/ Exit
      PROVE  IInv' /\ Served
  <2>1. Faithful(t)
    BY <1>1, <1>5, Unapplied, HereFacts, PhaseNames
  <2>2. StandsAt("attest", t)
    BY <1>5, PhaseNames DEF StandsAt, Before, After
  <2>3. CASE Goto("attest")
    BY <1>1, <1>3, <1>5, <2>1, <2>2, <2>3, GotoMoves, GotoWrite DEF LeaseStep
  <2> QED BY <1>1, <1>5, <2>1, <2>3, IdleWrite DEF LeaseStep
<1>6. CASE /\ here.phase \in PreApply /\ ~here.used /\ ~here.consumed
           /\ Put(IF here.phase = "awaiting-ci" THEN [here EXCEPT !.phase = "new"] ELSE here)
           /\ Goto("attest")
  <2> DEFINE t == IF here.phase = "awaiting-ci" THEN [here EXCEPT !.phase = "new"] ELSE here
  <2>1. t \in TxnType /\ t.phase \in PreApply /\ t.nonce = here.nonce /\ ~t.consumed
    BY <1>1, <1>6, HereFacts, PhaseSet, PhaseNames
  <2>2. Put(t)
    BY <1>6
  <2> HIDE DEF t
  <2> QED BY <1>5, <1>6, <2>1, <2>2
<1>7. CASE /\ here.phase \in PreApply /\ ~here.used /\ ~here.consumed
           /\ Put(ResetForCi(here)) /\ Exit
  BY <1>1, <1>5, <1>7, HereFacts, Resets, PhaseNames
<1> QED BY <1>4, <1>6, <1>7 DEF CheckCi

\* The attestation of an automatic release is kept or dropped, and nothing else with it.
LEMMA AttestedFacts ==
    ASSUME IInv, run.pc # "idle"
    PROVE  /\ Attested \in TxnType /\ Attested.nonce = here.nonce /\ Attested.used = here.used
           /\ Attested.consumed => here.consumed
           /\ Attested.phase = here.phase \/ (Attested.phase = "new" /\ here.phase \in PreApply)
BY HereFacts, Resets DEF Attested

LEMMA AttestKeeps ==
    ASSUME IInv, Attest \/ AttestorRefuses PROVE IInv' /\ Served
<1>1. run.pc = "attest" /\ run.pc # "idle" /\ Surroundings /\ lease' = lease
  BY DEF Attest, AttestorRefuses, Surroundings, outside, IInv, Types, Modes
<1>2. here.phase # "none"
  BY <1>1 DEF IInv, Standing
<1>3. StandsAt("branch", here) /\ "branch" \in PassPlaces \ {"idle"}
  BY <1>2 DEF StandsAt, Before, After, PassPlaces
<1>4. CASE UNCHANGED txn /\ Goto("branch")
  BY <1>1, <1>3, <1>4, GotoMoves, GotoQuiet
<1>5. CASE UNCHANGED txn /\ Exit
  BY <1>1, <1>5, IdleWait
<1>6. ASSUME Automatic, here.phase \in PreApply,
             NEW t \in TxnType, t.phase \in PreApply, t.nonce = here.nonce, t.used = here.used,
             Put(t), Goto("branch") \/ Exit
      PROVE  IInv' /\ Served
  <2>1. Faithful(t)
    BY <1>1, <1>6, Unapplied, HereFacts, PhaseNames
  <2>2. StandsAt("branch", t)
    BY <1>6, PhaseNames DEF StandsAt, Before, After
  <2>3. CASE Goto("branch")
    BY <1>1, <1>3, <1>6, <2>1, <2>2, <2>3, GotoMoves, GotoWrite DEF LeaseStep
  <2> QED BY <1>1, <1>6, <2>1, <2>3, IdleWrite DEF LeaseStep
<1>7. /\ Attested \in TxnType /\ Attested.nonce = here.nonce /\ Attested.used = here.used
      /\ Attested.phase \in {"new", "awaiting-attestation"} => here.phase \in PreApply
  BY <1>1, AttestedFacts, PhaseNames
<1>8. CASE /\ Automatic /\ Attested.phase \in {"new", "awaiting-attestation"} /\ Goto("branch")
           /\ Put([Attested EXCEPT !.phase = "new", !.attested = TRUE])
  <2> DEFINE t == [Attested EXCEPT !.phase = "new", !.attested = TRUE]
  <2>1. t \in TxnType /\ t.phase = "new" /\ t.nonce = here.nonce /\ t.used = here.used
    BY <1>7, PhaseNames DEF TxnType
  <2>2. Put(t)
    BY <1>8
  <2> HIDE DEF t
  <2> QED BY <1>6, <1>7, <1>8, <2>1, <2>2, PhaseNames
<1>9. CASE /\ Automatic /\ Attested.phase \in {"new", "awaiting-attestation"} /\ Exit
           /\ Put([Attested EXCEPT !.phase = "awaiting-attestation"])
  <2> DEFINE t == [Attested EXCEPT !.phase = "awaiting-attestation"]
  <2>1. t \in TxnType /\ t.phase \in PreApply /\ t.nonce = here.nonce /\ t.used = here.used
    BY <1>7, PhaseSet, PhaseNames
  <2>2. Put(t)
    BY <1>9
  <2> HIDE DEF t
  <2> QED BY <1>6, <1>7, <1>9, <2>1, <2>2
<1> QED BY <1>4, <1>5, <1>8, <1>9 DEF Attest, AttestorRefuses

LEMMA FreeStep ==
    ASSUME IInv, run.pc # "idle", Free(r0), here.phase \in Settled
    PROVE  LeaseStep
BY HereFacts DEF LeaseStep, Claimable, Free

LEMMA BranchKeeps == ASSUME IInv, Branch PROVE IInv' /\ Served
<1>1. run.pc = "branch" /\ run.pc # "idle" /\ Surroundings
  BY DEF Branch, Surroundings, IInv, Types
<1>2. here.phase # "none"
  BY <1>1 DEF IInv, Standing
<1>3. CASE here.phase \in Settled /\ Free(r0) /\ UNCHANGED txn /\ Exit
  BY <1>1, <1>3, FreeStep, WaitStep, ExitFacts
<1>4. CASE here.phase = "succeeded" /\ Free(r0) /\ UNCHANGED txn /\ Goto("finish")
  <2>1. StandsAt("finish", here) /\ "finish" \in PassPlaces \ {"idle"} /\ here.phase \in Settled
    BY <1>4 DEF StandsAt, Before, After, PassPlaces, Settled
  <2> QED BY <1>1, <1>4, <2>1, FreeStep, GotoMoves, GotoWait
<1>5. CASE UNCHANGED <<txn, lease>> /\ Exit
  BY <1>1, <1>5, IdleWait
<1>6. CASE /\ here.phase = "new" /\ UNCHANGED lease /\ Goto("authorize")
           /\ Put([Manifest(here) EXCEPT !.phase = "planned", !.plannedOver = target.live])
  <2> DEFINE t == [Manifest(here) EXCEPT !.phase = "planned", !.plannedOver = target.live]
  <2>1. Manifest(here) \in TxnType /\ Manifest(here).nonce = here.nonce + 1
        /\ Manifest(here).used = here.used /\ target.live \in Releases \union {None}
    BY <1>1, HereFacts, Resets DEF IInv, Types, TypeOK
  <2>2. /\ t \in TxnType /\ t.phase = "planned" /\ t.nonce = here.nonce + 1
        /\ t.used = here.used
    BY <2>1, PhaseNames DEF TxnType
  <2> HIDE DEF t
  <2>3. <<r0, t.nonce>> \notin spent
    BY <1>1, <2>2, HereFacts
  <2>4. Faithful(t)
    BY <1>1, <1>6, <2>2, <2>3, Unapplied, HereFacts, PhaseNames
  <2>5. StandsAt("authorize", t) /\ "authorize" \in PassPlaces \ {"idle"}
    BY <2>2, PhaseNames DEF StandsAt, Before, After, PassPlaces
  <2> QED BY <1>1, <1>6, <2>4, <2>5, GotoMoves, GotoWrite DEF LeaseStep, t
<1>7. CASE here.phase \notin Settled /\ UNCHANGED <<txn, lease>> /\ Goto("authorize")
  <2>1. StandsAt("authorize", here) /\ "authorize" \in PassPlaces \ {"idle"}
    BY <1>2, <1>7 DEF StandsAt, Before, After, PassPlaces
  <2> QED BY <1>1, <1>7, <2>1, GotoMoves, GotoQuiet
<1> QED BY <1>3, <1>4, <1>5, <1>6, <1>7 DEF Branch, Settled

LEMMA AuthorizeKeeps == ASSUME IInv, Authorize PROVE IInv' /\ Served
<1> DEFINE renewed == IF r0 \in stale THEN Manifest(here) ELSE here
           t == IF ~Automatic /\ ~here.consumed THEN [here EXCEPT !.phase = "planned"] ELSE here
           asking == [renewed EXCEPT !.phase = "awaiting-approval"]
           denied == [t EXCEPT !.phase = "denied"]
<1>1. run.pc = "authorize" /\ run.pc # "idle" /\ Surroundings /\ lease' = lease
  BY DEF Authorize, Surroundings, IInv, Types
<1>2. here.phase # "none" /\ here.phase \notin Settled
  BY <1>1 DEF IInv, Standing
<1>3. /\ renewed \in TxnType /\ renewed.nonce \in {here.nonce, here.nonce + 1}
      /\ renewed.used = here.used /\ renewed.consumed = here.consumed
      /\ r0 \in stale => renewed.nonce = here.nonce + 1
      /\ r0 \notin stale => renewed.nonce = here.nonce
  BY <1>1, HereFacts, Resets
<1>4. /\ t \in TxnType /\ t.nonce = here.nonce /\ t.used = here.used
      /\ t.consumed = here.consumed
  BY <1>1, HereFacts, PhaseSet, PhaseNames
<1> HIDE DEF renewed
<1>5. CASE ~Automatic /\ ~here.consumed /\ Put(asking) /\ Exit
  <2>1. /\ asking \in TxnType /\ asking.phase = "awaiting-approval" /\ asking.used = here.used
        /\ asking.nonce = renewed.nonce
    BY <1>3, PhaseSet, PhaseNames
  <2> HIDE DEF asking
  <2>2. <<r0, asking.nonce>> \notin spent /\ asking.nonce >= here.nonce
    BY <1>1, <1>3, <1>5, <2>1, HereFacts
  <2>3. Faithful(asking)
    BY <1>1, <1>2, <2>1, <2>2, Unapplied, HereFacts, PhaseNames
  <2> QED BY <1>1, <1>5, <2>3, IdleWrite DEF LeaseStep
<1>6. CASE Put(denied) /\ Exit
  <2>1. /\ denied \in TxnType /\ denied.phase = "denied" /\ denied.used = here.used
        /\ denied.nonce = here.nonce /\ denied.consumed = here.consumed
    BY <1>4, PhaseSet, PhaseNames
  <2> HIDE DEF denied
  <2>2. Faithful(denied)
    BY <1>1, <1>2, <2>1, Unapplied, HereFacts, PhaseNames
  <2> QED BY <1>1, <1>6, <2>2, IdleWrite DEF LeaseStep
<1>7. CASE /\ ~Automatic /\ ~here.consumed => approval[r0] = renewed.nonce
           /\ Put(t) /\ Goto("status")
  <2>1. Faithful(t) /\ t.phase # "none" /\ t.phase \notin Settled
    <3>1. CASE ~Automatic /\ ~here.consumed
      <4>0. [here EXCEPT !.phase = "planned"].phase = "planned"
        BY <1>1, HereFacts, PhaseSet, PhaseNames
      <4>1. t = [here EXCEPT !.phase = "planned"]
        BY <3>1
      <4>2. t.phase = "planned"
        BY <4>0, <4>1
      <4> HIDE DEF t
      <4> QED BY <1>1, <1>2, <1>4, <4>2, Unapplied, HereFacts, PhaseNames
    <3>2. CASE Automatic \/ here.consumed
      <4>1. t = here
        BY <3>2
      <4>2. target.op[r0] # "not-applied" /\ here.phase \notin Settled => lease' = r0
        BY <1>1, HereFacts
      <4> HIDE DEF t
      <4> QED BY <1>1, <1>2, <4>1, <4>2, HereFaithful
    <3> QED BY <3>1, <3>2
  <2> HIDE DEF t
  <2>2. ~Automatic /\ ~t.consumed => approval[r0] = t.nonce
    BY <1>1, <1>3, <1>4, <1>7, HereFacts
  <2>3. StandsAt("status", t) /\ "status" \in PassPlaces \ {"idle"}
    BY <2>1, <2>2 DEF StandsAt, Before, After, PassPlaces
  <2> QED BY <1>1, <1>7, <2>1, <2>3, GotoMoves, GotoWrite DEF LeaseStep
<1> QED BY <1>5, <1>6, <1>7 DEF Authorize, NamesManifest, renewed

LEMMA OperationFacts == Operation = target.op[r0]
BY DEF Operation

LEMMA ObserveKeeps == ASSUME IInv, Observe PROVE IInv' /\ Served
<1>1. run.pc = "status" /\ run.pc # "idle" /\ Surroundings
  BY DEF Observe, Surroundings, IInv, Types
<1>2. here.phase # "none" /\ here.phase \notin Settled
      /\ (~Automatic /\ ~here.consumed => approval[r0] = here.nonce)
  BY <1>1 DEF IInv, Standing
<1>3. CASE /\ Operation # "not-applied" /\ Claimable /\ lease' = r0 /\ Exit
           /\ Put([here EXCEPT !.phase = IF Operation = "failed" THEN "failed" ELSE "applying"])
  <2> DEFINE p == IF Operation = "failed" THEN "failed" ELSE "applying"
             t == [here EXCEPT !.phase = p]
  <2>1. p \in {"failed", "applying"}
    OBVIOUS
  <2>2. Put(t)
    BY <1>3
  <2> HIDE DEF p
  <2>3. /\ t \in TxnType /\ t.phase = p /\ t.used = here.used /\ t.nonce = here.nonce
        /\ t.consumed = here.consumed
    BY <1>1, <2>1, HereFacts, PhaseSet, PhaseNames
  <2> HIDE DEF t
  <2>4. Faithful(t)
    BY <1>1, <1>2, <1>3, <2>1, <2>3, Unapplied, HereFacts, PhaseNames
  <2> QED BY <1>1, <1>3, <2>2, <2>4, IdleWrite DEF LeaseStep
<1>4. CASE UNCHANGED <<txn, lease>> /\ Exit
  BY <1>1, <1>4, IdleWait
<1>5. CASE IsLive /\ Claimable /\ lease' = r0 /\ Goto("preverify") /\ UNCHANGED txn
  <2>1. StandsAt("preverify", here) /\ "preverify" \in PassPlaces \ {"idle"}
    BY <1>2, <1>5 DEF StandsAt, Before, After, PassPlaces, IsLive, Operation
  <2> QED BY <1>1, <1>5, <2>1, GotoMoves, GotoWait DEF LeaseStep
<1>6. CASE /\ Operation = "not-applied" /\ here.consumed /\ Exit /\ UNCHANGED lease
           /\ Put([Manifest(here) EXCEPT !.phase = "awaiting-approval", !.consumed = FALSE,
                                         !.used = FALSE])
  <2> DEFINE t == [Manifest(here) EXCEPT !.phase = "awaiting-approval", !.consumed = FALSE,
                                         !.used = FALSE]
  <2>1. Manifest(here) \in TxnType /\ Manifest(here).nonce = here.nonce + 1
    BY <1>1, HereFacts, Resets
  <2>2. t \in TxnType /\ t.phase = "awaiting-approval" /\ t.nonce = here.nonce + 1
    BY <2>1, PhaseNames DEF TxnType
  <2>3. Put(t)
    BY <1>6
  <2> HIDE DEF t
  <2>4. <<r0, t.nonce>> \notin spent
    BY <1>1, <2>2, HereFacts
  <2>5. Faithful(t)
    BY <1>1, <1>6, <2>2, <2>4, Unapplied, HereFacts, PhaseNames, OperationFacts
  <2> QED BY <1>1, <1>6, <2>3, <2>5, IdleWrite DEF LeaseStep
<1>7. CASE /\ Operation = "not-applied" /\ ~here.consumed /\ UNCHANGED <<txn, lease>>
           /\ run' = [run EXCEPT !.pc = "recheck", !.seen = target.live]
  <2>1. MovesTo("recheck") /\ "recheck" \in PassPlaces \ {"idle"}
    BY <1>7 DEF MovesTo, IInv, Types, TypeOK, RunType, PassPlaces
  <2>2. ~Automatic => <<r0, here.nonce>> \notin spent
    BY <1>1, <1>7, HereFacts
  <2>3. StandsAt("recheck", here)
    BY <1>2, <1>7, <2>2, OperationFacts DEF StandsAt, Before, After
  <2> QED BY <1>1, <1>7, <2>1, <2>3, GotoQuiet
<1>8. Operation \in Pending \union {"failed"} => Operation # "not-applied"
  BY DEF Pending
<1> QED BY <1>3, <1>4, <1>5, <1>6, <1>7, <1>8 DEF Observe

LEMMA ObserveRollbackKeeps == ASSUME IInv, ObserveRollback PROVE IInv' /\ Served
<1>1. run.pc = "status" /\ run.pc # "idle" /\ Surroundings /\ here.phase = "rolling-back"
  BY DEF ObserveRollback, Surroundings, outside, IInv, Types
<1>2. CASE UNCHANGED <<txn, lease>> /\ Exit
  BY <1>1, <1>2, IdleWait
<1>3. CASE /\ Claimable /\ lease' = r0 /\ Restored /\ Goto("unlock")
           /\ Put([here EXCEPT !.phase = "rolled-back"])
  <2> DEFINE t == [here EXCEPT !.phase = "rolled-back"]
  <2>1. /\ t \in TxnType /\ t.phase = "rolled-back" /\ t.used = here.used
        /\ t.nonce = here.nonce /\ t.consumed = here.consumed
    BY <1>1, HereFacts, PhaseSet, PhaseNames
  <2> HIDE DEF t
  <2>2. target.op[r0] = "applied" /\ target.live = here.previous
    BY <1>3 DEF Restored, Operation
  <2>3. Faithful(t)
    BY <1>1, <2>1, <2>2, HereFacts DEF Faithful, Settled
  <2>4. StandsAt("unlock", t) /\ "unlock" \in PassPlaces \ {"idle"}
    BY <2>1 DEF StandsAt, Before, After, PassPlaces, Settled
  <2> QED BY <1>1, <1>3, <2>3, <2>4, GotoMoves, GotoWrite DEF LeaseStep, t
<1>4. CASE Claimable /\ lease' = r0 /\ Exit /\ UNCHANGED txn
  BY <1>1, <1>4, WaitStep, ExitFacts DEF LeaseStep
<1>5. CASE Claimable /\ lease' = r0 /\ Put([here EXCEPT !.phase = "failed"]) /\ Exit
  <2> DEFINE t == [here EXCEPT !.phase = "failed"]
  <2>1. /\ t \in TxnType /\ t.phase = "failed" /\ t.used = here.used
        /\ t.nonce = here.nonce /\ t.consumed = here.consumed
    BY <1>1, HereFacts, PhaseSet, PhaseNames
  <2> HIDE DEF t
  <2>2. Faithful(t)
    BY <1>1, <1>5, <2>1, Unapplied, HereFacts, PhaseNames
  <2> QED BY <1>1, <1>5, <2>2, IdleWrite DEF LeaseStep, t
<1> QED BY <1>2, <1>3, <1>4, <1>5 DEF ObserveRollback

\* A pass at a place before its apply has an untouched target and an unused approval.
LEMMA BeforeFacts ==
    ASSUME IInv, run.pc \in Before
    PROVE  /\ run.pc # "idle" /\ target.op[r0] = "not-applied" /\ here.phase # "none"
           /\ here.phase \notin Settled
           /\ ~Automatic => approval[r0] = here.nonce /\ <<r0, here.nonce>> \notin spent
           /\ run.pc \in {"mark", "again", "apply"} => lease = r0
<1>1. run.pc # "idle" /\ run.pc # "load"
  BY DEF Before
<1> QED BY <1>1, HereFacts DEF IInv, Standing

\* Such a pass may go on as long as it writes no other nonce.
LEMMA BeforeStands ==
    ASSUME IInv, run.pc \in Before, NEW t, t.nonce = here.nonce, t.phase # "none",
           NEW pc \in Before, pc \in {"mark", "again", "apply"} => lease' = r0,
           pc \in {"again", "apply"} => t.phase = "applying" /\ t.used /\ t.consumed = ~Automatic
    PROVE  StandsAt(pc, t) /\ pc \in PassPlaces \ {"idle"}
BY BeforeFacts DEF StandsAt, Before, After, PassPlaces

LEMMA RecheckKeeps == ASSUME IInv, Recheck PROVE IInv' /\ Served
<1>1. run.pc = "recheck" /\ Surroundings /\ lease' = lease /\ run.pc \in Before
  BY DEF Recheck, Surroundings, outside, IInv, Types, Before
<1>2. run.pc # "idle" /\ here.phase # "none" /\ target.op[r0] = "not-applied"
  BY <1>1, BeforeFacts
<1>3. CASE UNCHANGED txn /\ Exit
  BY <1>1, <1>2, <1>3, IdleWait
<1>4. CASE /\ Put([ResetForEvidence(here) EXCEPT !.phase = "awaiting-product-approval",
                                                 !.evidence = tracker[f0].evidence])
           /\ Exit
  <2> DEFINE t == [ResetForEvidence(here) EXCEPT !.phase = "awaiting-product-approval",
                                                 !.evidence = tracker[f0].evidence]
  <2>1. ResetForEvidence(here) \in TxnType /\ ResetForEvidence(here).nonce = here.nonce
        /\ tracker[f0].evidence \in Nat
    BY <1>2, HereFacts, Resets DEF IInv, Types, TypeOK
  <2>2. t \in TxnType /\ t.phase = "awaiting-product-approval" /\ t.nonce = here.nonce
    BY <2>1, PhaseNames DEF TxnType
  <2> HIDE DEF t
  <2>3. Faithful(t)
    BY <1>1, <1>2, <2>2, Unapplied, BeforeFacts, HereFacts, PhaseNames
  <2> QED BY <1>1, <1>2, <1>4, <2>3, IdleWrite DEF LeaseStep, t
<1>5. CASE Put([here EXCEPT !.phase = "awaiting-product-approval"]) /\ Exit
  <2> DEFINE t == [here EXCEPT !.phase = "awaiting-product-approval"]
  <2>1. t \in TxnType /\ t.phase = "awaiting-product-approval" /\ t.nonce = here.nonce
    BY <1>2, HereFacts, PhaseSet, PhaseNames
  <2> HIDE DEF t
  <2>2. Faithful(t)
    BY <1>1, <1>2, <2>1, Unapplied, BeforeFacts, HereFacts, PhaseNames
  <2> QED BY <1>1, <1>2, <1>5, <2>2, IdleWrite DEF LeaseStep, t
<1>6. CASE Goto("fresh") /\ UNCHANGED txn
  <2>1. StandsAt("fresh", here) /\ "fresh" \in PassPlaces \ {"idle"}
    BY <1>1, <1>2, BeforeStands DEF Before
  <2> QED BY <1>1, <1>2, <1>6, <2>1, GotoMoves, GotoQuiet
<1> QED BY <1>3, <1>4, <1>5, <1>6 DEF Recheck

LEMMA FreshenKeeps == ASSUME IInv, Freshen PROVE IInv' /\ Served
<1>1. run.pc = "fresh" /\ Surroundings /\ lease' = lease /\ run.pc \in Before
  BY DEF Freshen, Surroundings, IInv, Types, Before
<1>2. run.pc # "idle" /\ here.phase # "none" /\ target.op[r0] = "not-applied"
  BY <1>1, BeforeFacts
<1>3. CASE Goto("consume") /\ UNCHANGED txn
  <2>1. StandsAt("consume", here) /\ "consume" \in PassPlaces \ {"idle"}
    BY <1>1, <1>2, BeforeStands DEF Before
  <2> QED BY <1>1, <1>2, <1>3, <2>1, GotoMoves, GotoQuiet
<1>4. CASE Put([ResetForAttestation(here) EXCEPT !.phase = "awaiting-attestation"]) /\ Exit
  <2> DEFINE t == [ResetForAttestation(here) EXCEPT !.phase = "awaiting-attestation"]
  <2>1. ResetForAttestation(here) \in TxnType /\ ResetForAttestation(here).nonce = here.nonce
    BY <1>2, HereFacts, Resets
  <2>2. t \in TxnType /\ t.phase = "awaiting-attestation" /\ t.nonce = here.nonce
    BY <2>1, PhaseSet, PhaseNames
  <2> HIDE DEF t
  <2>3. Faithful(t)
    BY <1>1, <1>2, <2>2, Unapplied, BeforeFacts, HereFacts, PhaseNames
  <2> QED BY <1>1, <1>2, <1>4, <2>3, IdleWrite DEF LeaseStep, t
<1>5. CASE Put([Manifest(here) EXCEPT !.phase = "awaiting-approval", !.consumed = FALSE]) /\ Exit
  <2> DEFINE t == [Manifest(here) EXCEPT !.phase = "awaiting-approval", !.consumed = FALSE]
  <2>1. Manifest(here) \in TxnType /\ Manifest(here).nonce = here.nonce + 1
    BY <1>2, HereFacts, Resets
  <2>2. t \in TxnType /\ t.phase = "awaiting-approval" /\ t.nonce = here.nonce + 1
    BY <2>1, PhaseNames DEF TxnType
  <2> HIDE DEF t
  <2>3. <<r0, t.nonce>> \notin spent /\ t.nonce >= here.nonce
    BY <1>2, <2>2, HereFacts
  <2>4. Faithful(t)
    BY <1>1, <1>2, <2>2, <2>3, Unapplied, PhaseNames
  <2> QED BY <1>1, <1>2, <1>5, <2>4, IdleWrite DEF LeaseStep, t
<1> QED BY <1>3, <1>4, <1>5 DEF Freshen

LEMMA RenewKeeps == ASSUME IInv, RenewManifest PROVE IInv' /\ Served
<1>1. run.pc = "fresh" /\ Surroundings /\ lease' = lease /\ run.pc \in Before /\ Automatic
  BY DEF RenewManifest, Surroundings, outside, IInv, Types, Modes, Before
<1>2. run.pc # "idle" /\ here.phase # "none" /\ target.op[r0] = "not-applied"
  BY <1>1, BeforeFacts
<1> DEFINE t == Manifest(here)
<1>3. t \in TxnType /\ t.phase = here.phase /\ t.nonce = here.nonce + 1
  BY <1>2, HereFacts, Resets
<1> HIDE DEF t
<1>4. Faithful(t)
  BY <1>1, <1>2, <1>3, Unapplied, BeforeFacts, HereFacts, PhaseNames
<1>5. StandsAt("consume", t) /\ "consume" \in PassPlaces \ {"idle"}
  BY <1>1, <1>2, <1>3 DEF StandsAt, Before, After, PassPlaces
<1>6. Put(t) /\ Goto("consume")
  BY DEF RenewManifest, t
<1> QED BY <1>1, <1>2, <1>4, <1>5, <1>6, GotoMoves, GotoWrite DEF LeaseStep

LEMMA CiLost ==
    ASSUME IInv, run.pc \in Before, Surroundings, lease' = lease, Put(ResetForCi(here)), Exit
    PROVE  IInv' /\ Served
<1>1. /\ ResetForCi(here) \in TxnType /\ ResetForCi(here).nonce = here.nonce
      /\ ResetForCi(here).phase = "awaiting-ci"
  BY BeforeFacts, HereFacts, Resets
<1>2. Faithful(ResetForCi(here))
  BY <1>1, Unapplied, BeforeFacts, HereFacts, PhaseNames
<1> QED BY <1>2, BeforeFacts, IdleWrite DEF LeaseStep

LEMMA ConsumeKeeps == ASSUME IInv, Consume \/ Claim PROVE IInv' /\ Served
<1>1. run.pc \in {"consume", "claim"} /\ Surroundings /\ run.pc \in Before
  BY DEF Consume, Claim, Surroundings, outside, IInv, Types, Before
<1>2. run.pc # "idle" /\ here.phase # "none"
  BY <1>1, BeforeFacts
<1>3. CASE UNCHANGED <<txn, lease>> /\ Exit
  BY <1>1, <1>2, <1>3, IdleWait
<1>4. CASE Put(ResetForCi(here)) /\ Exit /\ UNCHANGED lease
  BY <1>1, <1>4, CiLost
<1>5. CASE Goto("claim") /\ UNCHANGED <<txn, lease>>
  <2>1. StandsAt("claim", here) /\ "claim" \in PassPlaces \ {"idle"}
    BY <1>1, <1>2, BeforeStands DEF Before
  <2> QED BY <1>1, <1>2, <1>5, <2>1, GotoMoves, GotoQuiet
<1>6. CASE Claimable /\ lease' = r0 /\ Goto("mark") /\ UNCHANGED txn
  <2>1. StandsAt("mark", here) /\ "mark" \in PassPlaces \ {"idle"}
    BY <1>1, <1>2, <1>6, BeforeStands DEF Before
  <2> QED BY <1>1, <1>2, <1>6, <2>1, GotoMoves, GotoWait DEF LeaseStep
<1> QED BY <1>3, <1>4, <1>5, <1>6 DEF Consume, Claim

LEMMA MarkKeeps == ASSUME IInv, Mark PROVE IInv' /\ Served
<1> DEFINE t == [here EXCEPT !.phase = "applying", !.used = TRUE, !.consumed = ~Automatic,
                             !.previous = run.seen]
<1>1. run.pc = "mark" /\ Surroundings /\ lease' = lease /\ run.pc \in Before
  BY DEF Mark, Surroundings, outside, IInv, Types, Before
<1>2. run.pc # "idle" /\ lease = r0 /\ here \in TxnType /\ run.seen \in Releases \union {None}
  BY <1>1, BeforeFacts, HereFacts DEF IInv, Types, TypeOK
<1>3. /\ t \in TxnType /\ t.phase = "applying" /\ t.nonce = here.nonce
      /\ t.used /\ t.consumed = ~Automatic
  BY <1>2, PhaseNames DEF TxnType, Automatic
<1>4. Put(t) /\ Goto("again")
  BY DEF Mark
<1> HIDE DEF t
<1>5. Faithful(t)
  BY <1>1, <1>3, Unapplied, BeforeFacts, HereFacts, PhaseNames
<1>6. StandsAt("again", t) /\ "again" \in PassPlaces \ {"idle"}
  BY <1>1, <1>2, <1>3, BeforeStands DEF Before
<1> QED BY <1>1, <1>2, <1>4, <1>5, <1>6, GotoMoves, GotoWrite DEF LeaseStep

LEMMA ValidateAgainKeeps == ASSUME IInv, ValidateAgain PROVE IInv' /\ Served
<1>1. run.pc = "again" /\ Surroundings /\ UNCHANGED txn /\ run.pc \in Before
  BY DEF ValidateAgain, Surroundings, outside, IInv, Types, Before
<1>2. run.pc # "idle" /\ here.phase # "none" /\ lease = r0 /\ target.op[r0] = "not-applied"
      /\ here.phase = "applying" /\ here.used /\ here.consumed = ~Automatic
  BY <1>1, BeforeFacts DEF IInv, Standing
<1>3. CASE UNCHANGED lease /\ Exit
  BY <1>1, <1>2, <1>3, IdleWait
<1>4. CASE /\ lease' = None
           /\ run' = [run EXCEPT !.pc = "unmark",
                                 !.why = IF SameProduct /\ r0 \notin stale THEN "ci" ELSE "authority"]
  <2>1. MovesTo("unmark")
    BY <1>4 DEF MovesTo, IInv, Types, RunType, PassPlaces
  <2>2. StandsAt("unmark", here) /\ "unmark" \in PassPlaces \ {"idle"}
    BY <1>1, <1>2, BeforeStands DEF Before
  <2> QED BY <1>1, <1>2, <1>4, <2>1, <2>2, GotoWait DEF LeaseStep, Claimable
<1>5. CASE Goto("apply") /\ UNCHANGED lease
  <2>1. StandsAt("apply", here) /\ "apply" \in PassPlaces \ {"idle"}
    BY <1>1, <1>2, <1>5, BeforeStands DEF Before
  <2> QED BY <1>1, <1>2, <1>5, <2>1, GotoMoves, GotoQuiet
<1> QED BY <1>3, <1>4, <1>5 DEF ValidateAgain

LEMMA UnmarkKeeps == ASSUME IInv, Unmark PROVE IInv' /\ Served
<1>1. run.pc = "unmark" /\ Surroundings /\ lease' = lease /\ run.pc \in Before /\ Exit
  BY DEF Unmark, Surroundings, outside, IInv, Types, Before
<1>2. run.pc # "idle" /\ here \in TxnType
  BY <1>1, BeforeFacts, HereFacts
<1>3. CASE Put(ResetForCi(here))
  BY <1>1, <1>3, CiLost
<1>4. ASSUME NEW t \in TxnType, t.phase \in PreApply, t.nonce = here.nonce, Put(t)
      PROVE  IInv' /\ Served
  <2>1. Faithful(t)
    BY <1>1, <1>2, <1>4, Unapplied, BeforeFacts, HereFacts, PhaseNames
  <2> QED BY <1>1, <1>2, <1>4, <2>1, IdleWrite DEF LeaseStep
<1>5. CASE Put([ResetForAttestation(here) EXCEPT !.phase = "awaiting-attestation", !.used = FALSE])
  <2> DEFINE t == [ResetForAttestation(here) EXCEPT !.phase = "awaiting-attestation",
                                                    !.used = FALSE]
  <2>1. ResetForAttestation(here) \in TxnType /\ ResetForAttestation(here).nonce = here.nonce
    BY <1>2, Resets
  <2>2. t \in TxnType /\ t.phase \in PreApply /\ t.nonce = here.nonce
    BY <2>1, PhaseNames DEF TxnType
  <2> HIDE DEF t
  <2> QED BY <1>4, <1>5, <2>2 DEF t
<1>6. CASE Put([here EXCEPT !.phase = "awaiting-approval", !.consumed = FALSE, !.used = FALSE])
  <2> DEFINE t == [here EXCEPT !.phase = "awaiting-approval", !.consumed = FALSE, !.used = FALSE]
  <2>1. t \in TxnType /\ t.phase \in PreApply /\ t.nonce = here.nonce
    BY <1>2, PhaseNames DEF TxnType
  <2> HIDE DEF t
  <2> QED BY <1>4, <1>6, <2>1 DEF t
<1> QED BY <1>3, <1>5, <1>6 DEF Unmark

LEMMA AfterFacts ==
    ASSUME IInv, run.pc \in After
    PROVE  /\ run.pc # "idle" /\ lease = r0 /\ here.phase # "none"
           /\ run.pc \in {"preverify", "verify", "record", "rollback"}
                  => target.op[r0] = "applied" /\ target.live = r0
           /\ run.pc \in {"applied", "preverify"} => here.phase \notin Settled
           /\ run.pc \in {"verify", "record"} => here.phase = "verifying"
           /\ run.pc \in {"rollback", "undone"} => here.phase = "rolling-back"
<1>1. run.pc # "idle" /\ run.pc # "load"
  BY DEF After
<1> QED BY <1>1 DEF IInv, Standing

\* With the target's record in hand, a pass may write any phase the provider bears out.
BorneOut(p) ==
    /\ p \in {"verifying", "rolling-back", "failed", "succeeded", "rolled-back"}
    /\ here.phase = "succeeded" => p = "succeeded"
    /\ p \in {"verifying", "rolling-back"} => target.op[r0] \in {"applied", "undoing", "failed"}
    /\ p \in {"succeeded", "rolled-back"} => target.op[r0] = "applied"
    /\ p = "succeeded" => target.live = r0
    /\ p = "rolled-back" => target.live = here.previous

LEMMA OutcomeFaithful ==
    ASSUME IInv, run.pc \in After, lease' = lease, NEW p, BorneOut(p)
    PROVE  Faithful([here EXCEPT !.phase = p]) /\ [here EXCEPT !.phase = p].phase = p
<1> DEFINE t == [here EXCEPT !.phase = p]
<1>1. /\ t \in TxnType /\ t.phase = p /\ t.nonce = here.nonce /\ t.used = here.used
      /\ t.consumed = here.consumed
  <2>1. p \in Phases
    BY PhaseNames DEF BorneOut
  <2> QED BY <2>1, AfterFacts, HereFacts, PhaseSet
<1> HIDE DEF t
<1>2. Faithful(t)
  BY <1>1, AfterFacts, HereFacts DEF Faithful, Settled, BorneOut
<1> QED BY <1>1, <1>2 DEF t

LEMMA OutcomeExit ==
    ASSUME IInv, run.pc \in After, lease' = lease, Surroundings, NEW p, BorneOut(p),
           Put([here EXCEPT !.phase = p]), Exit
    PROVE  IInv' /\ Served
BY OutcomeFaithful, AfterFacts, IdleWrite DEF LeaseStep

LEMMA OutcomeGoto ==
    ASSUME IInv, run.pc \in After, lease' = lease, Surroundings, NEW p, BorneOut(p),
           Put([here EXCEPT !.phase = p]), NEW pc \in {"verify", "rollback", "unlock"}, Goto(pc),
           pc = "unlock" => p \in Settled,
           pc # "unlock" => target.op[r0] = "applied" /\ target.live = r0,
           pc = "verify" => p = "verifying",
           pc = "rollback" => p = "rolling-back"
    PROVE  IInv' /\ Served
<1> DEFINE t == [here EXCEPT !.phase = p]
<1>1. Faithful(t) /\ t.phase = p /\ Put(t)
  BY OutcomeFaithful
<1> HIDE DEF t
<1>2. StandsAt(pc, t)
  BY <1>1, AfterFacts DEF StandsAt, Before, After, BorneOut
<1>3. pc \in PassPlaces \ {"idle"} /\ run.pc # "idle"
  BY AfterFacts DEF PassPlaces
<1> QED BY <1>1, <1>2, <1>3, GotoMoves, GotoWrite DEF LeaseStep

LEMMA ClosingKeeps ==
    ASSUME IInv,
           ApplyReturns \/ PreVerify \/ Verify \/ VerifyFails \/ RollbackReturns \/ Record
    PROVE  IInv' /\ Served
<1>1. run.pc \in After /\ Surroundings /\ lease' = lease /\ run.pc # "idle"
  BY DEF ApplyReturns, PreVerify, Verify, VerifyFails, RollbackReturns, Record, Surroundings,
         outside, IInv, Types, After
<1>2. /\ lease = r0 /\ here.phase # "none"
      /\ {"preverify", "verify", "record", "rollback", "unlock"} \subseteq PassPlaces \ {"idle"}
  BY <1>1, AfterFacts DEF PassPlaces
<1>3. CASE UNCHANGED txn /\ Exit
  BY <1>1, <1>3, IdleWait
<1>4. CASE ApplyReturns
  <2>1. CASE IsLive /\ Goto("preverify")
    <3>1. StandsAt("preverify", here)
      BY <1>1, <1>2, <1>4, <2>1, AfterFacts
         DEF StandsAt, Before, After, IsLive, Operation, ApplyReturns
    <3> QED BY <1>1, <1>2, <1>4, <2>1, <3>1, GotoMoves, GotoQuiet DEF ApplyReturns
  <2> QED BY <1>3, <1>4, <2>1 DEF ApplyReturns
<1>5. CASE PreVerify
  <2>1. CASE Put([here EXCEPT !.phase = "verifying"]) /\ Goto("verify")
    <3>1. BorneOut("verifying")
      BY <1>5, <1>1, AfterFacts DEF PreVerify, BorneOut, Settled
    <3> QED BY <1>1, <1>5, <2>1, <3>1, AfterFacts, OutcomeGoto DEF PreVerify
  <2> QED BY <1>3, <1>5, <2>1 DEF PreVerify
<1>6. CASE Verify
  <2>1. StandsAt("record", here)
    BY <1>1, <1>2, <1>6, AfterFacts DEF StandsAt, Before, After, Verify
  <2> QED BY <1>1, <1>2, <1>6, <2>1, GotoMoves, GotoQuiet DEF Verify
<1>7. CASE VerifyFails
  <2>1. here.phase = "verifying" /\ target.op[r0] = "applied" /\ target.live = r0
    BY <1>1, <1>7, AfterFacts DEF VerifyFails
  <2>2. BorneOut("rolling-back") /\ BorneOut("failed")
    BY <2>1 DEF BorneOut
  <2>3. CASE Put([here EXCEPT !.phase = "rolling-back"]) /\ Goto("rollback")
    BY <1>1, <2>1, <2>2, <2>3, OutcomeGoto
  <2>4. CASE Put([here EXCEPT !.phase = "failed"]) /\ Exit
    BY <1>1, <2>2, <2>4, OutcomeExit
  <2> QED BY <1>7, <2>3, <2>4 DEF VerifyFails
<1>8. CASE RollbackReturns
  <2>1. here.phase = "rolling-back"
    BY <1>1, <1>8, AfterFacts DEF RollbackReturns
  <2>2. BorneOut("failed") /\ (Restored => BorneOut("rolled-back"))
    BY <2>1 DEF BorneOut, Restored, Operation
  <2>3. CASE Restored /\ Put([here EXCEPT !.phase = "rolled-back"]) /\ Goto("unlock")
    BY <1>1, <2>2, <2>3, OutcomeGoto DEF Settled
  <2>4. CASE Put([here EXCEPT !.phase = "failed"]) /\ Exit
    BY <1>1, <2>2, <2>4, OutcomeExit
  <2> QED BY <1>8, <2>3, <2>4 DEF RollbackReturns
<1>9. CASE Record
  <2>1. here.phase = "verifying" /\ target.op[r0] = "applied" /\ target.live = r0
    BY <1>1, <1>9, AfterFacts DEF Record
  <2>2. BorneOut("succeeded")
    BY <2>1 DEF BorneOut
  <2>3. CASE Put([here EXCEPT !.phase = "succeeded"]) /\ Goto("unlock")
    BY <1>1, <2>2, <2>3, OutcomeGoto DEF Settled
  <2> QED BY <1>3, <1>9, <2>3 DEF Record
<1> QED BY <1>4, <1>5, <1>6, <1>7, <1>8, <1>9

LEMMA UnlockKeeps ==
    ASSUME IInv, Unlock \/ Finish PROVE IInv' /\ Served
<1>1. run.pc \in {"unlock", "finish"} /\ Surroundings /\ UNCHANGED txn /\ run.pc # "idle"
  BY DEF Unlock, Finish, Surroundings, outside, IInv, Types
<1>2. here.phase # "none" /\ here.phase \in Settled /\ (run.pc = "finish" => here.phase = "succeeded")
  BY <1>1 DEF IInv, Standing, Settled
<1>3. LeaseStep
  BY <1>1, <1>2, FreeStep DEF Unlock, Finish, LeaseStep
<1>4. CASE Exit
  BY <1>1, <1>2, <1>3, <1>4, WaitStep, ExitFacts
<1>5. ASSUME NEW pc \in {"finish", "close"}, here.phase = "succeeded", Goto(pc)
      PROVE  IInv' /\ Served
  <2>1. StandsAt(pc, here) /\ pc \in PassPlaces \ {"idle"}
    BY <1>5 DEF StandsAt, Before, After, PassPlaces, Settled
  <2> QED BY <1>1, <1>2, <1>3, <1>5, <2>1, GotoMoves, GotoWait
<1> QED BY <1>1, <1>2, <1>4, <1>5 DEF Unlock, Finish

\* An interrupted pass leaves what it wrote.
LEMMA InterruptKeeps == ASSUME IInv, Interrupt PROVE IInv' /\ Served
<1>1. run.pc # "idle" /\ Surroundings /\ UNCHANGED <<txn, lease>> /\ Exit
  BY DEF Interrupt, Surroundings, outside, IInv, Types, Modes
<1> QED BY <1>1, IdleWait

\* The steps that change the provider, the approvals or the finished features.
LEMMA CloseFeatureKeeps == ASSUME IInv, CloseFeature PROVE IInv' /\ Served
<1>1. run.pc = "close" /\ run.pc # "idle" /\ Exit /\ finished' = finished \union {f0}
      /\ UNCHANGED <<txn, lease, outside, target, spent, left>>
  BY DEF CloseFeature
<1>2. here.phase = "succeeded" /\ r0 \in Releases /\ f0 \in Features /\ here = txn[r0]
      /\ r0[2] \in 1 .. LastCommit /\ r0 = <<f0, r0[2]>>
  BY <1>1, HereFacts DEF IInv, Standing, here, r0, f0, Releases
<1>3. Ended'
  BY <1>1, <1>2 DEF IInv, Ended
<1>4. Types'
  BY <1>1, <1>2, ExitFacts DEF IInv, Types, TypeOK, outside, RunType
<1>5. \A r \in Releases : Journaled(r)'
  BY <1>1 DEF IInv, Journaled, Automatic, outside
<1> QED BY <1>1, <1>3, <1>4, <1>5, ExitFacts DEF IInv, Served

LEMMA ApplyKeeps == ASSUME IInv, Apply PROVE IInv' /\ Served
<1>1. /\ run.pc = "apply" /\ run.pc \in Before /\ Goto("applied") /\ run.pc # "idle"
      /\ target' = [target EXCEPT !.op[r0] = "in-progress"]
      /\ spent' = spent \union {<<r0, here.nonce>>}
      /\ UNCHANGED <<txn, lease, outside, finished, left>>
  BY DEF Apply, Before
<1>2. /\ r0 \in Releases /\ here = txn[r0] /\ here.nonce \in Nat /\ lease = r0 /\ here.phase # "none"
      /\ here.phase = "applying" /\ here.used /\ here.consumed = ~Automatic
  BY <1>1, HereFacts, BeforeFacts DEF IInv, Standing, here, r0
<1>3. /\ target' \in TargetType
      /\ target'.live = target.live /\ target'.op[r0] = "in-progress"
      /\ \A r \in Releases \ {r0} : target'.op[r] = target.op[r]
  <2>1. target \in TargetType
    BY DEF IInv, Types, TypeOK, TargetType
  <2> QED BY <1>1, <1>2, <2>1 DEF TargetType, Pending
<1>4. /\ run' \in RunType /\ run'.pc = "applied" /\ r0' = r0 /\ here' = here
      /\ run'.r = run.r /\ (run'.pc = "idle" <=> run'.r = None)
  BY <1>1, GotoFacts DEF IInv, here, r0, PassPlaces
<1>5. Types'
  <2>1. spent' \subseteq Releases \X Nat
    BY <1>1, <1>2 DEF IInv, Types, TypeOK
  <2> QED BY <1>1, <1>3, <1>4, <2>1 DEF IInv, Types, TypeOK, outside, RunType, TargetType
<1>6. ASSUME NEW r \in Releases PROVE Journaled(r)'
  <2>1. Journaled(r) /\ approval' = approval /\ Automatic' = Automatic
    BY <1>1 DEF IInv, outside, Automatic
  <2>2. CASE r = r0
    <3>1. \A p \in spent' : p[1] = r => p[2] <= txn[r].nonce
      BY <1>1, <1>2, <2>1, <2>2 DEF Journaled
    <3>2. txn'[r] = txn[r] /\ lease' = r0 /\ target'.op[r] = "in-progress" /\ txn[r] = here
      BY <1>1, <1>2, <1>3, <2>2
    <3> QED BY <1>2, <2>1, <2>2, <3>1, <3>2 DEF Journaled, Settled
  <2>3. CASE r # r0
    BY <1>1, <1>2, <1>3, <2>1, <2>3 DEF Journaled
  <2> QED BY <2>2, <2>3
<1>7. Standing'
  BY <1>1, <1>2, <1>4 DEF Standing, Before, After, Settled
<1>8. Ended' /\ Served
  BY <1>1 DEF IInv, Ended, Served
<1> QED BY <1>5, <1>6, <1>7, <1>8 DEF IInv

LEMMA RollbackKeeps == ASSUME IInv, Rollback PROVE IInv' /\ Served
<1>1. /\ run.pc = "rollback" /\ run.pc \in After /\ Goto("undone") /\ run.pc # "idle"
      /\ target' = [target EXCEPT !.op[r0] = "undoing"]
      /\ UNCHANGED <<txn, lease, outside, finished, spent, left>>
  BY DEF Rollback, After
<1>2. /\ r0 \in Releases /\ here = txn[r0] /\ lease = r0 /\ here.phase = "rolling-back"
      /\ target.op[r0] = "applied"
  BY <1>1, HereFacts, AfterFacts DEF here, r0
<1>3. /\ target' \in TargetType
      /\ target'.live = target.live /\ target'.op[r0] = "undoing"
      /\ \A r \in Releases \ {r0} : target'.op[r] = target.op[r]
  <2>1. target \in TargetType
    BY DEF IInv, Types, TypeOK, TargetType
  <2> QED BY <1>1, <1>2, <2>1 DEF TargetType, Pending
<1>4. /\ run' \in RunType /\ run'.pc = "undone" /\ r0' = r0 /\ here' = here
      /\ run'.r = run.r /\ (run'.pc = "idle" <=> run'.r = None)
  BY <1>1, GotoFacts DEF IInv, here, r0, PassPlaces
<1>5. Types'
  BY <1>1, <1>2, <1>3, <1>4 DEF IInv, Types, TypeOK, outside, RunType, TargetType
<1>6. ASSUME NEW r \in Releases PROVE Journaled(r)'
  <2>1. Journaled(r) /\ approval' = approval /\ Automatic' = Automatic
    BY <1>1 DEF IInv, outside, Automatic
  <2>2. CASE r = r0
    BY <1>1, <1>2, <1>3, <2>1, <2>2 DEF Journaled, Settled
  <2>3. CASE r # r0
    BY <1>1, <1>2, <1>3, <2>1, <2>3 DEF Journaled
  <2> QED BY <2>2, <2>3
<1>7. Standing'
  BY <1>1, <1>2, <1>4 DEF Standing, Before, After, Settled
<1>8. Ended' /\ Served
  BY <1>1 DEF IInv, Ended, Served
<1> QED BY <1>5, <1>6, <1>7, <1>8 DEF IInv

LEMMA PassKeeps == ASSUME IInv, Pass PROVE IInv' /\ Served
BY LoadKeeps, CheckCiKeeps, AttestKeeps, BranchKeeps, AuthorizeKeeps, ObserveKeeps,
   ObserveRollbackKeeps, RecheckKeeps, FreshenKeeps, RenewKeeps, ConsumeKeeps, MarkKeeps,
   ValidateAgainKeeps, UnmarkKeeps, ApplyKeeps, RollbackKeeps, ClosingKeeps, UnlockKeeps,
   CloseFeatureKeeps DEF Pass

-----------------------------------------------------------------------------
(* What happens around the pass.                                             *)

LEMMA BeginKeeps ==
    ASSUME IInv, NEW f \in Features, Begin(f) PROVE IInv' /\ Served
<1> DEFINE closed == {r \in Siblings(f) : txn[r].phase \in PreApply}
<1>1. /\ run.pc = "idle" /\ \A r \in Siblings(f) : ~Blocks(r)
      /\ txn' = [r \in Releases |-> IF r \in closed THEN [txn[r] EXCEPT !.phase = "superseded"]
                                                    ELSE txn[r]]
      /\ run' = [pc |-> "load", r |-> <<f, head[f]>>, seen |-> None, why |-> ""]
      /\ UNCHANGED <<lease, outside, target, finished, spent, left>>
  BY DEF Begin
<1>2. txn \in [Releases -> TxnType]
  BY DEF IInv, Types, TypeOK, TxnType
<1>3. ASSUME NEW r \in Releases, r \in closed
      PROVE  /\ txn'[r] \in TxnType /\ txn'[r].phase = "superseded" /\ ~txn[r].used
             /\ txn'[r].nonce = txn[r].nonce /\ txn'[r].used = txn[r].used
             /\ txn'[r].consumed = txn[r].consumed
  <2>1. txn'[r] = [txn[r] EXCEPT !.phase = "superseded"] /\ ~txn[r].used
    BY <1>1, <1>3 DEF Blocks
  <2> QED BY <1>2, <2>1, PhaseSet DEF Phases, Closed
<1>4. ASSUME NEW r \in Releases, r \notin closed PROVE txn'[r] = txn[r]
  BY <1>1, <1>4
<1>5. txn' \in [Releases -> TxnType]
  BY <1>1, <1>2, <1>3, <1>4
<1>6. run' \in RunType /\ run'.r \in Releases /\ run'.r # None /\ run'.pc = "load"
      /\ run'.seen = None
  <2>1. <<f, head[f]>> \in Releases /\ None \notin Releases
    BY ReleaseAssumption DEF IInv, Types, TypeOK, Releases
  <2> QED BY <1>1, <2>1 DEF RunType, PassPlaces
<1>7. Types'
  BY <1>1, <1>5, <1>6 DEF IInv, Types, TypeOK, outside, TxnType
<1>8. ASSUME NEW r \in Releases PROVE Journaled(r)'
  <2>1. Journaled(r) /\ approval' = approval /\ Automatic' = Automatic
    BY <1>1 DEF IInv, outside, Automatic
  <2>2. CASE r \in closed
    <3>1. /\ txn'[r].phase = "superseded" /\ ~txn[r].used /\ txn'[r].nonce = txn[r].nonce
          /\ txn'[r].used = txn[r].used /\ txn'[r].consumed = txn[r].consumed
      BY <1>3, <2>2
    <3>2. UNCHANGED <<lease, target, spent>>
      BY <1>1
    <3> QED BY <2>1, <3>1, <3>2 DEF Journaled, Settled
  <2>3. CASE r \notin closed
    BY <1>1, <1>4, <2>1, <2>3 DEF Journaled
  <2> QED BY <2>2, <2>3
<1>9. Standing'
  BY <1>6 DEF Standing, Before, After
<1>10. Ended'
  <2>1. ASSUME NEW r \in Releases, txn[r].phase = "succeeded" PROVE txn'[r].phase = "succeeded"
    <3>1. r \notin closed
      BY <2>1 DEF PreApply
    <3> QED BY <1>4, <2>1, <3>1
  <2>2. \A g \in finished, c \in 1 .. LastCommit : <<g, c>> \in Releases
    BY DEF IInv, Types, TypeOK, Releases
  <2> QED BY <1>1, <2>1, <2>2 DEF IInv, Ended
<1>11. Served
  BY <1>3, <1>4 DEF Served
<1> QED BY <1>7, <1>8, <1>9, <1>10, <1>11 DEF IInv

\* Developers, the tracker, CI and the clocks touch nothing that the release relies on.
LEMMA WorldKeeps ==
    ASSUME IInv, Types', UNCHANGED <<txn, lease, run, approval, target, finished, spent>>,
           left'.mode = left.mode
    PROVE  IInv' /\ Served
<1>1. Automatic' = Automatic /\ r0' = r0 /\ here' = here
  BY DEF Automatic, r0, here
<1>2. \A r \in Releases : Journaled(r)'
  BY <1>1 DEF IInv, Journaled
<1>3. Standing' /\ Ended' /\ Served
  BY <1>1 DEF IInv, Standing, Ended, Served
<1> QED BY <1>2, <1>3 DEF IInv

\* A fault leaves the mode of the scenario as it is.
LEMMA Spends ==
    ASSUME left \in Modes
    PROVE  /\ left.heads > 0 => [left EXCEPT !.heads = @ - 1] \in Modes
           /\ left.evidence > 0 => [left EXCEPT !.evidence = @ - 1] \in Modes
           /\ left.verdicts > 0 => [left EXCEPT !.verdicts = @ - 1] \in Modes
           /\ left.lapses > 0 => [left EXCEPT !.lapses = @ - 1] \in Modes
           /\ left.provider > 0 => [left EXCEPT !.provider = @ - 1] \in Modes
           /\ [left EXCEPT !.heads = @ - 1].mode = left.mode
           /\ [left EXCEPT !.evidence = @ - 1].mode = left.mode
           /\ [left EXCEPT !.verdicts = @ - 1].mode = left.mode
           /\ [left EXCEPT !.lapses = @ - 1].mode = left.mode
           /\ [left EXCEPT !.provider = @ - 1].mode = left.mode
<1>1. left.heads > 0 => [left EXCEPT !.heads = @ - 1] \in Modes
  BY DEF Modes
<1>2. left.evidence > 0 => [left EXCEPT !.evidence = @ - 1] \in Modes
  BY DEF Modes
<1>3. left.verdicts > 0 => [left EXCEPT !.verdicts = @ - 1] \in Modes
  BY DEF Modes
<1>4. left.lapses > 0 => [left EXCEPT !.lapses = @ - 1] \in Modes
  BY DEF Modes
<1>5. left.provider > 0 => [left EXCEPT !.provider = @ - 1] \in Modes
  BY DEF Modes
<1>6. /\ [left EXCEPT !.heads = @ - 1].mode = left.mode
      /\ [left EXCEPT !.evidence = @ - 1].mode = left.mode
      /\ [left EXCEPT !.verdicts = @ - 1].mode = left.mode
      /\ [left EXCEPT !.lapses = @ - 1].mode = left.mode
      /\ [left EXCEPT !.provider = @ - 1].mode = left.mode
  BY DEF Modes
<1> QED BY <1>1, <1>2, <1>3, <1>4, <1>5, <1>6

LEMMA VerdictTypes ==
    ASSUME NEW v \in TrackerType, NEW c \in Nat
    PROVE  /\ [v EXCEPT !.evidence = @ + 1] \in TrackerType
           /\ [v EXCEPT !.ok = FALSE] \in TrackerType
           /\ [v EXCEPT !.id = @ + 1] \in TrackerType
           /\ [v EXCEPT !.ok = TRUE, !.id = v.id + 1, !.on = c, !.over = v.evidence]
              \in TrackerType
<1>1. ASSUME NEW w \in TrackerType, NEW n \in Nat, NEW b \in BOOLEAN
      PROVE  /\ [w EXCEPT !.ok = b] \in TrackerType
             /\ [w EXCEPT !.id = n] \in TrackerType
             /\ [w EXCEPT !.on = n] \in TrackerType
             /\ [w EXCEPT !.over = n] \in TrackerType
             /\ [w EXCEPT !.evidence = n] \in TrackerType
  BY DEF TrackerType
<1>2. v.id \in Nat /\ v.evidence \in Nat /\ v.id + 1 \in Nat /\ v.evidence + 1 \in Nat
  BY DEF TrackerType
<1>3. [v EXCEPT !.ok = TRUE, !.id = v.id + 1, !.on = c, !.over = v.evidence] \in TrackerType
  <2> DEFINE w == [v EXCEPT !.ok = TRUE]
             x == [w EXCEPT !.id = v.id + 1]
             y == [x EXCEPT !.on = c]
  <2>1. w \in TrackerType
    BY <1>1
  <2> HIDE DEF w
  <2>2. x \in TrackerType
    BY <1>1, <1>2, <2>1
  <2> HIDE DEF x
  <2>3. y \in TrackerType
    BY <1>1, <2>2
  <2> HIDE DEF y
  <2>4. [y EXCEPT !.over = v.evidence] \in TrackerType
    BY <1>1, <1>2, <2>3
  <2> QED BY <2>4 DEF w, x, y
<1> QED BY <1>1, <1>2, <1>3

LEMMA OutsideTypes ==
    ASSUME IInv, NEW f \in Features, NEW r \in Releases,
           \/ Commit(f) \/ EvidenceChanges(f) \/ ApproveProduct(f) \/ VerdictChanges(f)
           \/ CiPasses(f) \/ CiFails(f) \/ Expire(r)
    PROVE  Types' /\ left'.mode = left.mode
<1>1. /\ Types /\ head[f] \in 1 .. LastCommit /\ left \in Modes
      /\ tracker \in [Features -> TrackerType] /\ tracker[f] \in TrackerType
  BY DEF IInv, Types, TypeOK, TrackerType
<1>0. head[f] \in Nat
  BY <1>1, ReleaseAssumption
<1>2. left' \in Modes /\ left'.mode = left.mode
  BY <1>1, Spends DEF Commit, EvidenceChanges, ApproveProduct, VerdictChanges, CiPasses,
     CiFails, Expire
<1>3. head' \in [Features -> 1 .. LastCommit]
  <2>1. CASE Commit(f)
    <3>1. head[f] + 1 \in 1 .. LastCommit
      BY <1>1, <2>1, ReleaseAssumption DEF Commit
    <3> QED BY <1>1, <2>1, <3>1 DEF Types, TypeOK, Commit
  <2> QED BY <1>1, <2>1 DEF Types, TypeOK, EvidenceChanges, ApproveProduct, VerdictChanges,
             CiPasses, CiFails, Expire
<1>4. tracker' \in [Features -> TrackerType]
  <2>1. ASSUME NEW q \in TrackerType, tracker' = [tracker EXCEPT ![f] = q]
        PROVE  tracker' \in [Features -> TrackerType]
    BY <1>1, <2>1
  <2>2. CASE EvidenceChanges(f)
    <3> DEFINE q == [tracker[f] EXCEPT !.evidence = @ + 1]
    <3>1. q \in TrackerType
      BY <1>0, <1>1, VerdictTypes
    <3>2. tracker' = [tracker EXCEPT ![f] = q]
      BY <1>1, <2>2 DEF EvidenceChanges
    <3> HIDE DEF q
    <3> QED BY <2>1, <3>1, <3>2
  <2>3. CASE ApproveProduct(f)
    <3> DEFINE q == [tracker[f] EXCEPT !.ok = TRUE, !.id = tracker[f].id + 1, !.on = head[f],
                                       !.over = tracker[f].evidence]
    <3>1. q \in TrackerType
      BY <1>0, <1>1, VerdictTypes
    <3>2. tracker' = [tracker EXCEPT ![f] = q]
      BY <1>1, <2>3 DEF ApproveProduct
    <3> HIDE DEF q
    <3> QED BY <2>1, <3>1, <3>2
  <2>4. CASE VerdictChanges(f)
    <3>1. /\ [tracker[f] EXCEPT !.ok = FALSE] \in TrackerType
          /\ [tracker[f] EXCEPT !.id = @ + 1] \in TrackerType
      BY <1>0, <1>1, VerdictTypes
    <3>2. \/ tracker' = [tracker EXCEPT ![f] = [tracker[f] EXCEPT !.ok = FALSE]]
          \/ tracker' = [tracker EXCEPT ![f] = [tracker[f] EXCEPT !.id = @ + 1]]
      BY <1>1, <2>4 DEF VerdictChanges
    <3> QED BY <2>1, <3>1, <3>2
  <2> QED BY <1>1, <2>2, <2>3, <2>4 DEF Commit, CiPasses, CiFails, Expire
<1>5. green' \in [Features -> BOOLEAN] /\ stale' \subseteq Releases
  BY <1>1 DEF Types, TypeOK, Commit, EvidenceChanges, ApproveProduct, VerdictChanges, CiPasses,
     CiFails, Expire
<1>6. UNCHANGED <<txn, lease, run, approval, target, finished, spent>>
  BY DEF Commit, EvidenceChanges, ApproveProduct, VerdictChanges, CiPasses, CiFails, Expire
<1> QED BY <1>1, <1>2, <1>3, <1>4, <1>5, <1>6 DEF Types, TypeOK, TrackerType, RunType

\* An approval names the manifest a release waits with; no pass under way rests on another.
LEMMA ApproveKeeps ==
    ASSUME IInv, NEW r \in Releases, Approve(r) PROVE IInv' /\ Served
<1>1. /\ txn[r].phase = "awaiting-approval" /\ approval[r] # txn[r].nonce
      /\ approval' = [approval EXCEPT ![r] = txn[r].nonce]
      /\ UNCHANGED <<txn, lease, run, head, tracker, green, stale, target, finished, spent, left>>
  BY DEF Approve
<1>2. /\ approval \in [Releases -> Nat] /\ txn[r].nonce \in Nat
      /\ Automatic' = Automatic /\ r0' = r0 /\ here' = here
  BY <1>1 DEF IInv, Types, TypeOK, Automatic, r0, here
<1>3. approval' \in [Releases -> Nat] /\ approval'[r] = txn[r].nonce
      /\ \A q \in Releases \ {r} : approval'[q] = approval[q]
  BY <1>1, <1>2
<1>4. Types'
  BY <1>1, <1>3 DEF IInv, Types, TypeOK, RunType
<1>5. ASSUME NEW q \in Releases PROVE Journaled(q)'
  BY <1>1, <1>2, <1>3 DEF IInv, Journaled
<1>6. Standing'
  <2>1. CASE run.pc = "idle"
    BY <1>1, <2>1 DEF Standing, Before, After
  <2>2. CASE run.pc # "idle"
    <3>1. r0 \in Releases /\ here = txn[r0]
      BY <2>2, HereFacts DEF here, r0
    <3>2. approval[r0] = here.nonce => approval'[r0] = here.nonce
      BY <1>3, <3>1
    <3> QED BY <1>1, <1>2, <3>2 DEF IInv, Standing
  <2> QED BY <2>1, <2>2
<1>7. Ended' /\ Served
  BY <1>1 DEF IInv, Ended, Served
<1> QED BY <1>4, <1>5, <1>6, <1>7 DEF IInv

\* What the provider still works on belongs to the owner of the lease, and no pass has
\* gone past it.
LEMMA ProviderKeeps ==
    ASSUME IInv, NEW r \in Releases, target.op[r] \in Pending,
           NEW o \in {"applied", "failed", "not-applied"},
           o = "not-applied" => target.op[r] = "in-progress",
           NEW l \in Releases \union {None},
           target' = [op |-> [target.op EXCEPT ![r] = o], live |-> l],
           left' \in Modes, left'.mode = left.mode,
           UNCHANGED <<txn, lease, run, outside, finished, spent>>
    PROVE  IInv' /\ Served
<1>1. /\ target' \in TargetType /\ target'.op[r] = o
      /\ \A q \in Releases \ {r} : target'.op[q] = target.op[q]
  <2>1. target.op \in [Releases -> {"not-applied", "applied", "failed"} \union Pending]
    BY DEF IInv, Types, TypeOK
  <2> QED BY <2>1 DEF TargetType, Pending
<1>2. Automatic' = Automatic /\ r0' = r0 /\ here' = here /\ approval' = approval
  BY DEF Automatic, r0, here, outside
<1>3. Journaled(r) /\ lease = r /\ txn[r].phase \notin Settled /\ txn[r].used
  BY DEF IInv, Journaled, Pending
<1>4. Types'
  BY <1>1 DEF IInv, Types, TypeOK, outside, RunType, TargetType
<1>5. ASSUME NEW q \in Releases PROVE Journaled(q)'
  <2>1. CASE q = r
    BY <1>1, <1>2, <1>3, <2>1 DEF Journaled
  <2>2. CASE q # r
    BY <1>1, <1>2, <2>2 DEF IInv, Journaled
  <2> QED BY <2>1, <2>2
<1>6. Standing'
  <2>1. CASE run.pc = "idle"
    BY <2>1 DEF Standing, Before, After
  <2>2. CASE run.pc # "idle"
    <3>1. r0 \in Releases
      BY <2>2, HereFacts
    <3>2. CASE r = r0
      <4>1. run.pc \notin {"preverify", "verify", "record", "rollback"} /\ run.pc \notin Before
        BY <2>2, <3>2 DEF IInv, Standing, Pending
      <4> QED BY <1>2, <4>1 DEF IInv, Standing
    <3>3. CASE r # r0
      <4>1. run.pc \notin {"mark", "again", "apply"} \union After
        BY <1>3, <3>3 DEF IInv, Standing
      <4>2. target'.op[r0] = target.op[r0]
        BY <1>1, <3>1, <3>3
      <4> QED BY <1>2, <4>1, <4>2 DEF IInv, Standing, After
    <3> QED BY <3>2, <3>3
  <2> QED BY <2>1, <2>2
<1>7. Ended' /\ Served
  BY DEF IInv, Ended, Served
<1> QED BY <1>4, <1>5, <1>6, <1>7 DEF IInv

LEMMA CompleteKeeps ==
    ASSUME IInv, NEW r \in Releases, Complete(r) \/ OperationFails(r) PROVE IInv' /\ Served
<1>1. /\ target.op[r] \in Pending /\ UNCHANGED <<txn, lease, run, outside, finished, spent>>
      /\ left' \in Modes /\ left'.mode = left.mode
  BY Spends DEF Complete, OperationFails, IInv, Types, Pending
<1>2. CASE Complete(r)
  <2> DEFINE l == IF target.op[r] = "undoing" THEN txn[r].previous ELSE r
  <2>1. target' = [op |-> [target.op EXCEPT ![r] = "applied"], live |-> l]
    BY <1>2 DEF Complete
  <2>2. l \in Releases \union {None}
    BY DEF IInv, Types, TypeOK
  <2> HIDE DEF l
  <2> QED BY <1>1, <2>1, <2>2, ProviderKeeps
<1>3. CASE OperationFails(r)
  <2>1. target \in TargetType
    BY DEF IInv, Types, TypeOK, TargetType
  <2>2. ASSUME NEW o \in {"failed", "not-applied"}, target' = [target EXCEPT !.op[r] = o]
        PROVE  target' = [op |-> [target.op EXCEPT ![r] = o], live |-> target.live]
    BY <2>1, <2>2 DEF TargetType
  <2>3. target.live \in Releases \union {None}
    BY <2>1 DEF TargetType
  <2>4. CASE target' = [target EXCEPT !.op[r] = "failed"]
    BY <1>1, <2>2, <2>3, <2>4, ProviderKeeps
  <2>5. CASE target' = [target EXCEPT !.op[r] = "not-applied"] /\ target.op[r] = "in-progress"
    BY <1>1, <2>2, <2>3, <2>5, ProviderKeeps
  <2> QED BY <1>3, <2>4, <2>5 DEF OperationFails
<1> QED BY <1>2, <1>3

LEMMA OutsideKeeps == ASSUME IInv, Outside PROVE IInv' /\ Served
<1>1. ASSUME NEW f \in Features,
             \/ Commit(f) \/ EvidenceChanges(f) \/ ApproveProduct(f) \/ VerdictChanges(f)
             \/ CiPasses(f) \/ CiFails(f)
      PROVE  IInv' /\ Served
  <2>1. <<f, 1>> \in Releases
    <3>1. 1 \in 1 .. LastCommit
      BY ReleaseAssumption
    <3> QED BY <3>1 DEF Releases
  <2>2. Types' /\ left'.mode = left.mode
    BY <1>1, <2>1, OutsideTypes
  <2>3. UNCHANGED <<txn, lease, run, approval, target, finished, spent>>
    BY <1>1 DEF Commit, EvidenceChanges, ApproveProduct, VerdictChanges, CiPasses, CiFails
  <2> QED BY <2>2, <2>3, WorldKeeps
<1>2. ASSUME NEW r \in Releases, Expire(r) PROVE IInv' /\ Served
  <2>1. r[1] \in Features
    BY DEF Releases
  <2>2. Types' /\ left'.mode = left.mode
    BY <1>2, <2>1, OutsideTypes
  <2>3. UNCHANGED <<txn, lease, run, approval, target, finished, spent>>
    BY <1>2 DEF Expire
  <2> QED BY <2>2, <2>3, WorldKeeps
<1> QED BY <1>1, <1>2, ApproveKeeps, CompleteKeeps DEF Outside

LEMMA StutterKeeps == ASSUME IInv, UNCHANGED vars PROVE IInv' /\ Served
<1>1. Types'
  BY DEF IInv, Types, TypeOK, vars, outside, RunType
<1> QED BY <1>1, WorldKeeps DEF vars, outside

LEMMA StepKeeps == ASSUME IInv, [Next]_vars PROVE IInv' /\ Served
BY PassKeeps, InterruptKeeps, BeginKeeps, OutsideKeeps, StutterKeeps DEF Next

LEMMA Invariance == Safety => []IInv
BY InitInv, StepKeeps, PTL DEF Safety

-----------------------------------------------------------------------------
(* The results.                                                              *)

\* What a release started on the target it owns there until the outcome is known, and a
\* finished feature has a release that succeeded (claim_target_lease, release_target_lease).
THEOREM Fenced == Safety => []TargetFenced
<1>1. IInv => TargetFenced
  BY DEF IInv, Types, TargetFenced, Journaled, Ended
<1> QED BY <1>1, Invariance, PTL

LEMMA ApplyStep ==
    ASSUME IInv, [Next]_vars
    PROVE  \A r \in Releases : Applies(r) =>
              /\ target.op[r] = "not-applied"
              /\ lease = r /\ txn[r].phase = "applying" /\ txn[r].used
              /\ Automatic \/ (approval[r] = txn[r].nonce /\ <<r, txn[r].nonce>> \notin spent)
<1> SUFFICES ASSUME NEW r \in Releases, Applies(r)
             PROVE  /\ target.op[r] = "not-applied"
                    /\ lease = r /\ txn[r].phase = "applying" /\ txn[r].used
                    /\ Automatic \/ (approval[r] = txn[r].nonce /\ <<r, txn[r].nonce>> \notin spent)
  OBVIOUS
<1>1. run.pc = "apply" /\ run.pc \in Before /\ r0 = r /\ here = txn[r]
  BY DEF Applies, Before, r0, here
<1> QED BY <1>1, BeforeFacts DEF IInv, Standing

\* An apply starts behind the lease and the durable marker on a target without the release,
\* and an approved manifest starts it at most once (consume_apply_authority).
THEOREM AppliedOnce == Safety => OneApplyPerApproval
BY Invariance, ApplyStep, PTL DEF Safety, OneApplyPerApproval

\* An outcome is recorded only while the target serves what it says (execute,
\* reconcile_rolling_back).
THEOREM OutcomesServe == Safety => OutcomeServes
<1>1. ASSUME IInv, [Next]_vars PROVE Served
  BY <1>1, StepKeeps
<1> QED BY <1>1, Invariance, PTL DEF Safety, OutcomeServes, Served

=============================================================================
