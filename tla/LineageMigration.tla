-------------------------- MODULE LineageMigration --------------------------
(***************************************************************************)
(* bin/lineage-migration.py: the one-shot migration of a task's execution  *)
(* record from before claim lineages.  The team lead stages a request      *)
(* (worker-control.py request-lineage-migration) whose name is a digest of *)
(* the state it observed; each dispatcher pass reconciles the queue before *)
(* it plans.                                                               *)
(*                                                                         *)
(* A request runs under the authority lock and the lock of the execution,  *)
(* which claims, packets and hold syncs take too; what takes no lock goes  *)
(* on beside it: time, the evidence, the staging of requests, and a write  *)
(* to the record by a process that takes no lock.  A step is one durable   *)
(* effect, and the broker may be killed before any.  An error defers the   *)
(* request to a later pass; a rejection moves it out of the queue.         *)
(***************************************************************************)
EXTENDS Naturals, FiniteSets

CONSTANTS MaxEvidence,  \* bound: states of the evidence, a request name for each
          MaxRequests,  \* bound: requests staged under one name
          MaxBatch,     \* MAX_MIGRATION_REQUESTS_PER_PASS
          Kills,        \* bound: kills of the broker
          Writes,       \* bound: writes to the record outside the lock
          Holds         \* bound: holds of the task

Names == 1 .. MaxEvidence
Serials == 1 .. MaxRequests

ASSUME MigrationAssumption ==
    /\ MaxEvidence \in Nat \ {0} /\ MaxRequests \in Nat \ {0} /\ MaxBatch \in Nat \ {0}
    /\ Kills \in Nat /\ Writes \in Nat /\ Holds \in Nat

VARIABLES execution,   \* the record: legacy, target, a later or a new attempt, foreign, none
          generation,  \* the lifecycle record of its worker
          evidence,    \* what else a request binds: tracker, claim, contract, packet, head
          control,     \* the queue of each name: pending, staged, archived, rejected
          expired,     \* the requests past expiresAt
          vault,       \* protected storage of each name: receipts, backup, sealed target
          broker,      \* the pass, the request it is carrying out, and whether what it
                       \* compared of the record is still there
          budget,      \* kills, writes and holds left
          meddled      \* history: what changed under a request, or that one was passed over

vars == <<execution, generation, evidence, control, expired, vault, broker, budget, meddled>>
outside == <<generation, evidence, expired, budget>>
world == <<outside, meddled>>

Idle == [at |-> "rest", todo |-> {}, name |-> 0, serial |-> 0, plan |-> "none", intact |-> TRUE]

Init ==
    /\ execution = "legacy"
    /\ generation = "live"
    /\ evidence = 1
    /\ control = [id \in Names |-> [pending |-> 0, staged |-> 0, archived |-> 0, rejected |-> {}]]
    /\ expired = {}
    /\ vault = [id \in Names |-> [prepared |-> 0, consumed |-> 0, backup |-> FALSE, sealed |-> FALSE]]
    /\ broker = Idle
    /\ budget = [kills |-> Kills, writes |-> Writes, holds |-> Holds]
    /\ meddled = {}

------------------------------------------------------------------------------
(* The team lead. *)

\* O_EXCL: a request is not staged over the one of the same name.
Room(id) == control[id].pending = 0 /\ control[id].staged < MaxRequests

\* legacy_migration_binding: a request binds a record from before lineages, and its generation.
LegacyBinding(id) == id = evidence /\ execution = "legacy" /\ generation # "forgotten"

Stage(id) ==
    /\ LegacyBinding(id)
    /\ Room(id)
    /\ control' = [control EXCEPT ![id].staged = @ + 1, ![id].pending = control[id].staged + 1]
    /\ UNCHANGED <<execution, vault, broker, world>>

------------------------------------------------------------------------------
(* A pass takes the pending requests, at most MaxBatch, and one after the other. *)

Pending == {id \in Names : control[id].pending # 0}

BeginPass ==
    /\ broker.at = "rest"
    /\ \E batch \in SUBSET Pending :
          /\ Cardinality(batch) = IF Cardinality(Pending) <= MaxBatch
                                  THEN Cardinality(Pending) ELSE MaxBatch
          /\ broker' = [Idle EXCEPT !.at = "next", !.todo = batch]
          /\ meddled' = meddled \union (IF batch = Pending THEN {} ELSE {"queue"})
    /\ UNCHANGED <<execution, control, vault, outside>>

Mine == vault[broker.name]
Lapsed(id, n) == <<id, n>> \in expired
At(step) == broker.at = step
Goto(step) == broker' = [broker EXCEPT !.at = step]
Defer == broker' = [Idle EXCEPT !.at = "next", !.todo = broker.todo]

Tombstone(id, n) == control' = [control EXCEPT ![id].pending = 0, ![id].rejected = @ \union {n}]

\* Mutant: the recovery of a displaced record ends with its request.
Recovers_InTime(id, n) == vault[id].backup /\ vault[id].sealed /\ ~Lapsed(id, n)
Recovers(id, n) == vault[id].backup /\ vault[id].sealed

\* Mutant: a consumed request is repaired from its receipt alone.
Replays_Unsealed(id) == TRUE
Replays(id) == vault[id].sealed

\* _migrate_bound_request_locked: what the receipts and the record leave to be done,
\* nothing where the request is deferred. A receipt binds the bytes of one request.
Plans(id, n) ==
    LET v == vault[id]  prepared == v.consumed = 0 /\ v.prepared = n IN
    CASE v.consumed = n /\ execution = "target" -> "replay"
      [] v.consumed = n /\ execution # "target" /\ Replays(id) -> "repair"
      [] prepared /\ Recovers(id, n) -> "recovery"
      [] prepared /\ ~v.backup /\ execution = "target" -> "installed"
      [] prepared /\ ~v.backup /\ execution = "legacy" ->
           IF Lapsed(id, n) THEN "abort" ELSE "fresh"
      [] v.consumed = 0 /\ v.prepared = 0 -> IF Lapsed(id, n) THEN "reject" ELSE "fresh"
      [] OTHER -> "none"

First == [fresh |-> "check", recovery |-> "seal", installed |-> "receipt", repair |-> "repair",
          replay |-> "unprepare", abort |-> "unseal", reject |-> "reject"]

Take ==
    /\ broker.at = "next"
    /\ \E id \in broker.todo :
          LET n == control[id].pending  plan == Plans(id, n)
              rest == [broker EXCEPT !.todo = @ \ {id}] IN
          broker' = IF n = 0 \/ plan = "none" THEN rest
                    ELSE [rest EXCEPT !.at = First[plan], !.name = id, !.serial = n, !.plan = plan]
    /\ UNCHANGED <<execution, control, vault, world>>

------------------------------------------------------------------------------
(* Prepare. *)

Bound == evidence = broker.name

\* The producer's capability, exact_state, then the validity interval, then the generation of
\* the worker. Without a receipt, the capability, the claim or the lead that changed reject the
\* request, and anything else defers it.
Check ==
    /\ At("check")
    /\ \/ /\ Bound /\ execution = "legacy" /\ ~Lapsed(broker.name, broker.serial)
          /\ generation = "dead"
          /\ Goto(IF Mine.prepared = 0 THEN "prepare" ELSE "seal")
          /\ UNCHANGED control
       \/ /\ \/ Bound /\ execution = "legacy" /\ Lapsed(broker.name, broker.serial)
             \/ ~Bound /\ Mine.prepared = 0
          /\ Tombstone(broker.name, broker.serial)
          /\ Defer
       \/ /\ \/ ~Bound \/ execution # "legacy"
             \/ ~Lapsed(broker.name, broker.serial) /\ generation # "dead"
          /\ Defer
          /\ UNCHANGED control
    /\ UNCHANGED <<execution, vault, world>>

Prepare ==
    /\ At("prepare")
    /\ IF Bound
       THEN /\ vault' = [vault EXCEPT ![broker.name].prepared = broker.serial]
            /\ Goto("seal")
       ELSE Defer /\ UNCHANGED vault
    /\ UNCHANGED <<execution, control, world>>

------------------------------------------------------------------------------
(* install_execution_transaction. *)

Seal ==
    /\ At("seal")
    /\ vault' = [vault EXCEPT ![broker.name].sealed = TRUE]
    /\ Goto("look")
    /\ UNCHANGED <<execution, control, world>>

\* Once the target is there: only a fresh transaction looks at it again.
Installed == IF broker.plan = "fresh" THEN "verify" ELSE "receipt"

Look ==
    /\ At("look")
    /\ CASE execution = "target" -> Goto(Installed)
         [] execution = "legacy" -> Goto("commit")
         [] execution = "none" /\ Mine.backup -> Goto("recommit")
         [] OTHER -> Defer
    /\ UNCHANGED <<execution, control, vault, world>>

\* before_commit, before the record is displaced and before the target is installed: the
\* evidence is not looked at again once a record was displaced.
Commit ==
    /\ At("commit") \/ At("recommit")
    /\ IF generation = "dead" /\ (broker.plan = "recovery" \/ Bound)
       THEN Goto(IF At("commit") THEN "backup" ELSE "install")
       ELSE Defer
    /\ UNCHANGED <<execution, control, vault, world>>

\* Mutant: the record leaves its name without its bytes in the backup.
Backup_Skipped ==
    /\ At("backup")
    /\ Goto("compare")
    /\ UNCHANGED <<execution, control, vault, world>>
Backup ==
    /\ At("backup")
    /\ vault' = [vault EXCEPT ![broker.name].backup = TRUE]
    /\ Goto("compare")
    /\ UNCHANGED <<execution, control, world>>

\* The name and the bytes of the record once more, the rename, and the displaced bytes: the
\* record is away when they turn out to be others.
Compare ==
    /\ At("compare")
    /\ IF execution = "legacy" THEN Goto("evacuate") ELSE Defer
    /\ UNCHANGED <<execution, control, vault, world>>

Evacuate ==
    /\ At("evacuate")
    /\ execution' = "none"
    /\ Goto("confirm")
    /\ UNCHANGED <<control, vault, world>>

Confirm ==
    /\ At("confirm")
    /\ IF broker.intact THEN Goto("recommit") ELSE Defer
    /\ UNCHANGED <<execution, control, vault, world>>

\* A candidate is moved to the name of the record, never over it, and read back.
Install ==
    /\ At("install")
    /\ IF execution = "none" THEN execution' = "target" /\ Goto("verify")
       ELSE Defer /\ UNCHANGED execution
    /\ UNCHANGED <<control, vault, world>>

------------------------------------------------------------------------------
(* Consume. *)

Verify ==
    /\ At("verify")
    /\ IF execution = "target" THEN Goto("receipt") ELSE Defer
    /\ UNCHANGED <<execution, control, vault, world>>

StoreReceipt ==
    /\ At("receipt")
    /\ vault' = [vault EXCEPT ![broker.name].consumed = broker.serial]
    /\ Goto(IF broker.plan = "installed" THEN "sealed" ELSE "repair")
    /\ UNCHANGED <<execution, control, world>>

Sealed ==
    /\ At("sealed")
    /\ IF Mine.sealed THEN Goto("repair") ELSE Defer
    /\ UNCHANGED <<execution, control, vault, world>>

\* What is retired first: the receipt of a transaction found consumed, otherwise the
\* artifacts of the transition, for which an installed target has no backup.
Repaired == CASE broker.plan = "repair" -> "unprepare"
              [] broker.plan = "installed" -> "unseal"
              [] OTHER -> "unbackup"

\* repair_consumed_projection: the file at the name and its bytes; one that is not the target
\* is displaced, whatever file has taken the name since, and its inode is compared after.
Inspect ==
    /\ At("repair")
    /\ Goto(IF execution = "none" THEN "reinstall" ELSE "read")
    /\ UNCHANGED <<execution, control, vault, world>>

Read ==
    /\ At("read")
    /\ Goto(IF execution = "target" THEN Repaired ELSE "displace")
    /\ UNCHANGED <<execution, control, vault, world>>

Displace ==
    /\ At("displace")
    /\ execution' = "none"
    /\ IF broker.intact THEN Goto("reinstall") ELSE Defer
    /\ UNCHANGED <<control, vault, world>>

Reinstall ==
    /\ At("reinstall")
    /\ IF execution = "none" THEN execution' = "target" /\ Goto("converge")
       ELSE Defer /\ UNCHANGED execution
    /\ UNCHANGED <<control, vault, world>>

Converge ==
    /\ At("converge")
    /\ IF execution = "target" THEN Goto(Repaired) ELSE Defer
    /\ UNCHANGED <<execution, control, vault, world>>

FoundConsumed == broker.plan \in {"replay", "repair"}

RetireBackup ==
    /\ At("unbackup")
    /\ vault' = [vault EXCEPT ![broker.name].backup = FALSE]
    /\ Goto("unseal")
    /\ UNCHANGED <<execution, control, world>>

RetireSealed ==
    /\ At("unseal")
    /\ vault' = [vault EXCEPT ![broker.name].sealed = FALSE]
    /\ Goto(IF FoundConsumed THEN "archive" ELSE "unprepare")
    /\ UNCHANGED <<execution, control, world>>

RetirePrepared ==
    /\ At("unprepare")
    /\ vault' = [vault EXCEPT ![broker.name].prepared = 0]
    /\ Goto(CASE FoundConsumed -> "unbackup"
              [] broker.plan = "abort" -> "reject"
              [] OTHER -> "archive")
    /\ UNCHANGED <<execution, control, world>>

\* consume_control: a copy of the bytes it was given, then the pending name.
Archive ==
    /\ At("archive")
    /\ IF control[broker.name].archived \in {0, broker.serial}
       THEN /\ control' = [control EXCEPT ![broker.name].archived = broker.serial]
            /\ Goto("retire")
       ELSE Defer /\ UNCHANGED control
    /\ UNCHANGED <<execution, vault, world>>

RetireControl ==
    /\ At("retire")
    /\ control' = [control EXCEPT ![broker.name].pending = 0]
    /\ Defer
    /\ UNCHANGED <<execution, vault, world>>

\* reject_pending_entry.
Reject ==
    /\ At("reject")
    /\ Tombstone(broker.name, broker.serial)
    /\ Defer
    /\ UNCHANGED <<execution, vault, world>>

-----------------------------------------------------------------------------
(* What goes on around the broker. *)

\* The rest of the pass: the dead worker of a migrated record is recovered as the next
\* attempt, and a task that has a claim but no record is started from its claim.
Plan ==
    /\ broker.at = "next" /\ broker.todo = {}
    /\ \/ execution = "target" /\ generation # "live" /\ execution' = "later"
       \/ execution = "none" /\ execution' = "anew"
       \/ execution # "none" /\ UNCHANGED execution
    /\ broker' = Idle
    /\ UNCHANGED <<control, vault, world>>

\* stop-task for a held task, before the queue is reconciled.
Hold ==
    /\ broker.at = "rest" /\ budget.holds > 0 /\ generation # "forgotten"
    /\ generation' = "forgotten"
    /\ budget' = [budget EXCEPT !.holds = @ - 1]
    /\ UNCHANGED <<execution, evidence, control, expired, vault, broker, meddled>>

Kill ==
    /\ broker.at # "rest" /\ budget.kills > 0
    /\ budget' = [budget EXCEPT !.kills = @ - 1]
    /\ broker' = Idle
    /\ UNCHANGED <<execution, generation, evidence, control, expired, vault, meddled>>

\* A write in place, or a file renamed over the record. It spoils what the broker compared: the
\* bytes before an evacuation, the file before a repair, the name until it is read back. The
\* displaced record may be written still by one that has it open.
Spoil(what) ==
    /\ broker' = [broker EXCEPT !.intact = @ /\ ~what]
    /\ meddled' = meddled \union (IF what THEN {"record"} ELSE {})

Write ==
    /\ budget.writes > 0
    /\ budget' = [budget EXCEPT !.writes = @ - 1]
    /\ \/ execution' = "foreign"
          /\ \E replaced \in BOOLEAN :
                Spoil(\/ broker.at \in {"evacuate", "reinstall", "converge"}
                      \/ replaced /\ broker.at \in {"read", "displace"})
       \/ At("confirm") /\ UNCHANGED execution /\ Spoil(TRUE)
    /\ UNCHANGED <<generation, evidence, control, expired, vault>>

Exit ==
    /\ generation = "live"
    /\ generation' = "dead"
    /\ UNCHANGED <<execution, evidence, control, expired, vault, broker, budget, meddled>>

\* Between the first look at what a request binds and the second, the record is displaced.
Committed == broker.plan = "fresh"
             /\ broker.at \in {"backup", "compare", "evacuate", "confirm", "recommit"}

Drift ==
    /\ evidence < MaxEvidence
    /\ evidence' = evidence + 1
    /\ meddled' = meddled \union (IF Committed THEN {"evidence"} ELSE {})
    /\ UNCHANGED <<execution, generation, control, expired, vault, broker, budget>>

Expire(id) ==
    /\ control[id].pending # 0 /\ ~Lapsed(id, control[id].pending)
    /\ expired' = expired \union {<<id, control[id].pending>>}
    /\ UNCHANGED <<execution, generation, evidence, control, vault, broker, budget, meddled>>

------------------------------------------------------------------------------
Transact == Check \/ Prepare \/ Seal \/ Look \/ Commit \/ Backup \/ Compare \/ Evacuate
            \/ Confirm \/ Install \/ Verify \/ StoreReceipt \/ Sealed
            \/ Inspect \/ Read \/ Displace \/ Reinstall \/ Converge
            \/ RetireBackup \/ RetireSealed \/ RetirePrepared \/ Archive \/ RetireControl
            \/ Reject
Pass == BeginPass \/ Take \/ Transact \/ Plan

Next ==
    \/ \E id \in Names : Stage(id) \/ Expire(id)
    \/ BeginPass \/ Take \/ Transact \/ Plan
    \/ Hold \/ Kill \/ Write \/ Exit \/ Drift

\* The dispatcher runs pass after pass (--watch, or its schedule).
Spec == Init /\ [][Next]_vars /\ WF_vars(Pass)

------------------------------------------------------------------------------
\* The forms of the record, the states of its generation, the queue and the protected
\* storage of a name, and its requests.
Records == {"legacy", "target", "later", "anew", "foreign", "none"}
Steps == {"check", "prepare", "seal", "look", "commit", "backup", "compare", "evacuate",
          "confirm", "recommit", "install", "verify", "receipt", "sealed", "repair", "read",
          "displace", "reinstall", "converge", "unbackup", "unseal", "unprepare", "archive", "retire", "reject"}
Generations == {"live", "dead", "forgotten"}
Queues == [pending : Serials \union {0}, staged : Serials \union {0},
           archived : Serials \union {0}, rejected : SUBSET Serials]
Vaults == [prepared : Serials \union {0}, consumed : Serials \union {0},
           backup : BOOLEAN, sealed : BOOLEAN]
Requests == Names \X Serials

\* The queue and the receipts name requests that were staged, and protected artifacts are
\* there only under a receipt that binds them, wherever the broker was killed.
TypeOK ==
    /\ execution \in Records /\ generation \in Generations /\ evidence \in Names
    /\ control \in [Names -> Queues] /\ vault \in [Names -> Vaults] /\ expired \subseteq Requests
    /\ \A id \in Names :
         /\ {control[id].pending, control[id].archived, vault[id].prepared, vault[id].consumed}
              \subseteq 0 .. control[id].staged
         /\ control[id].rejected \subseteq 1 .. control[id].staged
    /\ \A id \in Names : /\ vault[id].backup => vault[id].sealed
                         /\ vault[id].sealed => vault[id].prepared # 0 \/ vault[id].consumed # 0
    /\ broker.todo \subseteq Names
    /\ \/ broker = [Idle EXCEPT !.at = broker.at, !.todo = broker.todo] /\ broker.at \in {"rest", "next"}
       \/ broker.at \in Steps /\ broker.plan \in DOMAIN First
             /\ control[broker.name].pending = broker.serial /\ broker.serial # 0

\* While the record is away from its name, a pending request has the receipt, the sealed
\* target and, until it is consumed, the backup that bring it back, whatever was written or
\* changed meanwhile. The dispatcher starts the task anew for want of a record only if it was
\* held, if the record was written in the course of its replacement, if the evidence changed
\* between the two looks at it, or if a batch left a request out
\* (lineage-migration.py:2264-2315, 2326-2345, 2774-2856).
NothingLost ==
    /\ TypeOK
    /\ execution = "none" =>
         \E id \in Names : LET v == vault[id]  n == control[id].pending IN
            n # 0 /\ v.sealed /\ (v.consumed = n \/ (v.prepared = n /\ v.backup))
    /\ execution = "anew" => generation = "forgotten" \/ meddled # {}

\* A request that is replayed late never displaces the record of a later attempt, unless it
\* was left over by a write in the course of a replacement or by a full batch, whatever
\* evidence has changed (lineage-migration.py:2380-2414, 2717-2736).
NoRollback ==
    [][(execution \in {"later", "anew"} /\ meddled \subseteq {"evidence"})
          => (execution' \in {execution, "foreign"})]_vars

\* A record that a killed broker left away from its name comes back, whatever has expired or
\* changed since, unless the task was held or something changed in one of the windows.
Restored == execution = "none" ~> \/ execution \in {"target", "later", "foreign"}
                                  \/ generation = "forgotten" \/ meddled # {}

\* "let the reconciler quarantine the expired request and free its stable pathname for a
\* newly authenticated Team Lead request" (lineage-migration.py:2919-2922): a receipt never
\* outlives the request that it binds.
RejectionFrees == \A id \in Names : vault[id].prepared \in {0, control[id].pending}
=============================================================================
