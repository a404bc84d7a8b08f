----------------------- MODULE LineageMigrationProofs -----------------------
(***************************************************************************)
(* Invariants of LineageMigration for any number of names and requests and *)
(* any number of kills, writes and holds: what the protected storage holds *)
(* at each step, that a record away from its name is brought back before   *)
(* anybody starts the task anew, and that a request which is replayed late *)
(* leaves the record of a later attempt alone.                             *)
(***************************************************************************)
EXTENDS LineageMigration, FiniteSetTheorems, TLAPS

-----------------------------------------------------------------------------
(* Types, and where a request is on the path of its plan. *)

Phases == {"rest", "next"} \cup Steps
Budgets == [kills : Nat, writes : Nat, holds : Nat]
PlanNames == {"fresh", "recovery", "installed", "repair", "replay", "abort", "reject"}
Brokers == [at : Phases, todo : SUBSET Names, name : Names \cup {0},
            serial : Serials \cup {0}, plan : PlanNames \cup {"none"}, intact : BOOLEAN]

TypeInv ==
    /\ execution \in Records /\ generation \in Generations /\ evidence \in Names
    /\ control \in [Names -> Queues] /\ vault \in [Names -> Vaults]
    /\ expired \subseteq Requests
    /\ broker \in Brokers /\ budget \in Budgets
    /\ meddled \subseteq {"record", "evidence", "queue"}

Running == broker.at \in Steps

Path(plan) ==
    CASE plan = "fresh" -> Steps \ {"sealed", "reject"}
      [] plan = "recovery" -> Steps \ {"check", "prepare", "sealed", "reject"}
      [] plan = "installed" -> {"receipt", "sealed", "repair", "read", "displace",
                                "reinstall", "converge", "unseal", "unprepare", "archive",
                                "retire"}
      [] plan = "repair" -> {"repair", "read", "displace", "reinstall", "converge",
                             "unprepare", "unbackup", "unseal", "archive", "retire"}
      [] plan = "replay" -> {"unprepare", "unbackup", "unseal", "archive", "retire"}
      [] plan = "abort" -> {"unseal", "unprepare", "reject"}
      [] plan = "reject" -> {"reject"}
      [] OTHER -> {}

OnPath ==
    /\ Running => /\ broker.name \in Names /\ broker.serial \in Serials
                  /\ control[broker.name].pending = broker.serial
                  /\ broker.at \in Path(broker.plan)
    /\ ~Running => broker.name = 0 /\ broker.serial = 0 /\ broker.plan = "none"
                   /\ broker.intact
    /\ ~broker.intact => "record" \in meddled

PlaceInv == TypeInv /\ OnPath

\* A step that goes on keeps the request of the broker, and one that defers drops it.
LEMMA Goes ==
    ASSUME TypeInv, NEW step \in Phases, Goto(step)
    PROVE  /\ broker' \in Brokers /\ broker'.at = step /\ broker'.todo = broker.todo
           /\ broker'.name = broker.name /\ broker'.serial = broker.serial
           /\ broker'.plan = broker.plan /\ broker'.intact = broker.intact
BY DEF TypeInv, Brokers, Goto

LEMMA Defers ==
    ASSUME TypeInv, Defer
    PROVE  /\ broker' \in Brokers /\ broker'.at = "next" /\ broker'.todo = broker.todo
           /\ broker'.name = 0 /\ broker'.serial = 0 /\ broker'.plan = "none" /\ broker'.intact
BY DEF TypeInv, Brokers, Defer, Idle, Phases

LEMMA Rests ==
    ASSUME TypeInv, broker' = Idle
    PROVE  /\ broker' \in Brokers /\ broker'.at = "rest" /\ broker'.todo = {}
           /\ broker'.name = 0 /\ broker'.serial = 0 /\ broker'.plan = "none" /\ broker'.intact
BY DEF TypeInv, Brokers, Idle, Phases

\* A write changes no more of the broker than what it compared, and is seen if it does.
LEMMA Written ==
    ASSUME TypeInv, OnPath, Write
    PROVE  /\ broker' \in Brokers /\ broker'.at = broker.at /\ broker'.todo = broker.todo
           /\ broker'.name = broker.name /\ broker'.serial = broker.serial
           /\ broker'.plan = broker.plan
           /\ ~Running => broker'.intact
           /\ ~broker'.intact => "record" \in meddled'
           /\ meddled \subseteq meddled' /\ meddled' \subseteq meddled \cup {"record"}
           /\ execution' = "foreign" \/ (execution' = execution /\ broker.at = "confirm")
           /\ broker.at \in {"reinstall", "converge"} => "record" \in meddled'
           /\ budget' \in Budgets
           /\ UNCHANGED <<generation, evidence, control, expired, vault>>
<1>1. PICK what \in BOOLEAN :
          /\ Spoil(what)
          /\ what => Running
          /\ broker.at \in {"reinstall", "converge"} => what
    BY DEF Write, At, Running, Steps
<1>2. /\ broker' = [broker EXCEPT !.intact = @ /\ ~what]
      /\ meddled' = meddled \cup (IF what THEN {"record"} ELSE {})
    BY <1>1 DEF Spoil
<1>3. /\ broker' \in Brokers /\ broker'.at = broker.at /\ broker'.todo = broker.todo
      /\ broker'.name = broker.name /\ broker'.serial = broker.serial
      /\ broker'.plan = broker.plan /\ broker'.intact = (broker.intact /\ ~what)
    BY <1>2 DEF TypeInv, Brokers
<1>4. ~broker'.intact => "record" \in meddled'
    BY <1>2, <1>3 DEF OnPath
<1>5. ~Running => broker'.intact
    BY <1>1, <1>3 DEF OnPath
<1>6. budget' \in Budgets
    BY DEF Write, TypeInv, Budgets
<1>7. execution' = "foreign" \/ (execution' = execution /\ broker.at = "confirm")
    BY DEF Write, At
<1>8. broker.at \in {"reinstall", "converge"} => "record" \in meddled'
    BY <1>1, <1>2
<1> QED BY <1>2, <1>3, <1>4, <1>5, <1>6, <1>7, <1>8 DEF Write

(* What a plan says of the record and the receipts. *)
LEMMA PlanChosen ==
    ASSUME TypeInv, NEW id \in Names, NEW n \in Serials
    PROVE  LET v == vault[id]  plan == Plans(id, n) IN
           /\ plan \in PlanNames \cup {"none"}
           /\ plan = "replay" => v.consumed = n /\ execution = "target"
           /\ plan = "repair" => v.consumed = n /\ execution # "target" /\ v.sealed
           /\ plan = "recovery" => v.consumed = 0 /\ v.prepared = n /\ v.backup /\ v.sealed
           /\ plan = "installed" => v.consumed = 0 /\ v.prepared = n /\ ~v.backup /\ execution = "target"
           /\ plan = "abort" => v.consumed = 0 /\ v.prepared = n /\ ~v.backup /\ execution = "legacy"
           /\ plan = "reject" => v.consumed = 0 /\ v.prepared = 0
           /\ plan = "fresh" => /\ v.consumed = 0
                                /\ \/ v.prepared = 0
                                   \/ v.prepared = n /\ ~v.backup /\ execution = "legacy"
           /\ plan = "none" => /\ ~(v.consumed = n /\ (execution = "target" \/ v.sealed))
                               /\ ~(v.consumed = 0 /\ v.prepared = n /\ v.backup /\ v.sealed)
<1> DEFINE v == vault[id]
<1>1. v \in Vaults /\ n # 0
    BY DEF TypeInv, Serials
<1>2. CASE v.consumed = n /\ execution = "target"
    BY <1>1, <1>2 DEF Plans, PlanNames, Vaults
<1>3. CASE v.consumed = n /\ execution # "target"
    BY <1>1, <1>3 DEF Plans, PlanNames, Vaults, Replays
<1>4. CASE v.consumed # n /\ v.consumed = 0 /\ v.prepared = n
    <2>1. CASE v.backup /\ v.sealed
        BY <1>1, <1>4, <2>1 DEF Plans, PlanNames, Recovers
    <2>2. CASE v.backup /\ ~v.sealed
        BY <1>1, <1>4, <2>2 DEF Plans, PlanNames, Recovers
    <2>3. CASE ~v.backup /\ execution = "target"
        BY <1>1, <1>4, <2>3 DEF Plans, PlanNames, Recovers
    <2>4. CASE ~v.backup /\ execution = "legacy"
        BY <1>1, <1>4, <2>4 DEF Plans, PlanNames, Recovers
    <2>5. CASE ~v.backup /\ execution \notin {"target", "legacy"}
        BY <1>1, <1>4, <2>5 DEF Plans, PlanNames, Recovers
    <2> QED BY <1>1, <2>1, <2>2, <2>3, <2>4, <2>5 DEF Vaults
<1>5. CASE v.consumed # n /\ v.consumed = 0 /\ v.prepared = 0
    BY <1>1, <1>5 DEF Plans, PlanNames, Vaults, Recovers
<1>6. CASE v.consumed # n /\ ~(v.consumed = 0 /\ v.prepared \in {0, n})
    BY <1>1, <1>6 DEF Plans, PlanNames, Vaults, Recovers
<1> QED BY <1>2, <1>3, <1>4, <1>5, <1>6

LEMMA Tombstoned ==
    ASSUME TypeInv, NEW id \in Names, NEW n \in Serials, Tombstone(id, n)
    PROVE  /\ control' \in [Names -> Queues] /\ control'[id].pending = 0
           /\ control'[id].rejected = control[id].rejected \cup {n}
           /\ control'[id].archived = control[id].archived
           /\ control'[id].staged = control[id].staged
           /\ \A u \in Names \ {id} : control'[u] = control[u]
<1>1. control[id] \in Queues
    BY DEF TypeInv
<1>2. [control[id] EXCEPT !.pending = 0, !.rejected = @ \cup {n}] \in Queues
    BY <1>1 DEF Queues, Serials
<1> QED BY <1>1, <1>2 DEF Tombstone, TypeInv, Queues

(* The step at hand takes the request of the broker, whose pending name no  *)
(* one else retires.                                                        *)
LEMMA PlaceStep == PlaceInv /\ [Next]_vars => PlaceInv'
<1> SUFFICES ASSUME PlaceInv, [Next]_vars PROVE PlaceInv'
    OBVIOUS
<1> USE DEF PlaceInv, world, outside
<1>1. CASE \E id \in Names : Stage(id)
    <2> PICK id \in Names : Stage(id)
        BY <1>1
    <2>1. control'[id] \in Queues /\ control' \in [Names -> Queues]
        BY MigrationAssumption DEF Stage, LegacyBinding, Room, TypeInv, Queues, Serials
    <2>2. TypeInv'
        BY <2>1 DEF Stage, LegacyBinding, TypeInv
    <2>3. OnPath'
        BY DEF Stage, LegacyBinding, Room, TypeInv, OnPath, Running, Path, Serials
    <2> QED BY <2>2, <2>3
<1>2. CASE \E id \in Names : Expire(id)
    BY <1>2 DEF Expire, TypeInv, OnPath, Running, Path, Requests, Queues
<1>3. CASE BeginPass
    <2> PICK batch \in SUBSET Pending :
            /\ broker' = [Idle EXCEPT !.at = "next", !.todo = batch]
            /\ meddled' = meddled \cup (IF batch = Pending THEN {} ELSE {"queue"})
        BY <1>3 DEF BeginPass
    <2>1. /\ broker' \in Brokers /\ broker'.at = "next" /\ broker'.name = 0
          /\ broker'.serial = 0 /\ broker'.plan = "none" /\ broker'.intact
        BY DEF Pending, Brokers, Phases, Idle
    <2>2. meddled' \subseteq {"record", "evidence", "queue"}
        BY DEF TypeInv
    <2> QED BY <1>3, <2>1, <2>2 DEF BeginPass, TypeInv, OnPath, Running, Steps
<1>4. CASE Take
    <2> PICK id \in broker.todo :
            LET n == control[id].pending  plan == Plans(id, n)
                rest == [broker EXCEPT !.todo = @ \ {id}] IN
            broker' = IF n = 0 \/ plan = "none" THEN rest
                      ELSE [rest EXCEPT !.at = First[plan], !.name = id, !.serial = n,
                                        !.plan = plan]
        BY <1>4 DEF Take
    <2> DEFINE n == control[id].pending
    <2>1. id \in Names /\ n \in Serials \cup {0} /\ broker.at = "next"
        BY <1>4 DEF Take, TypeInv, Brokers, Queues
    <2>2. CASE n = 0 \/ Plans(id, n) = "none"
        <3>1. broker' = [broker EXCEPT !.todo = @ \ {id}]
            BY <2>2
        <3> QED BY <1>4, <2>1, <3>1 DEF Take, TypeInv, Brokers, OnPath, Running, Path, Steps
    <2>3. CASE n # 0 /\ Plans(id, n) # "none"
        <3>1. Plans(id, n) \in PlanNames
            BY <2>1, <2>3, PlanChosen
        <3>2. broker' = [broker EXCEPT !.todo = @ \ {id}, !.at = First[Plans(id, n)],
                                       !.name = id, !.serial = n, !.plan = Plans(id, n)]
            BY <2>3
        <3>3. First[Plans(id, n)] \in Steps /\ First[Plans(id, n)] \in Path(Plans(id, n))
            BY <3>1 DEF First, PlanNames, Steps, Path
        <3>5. n \in Serials \cup {0} /\ broker.todo \ {id} \in SUBSET Names
            BY <2>1 DEF TypeInv, Brokers
        <3>6. /\ First[Plans(id, n)] \in Phases /\ Plans(id, n) \in PlanNames \cup {"none"}
              /\ broker \in Brokers
            BY <3>1, <3>3 DEF TypeInv, Phases
        <3>4. broker' \in Brokers
            <4> HIDE DEF n
            <4> QED BY <2>1, <3>2, <3>5, <3>6 DEF Brokers
        <3> QED BY <1>4, <2>1, <2>3, <3>2, <3>3, <3>4 DEF Take, TypeInv, Brokers, OnPath,
        Running
    <2> QED BY <2>1, <2>2, <2>3
<1>5. CASE Check
    <2>1. broker' \in Brokers
        BY <1>5, Goes, Defers DEF Check, At, Phases, Steps
    <2>2. CASE Tombstone(broker.name, broker.serial) /\ Defer
        <3>1. broker.name \in Names /\ broker.serial \in Serials
            BY <1>5 DEF Check, At, OnPath, Running, Steps
        <3> QED BY <1>5, <2>1, <2>2, <3>1, Tombstoned, Defers
                DEF Check, TypeInv, OnPath, Running, Steps
    <2>3. CASE UNCHANGED control
        <3>1. TypeInv'
            BY <1>5, <2>1, <2>3 DEF Check, TypeInv
        <3>2. OnPath'
            BY <1>5, <2>3, Goes, Defers
               DEF Check, At, TypeInv, OnPath, Running, Path, Steps, Phases, Brokers,
                   PlanNames
        <3> QED BY <3>1, <3>2
    <2> QED BY <1>5, <2>2, <2>3 DEF Check
<1>6. CASE Prepare
    <2>1. broker' \in Brokers
        BY <1>6, Goes, Defers DEF Prepare, At, Phases, Steps
    <2>2. TypeInv'
        <3>1. vault[broker.name] \in Vaults /\ broker.serial \in Serials
            BY <1>6 DEF Prepare, At, TypeInv, OnPath, Running, Steps
        <3>2. [vault[broker.name] EXCEPT !.prepared = broker.serial] \in Vaults
            BY <3>1 DEF Vaults
        <3>3. vault' \in [Names -> Vaults]
            BY <1>6, <3>1, <3>2 DEF Prepare, TypeInv
        <3> QED BY <1>6, <2>1, <3>3 DEF Prepare, TypeInv
    <2>3. OnPath'
        BY <1>6, Goes, Defers DEF Prepare, At, TypeInv, OnPath, Running, Path, Steps,
                                  Phases, Brokers, PlanNames
    <2> QED BY <2>2, <2>3
<1>7. CASE Seal
    <2>1. broker' \in Brokers
        BY <1>7, Goes, Defers DEF Seal, At, Phases, Steps
    <2>2. TypeInv'
        BY <1>7, <2>1 DEF Seal, At, TypeInv, OnPath, Running, Path, Steps, Records, Vaults,
                          Queues
    <2>3. OnPath'
        BY <1>7, Goes, Defers DEF Seal, At, TypeInv, OnPath, Running, Path, Steps, Phases,
                                  Brokers, PlanNames
    <2> QED BY <2>2, <2>3
<1>8. CASE Look
    <2>1. broker' \in Brokers
        BY <1>8, Goes, Defers DEF Look, At, Phases, Steps, Installed
    <2>2. TypeInv'
        BY <1>8, <2>1 DEF Look, At, TypeInv, OnPath, Running, Path, Steps, Records, Vaults,
                          Queues
    <2>3. OnPath'
        BY <1>8, Goes, Defers DEF Look, At, TypeInv, OnPath, Running, Path, Steps, Phases,
                                  Installed, Brokers, PlanNames
    <2> QED BY <2>2, <2>3
<1>9. CASE Commit
    <2>1. broker' \in Brokers
        BY <1>9, Goes, Defers DEF Commit, At, Phases, Steps
    <2>2. TypeInv'
        BY <1>9, <2>1 DEF Commit, At, TypeInv, OnPath, Running, Path, Steps, Records,
                          Vaults, Queues
    <2>3. OnPath'
        BY <1>9, Goes, Defers DEF Commit, At, TypeInv, OnPath, Running, Path, Steps, Phases,
                                  Brokers, PlanNames
    <2> QED BY <2>2, <2>3
<1>10. CASE Backup
    <2>1. broker' \in Brokers
        BY <1>10, Goes, Defers DEF Backup, At, Phases, Steps
    <2>2. TypeInv'
        BY <1>10, <2>1 DEF Backup, At, TypeInv, OnPath, Running, Path, Steps, Records,
                           Vaults, Queues
    <2>3. OnPath'
        BY <1>10, Goes, Defers DEF Backup, At, TypeInv, OnPath, Running, Path, Steps,
                                   Phases, Brokers, PlanNames
    <2> QED BY <2>2, <2>3
<1>11. CASE Evacuate
    <2>1. broker' \in Brokers
        BY <1>11, Goes, Defers DEF Evacuate, At, Phases, Steps
    <2>2. TypeInv'
        BY <1>11, <2>1 DEF Evacuate, At, TypeInv, OnPath, Running, Path, Steps, Records,
                           Vaults, Queues
    <2>3. OnPath'
        BY <1>11, Goes, Defers DEF Evacuate, At, TypeInv, OnPath, Running, Path, Steps,
                                   Phases, Brokers, PlanNames
    <2> QED BY <2>2, <2>3
<1>12. CASE Install
    <2>1. broker' \in Brokers
        BY <1>12, Goes, Defers DEF Install, At, Phases, Steps, Installed
    <2>2. TypeInv'
        BY <1>12, <2>1 DEF Install, At, TypeInv, OnPath, Running, Path, Steps, Records,
                           Vaults, Queues
    <2>3. OnPath'
        BY <1>12, Goes, Defers DEF Install, At, TypeInv, OnPath, Running, Path, Steps,
                                   Phases, Installed, Brokers, PlanNames
    <2> QED BY <2>2, <2>3
<1>13. CASE Verify
    <2>1. broker' \in Brokers
        BY <1>13, Goes, Defers DEF Verify, At, Phases, Steps
    <2>2. TypeInv'
        BY <1>13, <2>1 DEF Verify, At, TypeInv, OnPath, Running, Path, Steps, Records,
                           Vaults, Queues
    <2>3. OnPath'
        BY <1>13, Goes, Defers DEF Verify, At, TypeInv, OnPath, Running, Path, Steps,
                                   Phases, Brokers, PlanNames
    <2> QED BY <2>2, <2>3
<1>14. CASE StoreReceipt
    <2>1. broker' \in Brokers
        BY <1>14, Goes, Defers DEF StoreReceipt, At, Phases, Steps
    <2>2. TypeInv'
        BY <1>14, <2>1 DEF StoreReceipt, At, TypeInv, OnPath, Running, Path, Steps, Records,
                           Vaults, Queues
    <2>3. OnPath'
        BY <1>14, Goes, Defers DEF StoreReceipt, At, TypeInv, OnPath, Running, Path, Steps,
                                   Phases, Brokers, PlanNames
    <2> QED BY <2>2, <2>3
<1>15. CASE Sealed
    <2>1. broker' \in Brokers
        BY <1>15, Goes, Defers DEF Sealed, At, Phases, Steps
    <2>2. TypeInv'
        BY <1>15, <2>1 DEF Sealed, At, TypeInv, OnPath, Running, Path, Steps, Records,
                           Vaults, Queues
    <2>3. OnPath'
        BY <1>15, Goes, Defers DEF Sealed, At, TypeInv, OnPath, Running, Path, Steps,
                                   Phases, Brokers, PlanNames
    <2> QED BY <2>2, <2>3
<1>16. CASE Inspect
    <2>1. broker' \in Brokers
        BY <1>16, Goes, Defers DEF Inspect, At, Phases, Steps
    <2>2. TypeInv'
        BY <1>16, <2>1 DEF Inspect, At, TypeInv, OnPath, Running, Path, Steps, Records,
                           Vaults, Queues
    <2>3. OnPath'
        BY <1>16, Goes, Defers DEF Inspect, At, TypeInv, OnPath, Running, Path, Steps,
                                   Phases, Brokers, PlanNames
    <2> QED BY <2>2, <2>3
<1>31. CASE Compare
    <2>1. broker' \in Brokers
        BY <1>31, Goes, Defers DEF Compare, At, Phases, Steps
    <2>2. TypeInv'
        BY <1>31, <2>1 DEF Compare, At, TypeInv, OnPath, Running, Path, Steps, Records,
                           Vaults, Queues
    <2>3. OnPath'
        BY <1>31, Goes, Defers DEF Compare, At, TypeInv, OnPath, Running, Path, Steps,
                                   Phases, Brokers, PlanNames
    <2> QED BY <2>2, <2>3
<1>32. CASE Confirm
    <2>1. broker' \in Brokers
        BY <1>32, Goes, Defers DEF Confirm, At, Phases, Steps
    <2>2. TypeInv'
        BY <1>32, <2>1 DEF Confirm, At, TypeInv, OnPath, Running, Path, Steps, Records,
                           Vaults, Queues
    <2>3. OnPath'
        BY <1>32, Goes, Defers DEF Confirm, At, TypeInv, OnPath, Running, Path, Steps,
                                   Phases, Brokers, PlanNames
    <2> QED BY <2>2, <2>3
<1>33. CASE Read
    <2>1. broker' \in Brokers
        BY <1>33, Goes, Defers DEF Read, At, Phases, Steps, Repaired
    <2>2. TypeInv'
        BY <1>33, <2>1 DEF Read, At, TypeInv, OnPath, Running, Path, Steps, Records,
                           Vaults, Queues
    <2>3. OnPath'
        BY <1>33, Goes, Defers DEF Read, At, TypeInv, OnPath, Running, Path, Steps,
                                   Phases, Repaired, Brokers, PlanNames
    <2> QED BY <2>2, <2>3
<1>34. CASE Displace
    <2>1. broker' \in Brokers
        BY <1>34, Goes, Defers DEF Displace, At, Phases, Steps
    <2>2. TypeInv'
        BY <1>34, <2>1 DEF Displace, At, TypeInv, OnPath, Running, Path, Steps, Records,
                           Vaults, Queues
    <2>3. OnPath'
        BY <1>34, Goes, Defers DEF Displace, At, TypeInv, OnPath, Running, Path, Steps,
                                   Phases, Brokers, PlanNames
    <2> QED BY <2>2, <2>3
<1>35. CASE Converge
    <2>1. broker' \in Brokers
        BY <1>35, Goes, Defers DEF Converge, At, Phases, Steps, Repaired
    <2>2. TypeInv'
        BY <1>35, <2>1 DEF Converge, At, TypeInv, OnPath, Running, Path, Steps, Records,
                           Vaults, Queues
    <2>3. OnPath'
        BY <1>35, Goes, Defers DEF Converge, At, TypeInv, OnPath, Running, Path, Steps,
                                   Phases, Repaired, Brokers, PlanNames
    <2> QED BY <2>2, <2>3
<1>17. CASE Reinstall
    <2>1. broker' \in Brokers
        BY <1>17, Goes, Defers DEF Reinstall, At, Phases, Steps, Repaired
    <2>2. TypeInv'
        BY <1>17, <2>1 DEF Reinstall, At, TypeInv, OnPath, Running, Path, Steps, Records,
                           Vaults, Queues
    <2>3. OnPath'
        BY <1>17, Goes, Defers DEF Reinstall, At, TypeInv, OnPath, Running, Path, Steps,
                                   Phases, Repaired, Brokers, PlanNames
    <2> QED BY <2>2, <2>3
<1>18. CASE RetireBackup
    <2>1. broker' \in Brokers
        BY <1>18, Goes, Defers DEF RetireBackup, At, Phases, Steps
    <2>2. TypeInv'
        BY <1>18, <2>1 DEF RetireBackup, At, TypeInv, OnPath, Running, Path, Steps, Records,
                           Vaults, Queues
    <2>3. OnPath'
        BY <1>18, Goes, Defers DEF RetireBackup, At, TypeInv, OnPath, Running, Path, Steps,
                                   Phases, Brokers, PlanNames
    <2> QED BY <2>2, <2>3
<1>19. CASE RetireSealed
    <2>1. broker' \in Brokers
        BY <1>19, Goes, Defers DEF RetireSealed, At, Phases, Steps, FoundConsumed
    <2>2. TypeInv'
        BY <1>19, <2>1 DEF RetireSealed, At, TypeInv, OnPath, Running, Path, Steps, Records,
                           Vaults, Queues
    <2>3. OnPath'
        BY <1>19, Goes, Defers DEF RetireSealed, At, TypeInv, OnPath, Running, Path, Steps,
                                   Phases, FoundConsumed, Brokers, PlanNames
    <2> QED BY <2>2, <2>3
<1>20. CASE RetirePrepared
    <2>1. broker' \in Brokers
        BY <1>20, Goes, Defers DEF RetirePrepared, At, Phases, Steps, FoundConsumed
    <2>2. TypeInv'
        BY <1>20, <2>1 DEF RetirePrepared, At, TypeInv, OnPath, Running, Path, Steps,
                           Records, Vaults, Queues
    <2>3. OnPath'
        BY <1>20, Goes, Defers DEF RetirePrepared, At, TypeInv, OnPath, Running, Path,
                                   Steps, Phases, FoundConsumed, Brokers, PlanNames
    <2> QED BY <2>2, <2>3
<1>21. CASE Archive
    <2>1. broker' \in Brokers
        BY <1>21, Goes, Defers DEF Archive, At, Phases, Steps
    <2>2. control' \in [Names -> Queues] /\ broker.name \in Names
            /\ control'[broker.name].pending = control[broker.name].pending
        <3>1. control[broker.name] \in Queues /\ broker.serial \in Serials /\ broker.name \in Names
            BY <1>21 DEF Archive, At, TypeInv, OnPath, Running, Steps
        <3>2. [control[broker.name] EXCEPT !.archived = broker.serial] \in Queues
            BY <3>1 DEF Queues
        <3> QED BY <1>21, <3>1, <3>2 DEF Archive, TypeInv, Queues
    <2>3. TypeInv'
        BY <1>21, <2>1, <2>2 DEF Archive, TypeInv
    <2>4. OnPath'
        BY <1>21, <2>2, Goes, Defers DEF Archive, At, OnPath, Running, Path, Steps, Phases,
                                         Brokers, PlanNames, TypeInv
    <2> QED BY <2>3, <2>4
<1>22. CASE RetireControl
    <2>1. broker' \in Brokers
        BY <1>22, Goes, Defers DEF RetireControl, At, Phases, Steps
    <2>2. TypeInv'
        <3>1. control[broker.name] \in Queues /\ broker.name \in Names
            BY <1>22 DEF RetireControl, At, TypeInv, OnPath, Running, Steps
        <3>2. [control[broker.name] EXCEPT !.pending = 0] \in Queues
            BY <3>1 DEF Queues
        <3> QED BY <1>22, <2>1, <3>1, <3>2 DEF RetireControl, TypeInv
    <2>3. OnPath'
        BY <1>22, Goes, Defers DEF RetireControl, At, TypeInv, OnPath, Running, Path, Steps,
                                   Phases, Brokers, PlanNames
    <2> QED BY <2>2, <2>3
<1>23. CASE Reject
    <2>1. broker' \in Brokers
        BY <1>23, Goes, Defers DEF Reject, At, Phases, Steps
    <2>2. broker.name \in Names /\ broker.serial \in Serials
        BY <1>23 DEF Reject, At, OnPath, Running, Steps
    <2> QED BY <1>23, <2>1, <2>2, Tombstoned, Defers DEF Reject, TypeInv, OnPath, Running,
                                                         Steps
<1>24. CASE Plan
    BY <1>24, Rests DEF Plan, Records, TypeInv, OnPath, Running, Path, Steps
<1>25. CASE Hold
    BY <1>25, Rests DEF Hold, Generations, Budgets, TypeInv, OnPath, Running, Path, Steps
<1>26. CASE Kill
    BY <1>26, Rests DEF Kill, Budgets, TypeInv, OnPath, Running, Path, Steps
<1>27. CASE Write
    <2>1. /\ broker' \in Brokers /\ broker'.at = broker.at /\ broker'.todo = broker.todo
          /\ broker'.name = broker.name /\ broker'.serial = broker.serial
          /\ broker'.plan = broker.plan
          /\ ~Running => broker'.intact
          /\ ~broker'.intact => "record" \in meddled'
          /\ meddled' \subseteq meddled \cup {"record"}
          /\ execution' = "foreign" \/ execution' = execution
          /\ budget' \in Budgets
          /\ UNCHANGED <<generation, evidence, control, expired, vault>>
        BY <1>27, Written
    <2>2. TypeInv'
        BY <2>1 DEF TypeInv, Records
    <2>3. OnPath'
        BY <2>1 DEF OnPath, Running
    <2> QED BY <2>2, <2>3
<1>28. CASE Exit
    BY <1>28, Rests DEF Exit, Generations, TypeInv, OnPath, Running, Path, Steps
<1>29. CASE Drift
    BY <1>29, MigrationAssumption DEF Drift, Names, TypeInv, OnPath, Running, Path, Steps
<1>30. CASE UNCHANGED vars
    BY <1>30, Rests DEF vars, TypeInv, OnPath, Running, Path, Steps
<1> QED BY <1>1, <1>2, <1>3, <1>4, <1>5, <1>6, <1>7, <1>8, <1>9, <1>10, <1>11, <1>12, <1>13,
<1>14,
           <1>15, <1>16, <1>17, <1>18, <1>19, <1>20, <1>21, <1>22, <1>23, <1>24, <1>25,
           <1>26, <1>27, <1>28, <1>29, <1>30, <1>31, <1>32, <1>33, <1>34, <1>35
        DEF Next, Transact

-----------------------------------------------------------------------------
(* What the protected storage holds at each step.                           *)

Opening == {"check", "prepare", "seal", "look", "commit", "backup", "compare", "evacuate",
            "confirm", "recommit", "install", "verify", "receipt"}
Displacing == {"look", "commit", "backup", "compare", "evacuate", "confirm", "recommit",
               "install", "verify"}
Repairing == {"repair", "read", "displace", "reinstall", "converge"}

Phased ==
    Running =>
      LET n == broker.serial  at == broker.at  plan == broker.plan IN
      /\ at \in Opening \/ plan \in {"abort", "reject"} => Mine.consumed = 0
      /\ at = "check" => ~Mine.backup /\ Mine.prepared \in {0, n}
      /\ at = "prepare" => ~Mine.backup /\ Mine.prepared = 0
      /\ at \in Opening \ {"check", "prepare"} => Mine.prepared = n
      /\ at \in Displacing => Mine.sealed
      /\ at = "receipt" /\ plan # "installed" => Mine.sealed
      /\ at \in {"compare", "evacuate", "confirm", "recommit", "install"} => Mine.backup
      /\ plan = "recovery" /\ at \in Opening => Mine.backup /\ Mine.sealed
      /\ plan = "fresh" /\ at \in {"seal", "look"} => ~Mine.backup
      /\ at \notin Opening /\ plan \notin {"abort", "reject"} => Mine.consumed = n
      /\ at \in Repairing => Mine.sealed
      /\ at = "unseal" => ~Mine.backup
      /\ at = "unprepare" /\ ~FoundConsumed => ~Mine.sealed /\ ~Mine.backup
      /\ at \in {"archive", "retire", "reject"} => ~Mine.sealed /\ ~Mine.backup
      /\ plan = "installed" => ~Mine.backup
      /\ plan = "reject" => Mine.prepared = 0

Receipts ==
    \A id \in Names :
        /\ vault[id].backup => vault[id].sealed
        /\ vault[id].sealed => vault[id].prepared # 0 \/ vault[id].consumed # 0
        /\ vault[id].prepared # 0 /\ vault[id].consumed # 0 =>
              vault[id].prepared = vault[id].consumed

Bounded ==
    \A id \in Names :
        /\ {control[id].pending, control[id].archived, vault[id].prepared,
             vault[id].consumed} \subseteq 0 .. control[id].staged
        /\ control[id].rejected \subseteq 1 .. control[id].staged

StorageInv == PlaceInv /\ Phased /\ Receipts /\ Bounded

\* The request that the broker carries out is pending.
LEMMA AtWork ==
    ASSUME PlaceInv, broker.at \in Steps
    PROVE  /\ broker.name \in Names /\ broker.serial \in Serials /\ broker.serial # 0
           /\ control[broker.name].pending = broker.serial
           /\ broker.at \in Path(broker.plan) /\ broker.plan \in PlanNames
           /\ vault[broker.name] \in Vaults /\ control[broker.name] \in Queues
BY DEF PlaceInv, OnPath, Running, TypeInv, Path, Serials, PlanNames, Brokers

\* Each durable effect of a transaction leaves what the next step relies on, and a kill
\* leaves receipts that bind whatever artifacts are there.
LEMMA StorageStep == StorageInv /\ [Next]_vars => StorageInv'
<1> SUFFICES ASSUME StorageInv, [Next]_vars PROVE Phased' /\ Receipts' /\ Bounded'
    BY PlaceStep DEF StorageInv
<1> USE DEF StorageInv, world, outside, Repairing
<1>0. TypeInv
    BY DEF PlaceInv
<1>1. CASE \E id \in Names : Stage(id)
    <2> PICK id \in Names : Stage(id)
        BY <1>1
    <2>1. Phased' /\ Receipts'
        BY DEF Stage, LegacyBinding, Phased, Receipts, Running, Mine, FoundConsumed
    <2>2. control'[id].staged = control[id].staged + 1 /\ control'[id].pending = control[id].staged + 1
          /\ control'[id].archived = control[id].archived /\ control'[id].rejected = control[id].rejected
          /\ \A u \in Names \ {id} : control'[u] = control[u]
        BY <1>0 DEF Stage, LegacyBinding, TypeInv, Queues
    <2>3. \A u \in Names : control[u] \in Queues /\ vault[u] \in Vaults
        BY <1>0 DEF TypeInv
    <2>4. Bounded'
        <3>1. ASSUME NEW u \in Names \ {id}
              PROVE  /\ {control'[u].pending, control'[u].archived, vault'[u].prepared,
                         vault'[u].consumed} \subseteq 0 .. control'[u].staged
                     /\ control'[u].rejected \subseteq 1 .. control'[u].staged
            <4>1. control'[u] = control[u] /\ vault'[u] = vault[u]
                BY <2>2 DEF Stage, LegacyBinding
            <4> QED BY <4>1 DEF Bounded
        <3>2. control[id].staged \in Nat /\ control[id].pending = 0 /\ UNCHANGED vault
            BY <2>3 DEF Stage, LegacyBinding, Room, Queues, Serials
        <3>3. /\ {control'[id].pending, control'[id].archived, vault'[id].prepared,
                  vault'[id].consumed} \subseteq 0 .. control'[id].staged
              /\ control'[id].rejected \subseteq 1 .. control'[id].staged
            BY <2>2, <2>3, <3>2 DEF Bounded, Queues, Vaults, Serials
        <3> QED BY <3>1, <3>3 DEF Bounded
    <2> QED BY <2>1, <2>4
<1>2. CASE \E id \in Names : Expire(id)
    BY <1>2 DEF Expire, Phased, Receipts, Bounded, Running, Mine, FoundConsumed
<1>3. CASE BeginPass
    BY <1>3 DEF BeginPass, Phased, Receipts, Bounded, Running, Idle, Steps
<1>4. CASE Take
    <2> PICK id \in broker.todo :
            LET n == control[id].pending  plan == Plans(id, n)
                rest == [broker EXCEPT !.todo = @ \ {id}] IN
            broker' = IF n = 0 \/ plan = "none" THEN rest
                      ELSE [rest EXCEPT !.at = First[plan], !.name = id, !.serial = n,
                                        !.plan = plan]
        BY <1>4 DEF Take
    <2> DEFINE n == control[id].pending
    <2>1. id \in Names /\ n \in Serials \cup {0} /\ broker.at = "next" /\ broker \in Brokers
        BY <1>0, <1>4 DEF Take, TypeInv, Brokers, Queues
    <2>2. Receipts' /\ Bounded'
        BY <1>4 DEF Take, Receipts, Bounded
    <2>3. CASE n = 0 \/ Plans(id, n) = "none"
        <3>1. broker' = [broker EXCEPT !.todo = @ \ {id}]
            BY <2>3
        <3> QED BY <2>1, <2>2, <3>1 DEF Brokers, Phased, Running, Steps
    <2>4. CASE n # 0 /\ Plans(id, n) # "none"
        <3> DEFINE plan == Plans(id, n)
        <3>1. /\ broker'.at = First[plan] /\ broker'.name = id /\ broker'.serial = n
              /\ broker'.plan = plan
            BY <2>1, <2>4 DEF Brokers
        <3>2. plan \in PlanNames /\ vault'[id] = vault[id] /\ vault[id] \in Vaults
            BY <1>0, <1>4, <2>1, <2>4, PlanChosen DEF Take, TypeInv
        <3>3. Phased'
            BY <1>0, <2>1, <2>4, <3>1, <3>2, PlanChosen
               DEF Phased, Running, Mine, First, PlanNames, Opening, Displacing, FoundConsumed,
                   Receipts, Vaults
        <3> QED BY <2>2, <3>3
    <2> QED BY <2>2, <2>3, <2>4
<1>5. CASE Check
    <2>1. broker.at \in Steps
        BY <1>5 DEF Check, At, Steps
    <2>2. Phased'
        BY <1>0, <1>5, <2>1, AtWork, Goes, Defers
           DEF Check, At, Phased, Running, Path, Steps, Phases, Mine, Opening, Displacing,
               TypeInv, Vaults, PlanNames
    <2>3. Receipts'
        BY <1>5 DEF Check, Receipts
    <2>4. Bounded'
        <3>1. UNCHANGED vault
            BY <1>5 DEF Check
        <3>2. CASE UNCHANGED control
            BY <3>1, <3>2 DEF Bounded
        <3>3. CASE Tombstone(broker.name, broker.serial)
            <4>1. broker.name \in Names /\ broker.serial \in Serials
                  /\ broker.serial \in 0 .. control[broker.name].staged
                BY <2>1, AtWork DEF Bounded
            <4>2. /\ control'[broker.name].pending = 0
                  /\ control'[broker.name].rejected = control[broker.name].rejected \cup {broker.serial}
                  /\ control'[broker.name].archived = control[broker.name].archived
                  /\ control'[broker.name].staged = control[broker.name].staged
                  /\ \A u \in Names \ {broker.name} : control'[u] = control[u]
                BY <1>0, <3>3, <4>1, Tombstoned
            <4> QED BY <1>0, <3>1, <4>1, <4>2 DEF Bounded, TypeInv, Queues, Serials
        <3> QED BY <1>5, <3>2, <3>3 DEF Check
    <2> QED BY <2>2, <2>3, <2>4
<1>6. CASE Prepare
    <2>1. broker.at \in Steps
        BY <1>6 DEF Prepare, At, Steps
    <2>2. Phased'
        BY <1>0, <1>6, <2>1, AtWork, Goes, Defers
           DEF Prepare, At, Phased, Running, Path, Steps, Phases, Mine, Opening, Displacing,
               TypeInv, Vaults, PlanNames
    <2>3. Receipts'
        BY <1>0, <1>6, <2>1, AtWork DEF Prepare, At, Phased, Running, Receipts, Mine,
                                        Opening, Displacing, TypeInv, Vaults, Path
    <2>4. Bounded'
        BY <1>0, <1>6, <2>1, AtWork, SMTT(60) DEF Prepare, Bounded, TypeInv, Vaults
    <2> QED BY <2>2, <2>3, <2>4
<1>7. CASE Seal
    <2>1. broker.at \in Steps
        BY <1>7 DEF Seal, At, Steps
    <2>2. Phased'
        BY <1>0, <1>7, <2>1, AtWork, Goes, Defers
           DEF Seal, At, Phased, Running, Path, Steps, Phases, Mine, Opening, Displacing,
               TypeInv, Vaults, PlanNames
    <2>3. Receipts'
        BY <1>0, <1>7, <2>1, AtWork DEF Seal, At, Phased, Running, Receipts, Mine, Opening,
                                        Displacing, TypeInv, Vaults, Path
    <2>4. Bounded'
        BY <1>0, <1>7, <2>1, AtWork DEF Seal, At, Bounded, TypeInv, Vaults, Queues, Serials
    <2> QED BY <2>2, <2>3, <2>4
<1>8. CASE Look
    <2>1. broker.at \in Steps
        BY <1>8 DEF Look, At, Steps
    <2>2. Phased'
        BY <1>0, <1>8, <2>1, AtWork, Goes, Defers
           DEF Look, At, Phased, Running, Path, Steps, Phases, Installed, Mine, Opening,
               Displacing, TypeInv, Vaults, PlanNames
    <2>3. Receipts'
        BY <1>8 DEF Look, Receipts
    <2>4. Bounded'
        BY <1>8 DEF Look, Bounded
    <2> QED BY <2>2, <2>3, <2>4
<1>9. CASE Commit
    <2>1. broker.at \in Steps
        BY <1>9 DEF Commit, At, Steps
    <2>2. Phased'
        BY <1>0, <1>9, <2>1, AtWork, Goes, Defers
           DEF Commit, At, Phased, Running, Path, Steps, Phases, Mine, Opening, Displacing,
               TypeInv, Vaults, PlanNames
    <2>3. Receipts'
        BY <1>9 DEF Commit, Receipts
    <2>4. Bounded'
        BY <1>9 DEF Commit, Bounded
    <2> QED BY <2>2, <2>3, <2>4
<1>10. CASE Backup
    <2>1. broker.at \in Steps
        BY <1>10 DEF Backup, At, Steps
    <2>2. Phased'
        BY <1>0, <1>10, <2>1, AtWork, Goes, Defers
           DEF Backup, At, Phased, Running, Path, Steps, Phases, Mine, Opening, Displacing,
               TypeInv, Vaults, PlanNames
    <2>3. Receipts'
        BY <1>0, <1>10, <2>1, AtWork DEF Backup, At, Phased, Running, Receipts, Mine,
                                         Opening, Displacing, TypeInv, Vaults, Path
    <2>4. Bounded'
        BY <1>0, <1>10, <2>1, AtWork DEF Backup, At, Bounded, TypeInv, Vaults, Queues,
                                         Serials
    <2> QED BY <2>2, <2>3, <2>4
<1>11. CASE Evacuate
    <2>1. broker.at \in Steps
        BY <1>11 DEF Evacuate, At, Steps
    <2>2. Phased'
        BY <1>0, <1>11, <2>1, AtWork, Goes, Defers
           DEF Evacuate, At, Phased, Running, Path, Steps, Phases, Mine, Opening,
               Displacing, TypeInv, Vaults, PlanNames
    <2>3. Receipts'
        BY <1>11 DEF Evacuate, Receipts
    <2>4. Bounded'
        BY <1>11 DEF Evacuate, Bounded
    <2> QED BY <2>2, <2>3, <2>4
<1>12. CASE Install
    <2>1. broker.at \in Steps
        BY <1>12 DEF Install, At, Steps
    <2>2. Phased'
        BY <1>0, <1>12, <2>1, AtWork, Goes, Defers
           DEF Install, At, Phased, Running, Path, Steps, Phases, Installed, Mine, Opening,
               Displacing, TypeInv, Vaults, PlanNames
    <2>3. Receipts'
        BY <1>12 DEF Install, Receipts
    <2>4. Bounded'
        BY <1>12 DEF Install, Bounded
    <2> QED BY <2>2, <2>3, <2>4
<1>13. CASE Verify
    <2>1. broker.at \in Steps
        BY <1>13 DEF Verify, At, Steps
    <2>2. Phased'
        BY <1>0, <1>13, <2>1, AtWork, Goes, Defers
           DEF Verify, At, Phased, Running, Path, Steps, Phases, Mine, Opening, Displacing,
               TypeInv, Vaults, PlanNames
    <2>3. Receipts'
        BY <1>13 DEF Verify, Receipts
    <2>4. Bounded'
        BY <1>13 DEF Verify, Bounded
    <2> QED BY <2>2, <2>3, <2>4
<1>14. CASE StoreReceipt
    <2>1. broker.at \in Steps
        BY <1>14 DEF StoreReceipt, At, Steps
    <2>2. Phased'
        BY <1>0, <1>14, <2>1, AtWork, Goes, Defers
           DEF StoreReceipt, At, Phased, Running, Path, Steps, Phases, Mine, Opening,
               Displacing, TypeInv, Vaults, PlanNames
    <2>3. Receipts'
        BY <1>0, <1>14, <2>1, AtWork DEF StoreReceipt, At, Phased, Running, Receipts, Mine,
                                         Opening, Displacing, TypeInv, Vaults, Path
    <2>4. Bounded'
        BY <1>0, <1>14, <2>1, AtWork DEF StoreReceipt, At, Bounded, TypeInv, Vaults, Queues,
                                         Serials
    <2> QED BY <2>2, <2>3, <2>4
<1>15. CASE Sealed
    <2>1. broker.at \in Steps
        BY <1>15 DEF Sealed, At, Steps
    <2>2. Phased'
        BY <1>0, <1>15, <2>1, AtWork, Goes, Defers
           DEF Sealed, At, Phased, Running, Path, Steps, Phases, Mine, Opening, Displacing,
               TypeInv, Vaults, PlanNames
    <2>3. Receipts'
        BY <1>15 DEF Sealed, Receipts
    <2>4. Bounded'
        BY <1>15 DEF Sealed, Bounded
    <2> QED BY <2>2, <2>3, <2>4
<1>16. CASE Inspect
    <2>1. broker.at \in Steps
        BY <1>16 DEF Inspect, At, Steps
    <2>2. Phased'
        BY <1>0, <1>16, <2>1, AtWork, Goes, Defers
           DEF Inspect, At, Phased, Running, Path, Steps, Phases, Mine, Opening, Displacing,
               TypeInv, Vaults, PlanNames
    <2>3. Receipts'
        BY <1>16 DEF Inspect, Receipts
    <2>4. Bounded'
        BY <1>16 DEF Inspect, Bounded
    <2> QED BY <2>2, <2>3, <2>4
<1>31. CASE Compare
    <2>1. broker.at \in Steps
        BY <1>31 DEF Compare, At, Steps
    <2>2. Phased'
        BY <1>0, <1>31, <2>1, AtWork, Goes, Defers
           DEF Compare, At, Phased, Running, Path, Steps, Phases, Mine, Opening, Displacing,
               TypeInv, Vaults, PlanNames
    <2>3. Receipts'
        BY <1>31 DEF Compare, Receipts
    <2>4. Bounded'
        BY <1>31 DEF Compare, Bounded
    <2> QED BY <2>2, <2>3, <2>4
<1>32. CASE Confirm
    <2>1. broker.at \in Steps
        BY <1>32 DEF Confirm, At, Steps
    <2>2. Phased'
        BY <1>0, <1>32, <2>1, AtWork, Goes, Defers
           DEF Confirm, At, Phased, Running, Path, Steps, Phases, Mine, Opening, Displacing,
               TypeInv, Vaults, PlanNames
    <2>3. Receipts'
        BY <1>32 DEF Confirm, Receipts
    <2>4. Bounded'
        BY <1>32 DEF Confirm, Bounded
    <2> QED BY <2>2, <2>3, <2>4
<1>33. CASE Read
    <2>1. broker.at \in Steps
        BY <1>33 DEF Read, At, Steps
    <2>2. Phased'
        BY <1>0, <1>33, <2>1, AtWork, Goes, Defers
           DEF Read, FoundConsumed, At, Phased, Running, Path, Steps, Phases, Repaired, Mine,
               Opening, Displacing, TypeInv, Vaults, PlanNames
    <2>3. Receipts'
        BY <1>33 DEF Read, Receipts
    <2>4. Bounded'
        BY <1>33 DEF Read, Bounded
    <2> QED BY <2>2, <2>3, <2>4
<1>34. CASE Displace
    <2>1. broker.at \in Steps
        BY <1>34 DEF Displace, At, Steps
    <2>2. Phased'
        BY <1>0, <1>34, <2>1, AtWork, Goes, Defers
           DEF Displace, At, Phased, Running, Path, Steps, Phases, Mine, Opening, Displacing,
               TypeInv, Vaults, PlanNames
    <2>3. Receipts'
        BY <1>34 DEF Displace, Receipts
    <2>4. Bounded'
        BY <1>34 DEF Displace, Bounded
    <2> QED BY <2>2, <2>3, <2>4
<1>35. CASE Converge
    <2>1. broker.at \in Steps
        BY <1>35 DEF Converge, At, Steps
    <2>2. Phased'
        BY <1>0, <1>35, <2>1, AtWork, Goes, Defers
           DEF Converge, FoundConsumed, At, Phased, Running, Path, Steps, Phases, Repaired,
               Mine, Opening, Displacing, TypeInv, Vaults, PlanNames
    <2>3. Receipts'
        BY <1>35 DEF Converge, Receipts
    <2>4. Bounded'
        BY <1>35 DEF Converge, Bounded
    <2> QED BY <2>2, <2>3, <2>4
<1>17. CASE Reinstall
    <2>1. broker.at \in Steps
        BY <1>17 DEF Reinstall, At, Steps
    <2>2. Phased'
        BY <1>0, <1>17, <2>1, AtWork, Goes, Defers
           DEF Reinstall, FoundConsumed, At, Phased, Running, Path, Steps, Phases,
        Repaired, Mine, Opening,
               Displacing, TypeInv, Vaults, PlanNames
    <2>3. Receipts'
        BY <1>17 DEF Reinstall, Receipts
    <2>4. Bounded'
        BY <1>17 DEF Reinstall, Bounded
    <2> QED BY <2>2, <2>3, <2>4
<1>18. CASE RetireBackup
    <2>1. broker.at \in Steps
        BY <1>18 DEF RetireBackup, At, Steps
    <2>2. Phased'
        BY <1>0, <1>18, <2>1, AtWork, Goes, Defers
           DEF RetireBackup, At, Phased, Running, Path, Steps, Phases, Mine, Opening,
               Displacing, TypeInv, Vaults, PlanNames
    <2>3. Receipts'
        BY <1>0, <1>18, <2>1, AtWork DEF RetireBackup, At, Phased, Running, Receipts, Mine,
                                         Opening, Displacing, TypeInv, Vaults, Path
    <2>4. Bounded'
        BY <1>0, <1>18, <2>1, AtWork DEF RetireBackup, At, Bounded, TypeInv, Vaults, Queues,
                                         Serials
    <2> QED BY <2>2, <2>3, <2>4
<1>19. CASE RetireSealed
    <2>1. broker.at \in Steps
        BY <1>19 DEF RetireSealed, At, Steps
    <2>2. Phased'
        BY <1>0, <1>19, <2>1, AtWork, Goes, Defers
           DEF RetireSealed, At, Phased, Running, Path, Steps, Phases, FoundConsumed, Mine,
               Opening, Displacing, TypeInv, Vaults, PlanNames
    <2>3. Receipts'
        BY <1>0, <1>19, <2>1, AtWork DEF RetireSealed, At, Phased, Running, Receipts, Mine,
                                         Opening, Displacing, TypeInv, Vaults,
                                         FoundConsumed, Path
    <2>4. Bounded'
        BY <1>0, <1>19, <2>1, AtWork DEF RetireSealed, At, Bounded, TypeInv, Vaults, Queues,
                                         Serials
    <2> QED BY <2>2, <2>3, <2>4
<1>20. CASE RetirePrepared
    <2>1. broker.at \in Steps
        BY <1>20 DEF RetirePrepared, At, Steps
    <2>2. Phased'
        BY <1>0, <1>20, <2>1, AtWork, Goes, Defers
           DEF RetirePrepared, At, Phased, Running, Path, Steps, Phases, FoundConsumed,
               Mine, Opening, Displacing, TypeInv, Vaults, PlanNames
    <2>3. Receipts'
        BY <1>0, <1>20, <2>1, AtWork DEF RetirePrepared, At, Phased, Running, Receipts,
                                         Mine, Opening, Displacing, TypeInv, Vaults,
                                         FoundConsumed, Path
    <2>4. Bounded'
        BY <1>0, <1>20, <2>1, AtWork DEF RetirePrepared, At, Bounded, TypeInv, Vaults,
                                         Queues, Serials
    <2> QED BY <2>2, <2>3, <2>4
<1>21. CASE Archive
    <2>1. broker.at \in Steps
        BY <1>21 DEF Archive, At, Steps
    <2>2. Phased'
        BY <1>0, <1>21, <2>1, AtWork, Goes, Defers
           DEF Archive, At, Phased, Running, Path, Steps, Phases, Mine, Opening, Displacing,
               TypeInv, Vaults, PlanNames
    <2>3. Receipts'
        BY <1>21 DEF Archive, Receipts
    <2>4. Bounded'
        <3>1. broker.serial \in 0 .. control[broker.name].staged
            BY <2>1, AtWork DEF Bounded
        <3>2. /\ control'[broker.name].archived \in {control[broker.name].archived, broker.serial}
              /\ control'[broker.name].staged = control[broker.name].staged
              /\ control'[broker.name].pending = control[broker.name].pending
              /\ control'[broker.name].rejected = control[broker.name].rejected
              /\ \A u \in Names \ {broker.name} : control'[u] = control[u]
            BY <1>0, <1>21, <2>1, AtWork DEF Archive, TypeInv, Queues
        <3> QED BY <1>21, <3>1, <3>2 DEF Archive, Bounded
    <2> QED BY <2>2, <2>3, <2>4
<1>22. CASE RetireControl
    <2>1. broker.at \in Steps
        BY <1>22 DEF RetireControl, At, Steps
    <2>2. Phased'
        BY <1>0, <1>22, <2>1, AtWork, Goes, Defers
           DEF RetireControl, At, Phased, Running, Path, Steps, Phases, Mine, Opening,
               Displacing, TypeInv, Vaults, PlanNames
    <2>3. Receipts'
        BY <1>22 DEF RetireControl, Receipts
    <2>4. Bounded'
        BY <1>0, <1>22, <2>1, AtWork DEF RetireControl, At, Bounded, TypeInv, Vaults,
                                         Queues, Serials
    <2> QED BY <2>2, <2>3, <2>4
<1>23. CASE Reject
    <2>1. broker.at \in Steps
        BY <1>23 DEF Reject, At, Steps
    <2>2. Phased'
        BY <1>0, <1>23, <2>1, AtWork, Goes, Defers
           DEF Reject, At, Phased, Running, Path, Steps, Phases, FoundConsumed, Mine,
               Opening, Displacing, TypeInv, Vaults, PlanNames
    <2>3. Receipts'
        BY <1>23 DEF Reject, Receipts
    <2>4. Bounded'
        BY <1>0, <1>23, <2>1, AtWork DEF Reject, At, Bounded, TypeInv, Vaults, Queues,
                                         Serials, Tombstone
    <2> QED BY <2>2, <2>3, <2>4
<1>24. CASE Plan
    BY <1>0, <1>24, Rests DEF Plan, Phased, Receipts, Bounded, Running, Mine,
        FoundConsumed, Steps
<1>25. CASE Hold
    BY <1>0, <1>25, Rests DEF Hold, Phased, Receipts, Bounded, Running, Mine,
        FoundConsumed, Steps
<1>26. CASE Kill
    BY <1>0, <1>26, Rests DEF Kill, Phased, Receipts, Bounded, Running, Mine,
        FoundConsumed, Steps
<1>27. CASE Write
    <2>1. /\ broker'.at = broker.at /\ broker'.name = broker.name
          /\ broker'.serial = broker.serial /\ broker'.plan = broker.plan
          /\ UNCHANGED <<control, vault>>
        BY <1>0, <1>27, Written DEF PlaceInv
    <2> QED BY <2>1 DEF Phased, Receipts, Bounded, Running, Mine, FoundConsumed
<1>28. CASE Exit
    BY <1>0, <1>28, Rests DEF Exit, Phased, Receipts, Bounded, Running, Mine,
        FoundConsumed, Steps
<1>29. CASE Drift
    BY <1>0, <1>29, Rests DEF Drift, Phased, Receipts, Bounded, Running, Mine,
        FoundConsumed, Steps
<1>30. CASE UNCHANGED vars
    BY <1>0, <1>30, Rests DEF vars, Phased, Receipts, Bounded, Running, Mine,
        FoundConsumed, Steps
<1> QED BY <1>1, <1>2, <1>3, <1>4, <1>5, <1>6, <1>7, <1>8, <1>9, <1>10, <1>11, <1>12, <1>13,
<1>14,
           <1>15, <1>16, <1>17, <1>18, <1>19, <1>20, <1>21, <1>22, <1>23, <1>24, <1>25,
           <1>26, <1>27, <1>28, <1>29, <1>30, <1>31, <1>32, <1>33, <1>34, <1>35
        DEF Next, Transact

-----------------------------------------------------------------------------
(* A record is only taken away from its name once its worker has ended, and *)
(* an ended worker does not live again.                                     *)

Ended ==
    \/ execution \in {"none", "target", "later", "anew"}
    \/ \E id \in Names : vault[id].backup \/ vault[id].consumed # 0
    \/ broker.at \in {"backup", "receipt"}
  => generation # "live"

\* Only a claim makes a worker live, and none is made here.
LEMMA EndedStep == StorageInv /\ Ended /\ [Next]_vars => Ended'
<1> SUFFICES ASSUME StorageInv, Ended, [Next]_vars PROVE Ended'
    OBVIOUS
<1> USE DEF StorageInv, PlaceInv, world, outside
<1>1. CASE \E id \in Names : Stage(id)
    BY <1>1 DEF Stage, LegacyBinding, Ended
<1>2. CASE \E id \in Names : Expire(id)
    BY <1>2 DEF Expire, Ended
<1>3. CASE BeginPass
    BY <1>3 DEF BeginPass, Ended, Idle
<1>4. CASE Take
    <2> PICK id \in broker.todo :
            LET n == control[id].pending  plan == Plans(id, n)
                rest == [broker EXCEPT !.todo = @ \ {id}] IN
            broker' = IF n = 0 \/ plan = "none" THEN rest
                      ELSE [rest EXCEPT !.at = First[plan], !.name = id, !.serial = n,
                                        !.plan = plan]
        BY <1>4 DEF Take
    <2> DEFINE n == control[id].pending
    <2>1. id \in Names /\ n \in Serials \cup {0} /\ broker.at = "next" /\ broker \in Brokers
        BY <1>4 DEF Take, TypeInv, Brokers, Queues
    <2>2. CASE n = 0 \/ Plans(id, n) = "none"
        BY <1>4, <2>1, <2>2 DEF Take, Brokers, Ended
    <2>3. CASE n # 0 /\ Plans(id, n) # "none"
        <3>1. /\ broker'.at = First[Plans(id, n)] /\ Plans(id, n) \in PlanNames
              /\ Plans(id, n) = "installed" => execution = "target"
            BY <2>1, <2>3, PlanChosen DEF Brokers
        <3>2. broker'.at \in {"backup", "receipt"} => execution = "target"
            BY <3>1 DEF First, PlanNames
        <3> QED BY <1>4, <3>2 DEF Take, Ended
    <2> QED BY <2>2, <2>3
<1>5. CASE Check
    <2>1. broker.at \in Steps
        BY <1>5 DEF Check, At, Steps
    <2> QED BY <1>5, <2>1, AtWork, Goes, Defers
            DEF Check, At, Phased, Running, Path, Steps, Phases, Opening, Mine, TypeInv,
                Vaults, Ended
<1>6. CASE Prepare
    <2>1. broker.at \in Steps
        BY <1>6 DEF Prepare, At, Steps
    <2> QED BY <1>6, <2>1, AtWork, Goes, Defers
            DEF Prepare, At, Phased, Running, Path, Steps, Phases, Opening, Mine, TypeInv,
                Vaults, Ended
<1>7. CASE Seal
    <2>1. broker.at \in Steps
        BY <1>7 DEF Seal, At, Steps
    <2> QED BY <1>7, <2>1, AtWork, Goes, Defers
            DEF Seal, At, Phased, Running, Path, Steps, Phases, Opening, Mine, TypeInv,
                Vaults, Ended
<1>8. CASE Look
    <2>1. broker.at \in Steps
        BY <1>8 DEF Look, At, Steps
    <2> QED BY <1>8, <2>1, AtWork, Goes, Defers
            DEF Look, At, Phased, Running, Path, Steps, Phases, Opening, Mine, Installed,
                TypeInv, Vaults, Ended
<1>9. CASE Commit
    <2>1. broker.at \in Steps
        BY <1>9 DEF Commit, At, Steps
    <2> QED BY <1>9, <2>1, AtWork, Goes, Defers
            DEF Commit, At, Phased, Running, Path, Steps, Phases, Opening, Mine, TypeInv,
                Vaults, Ended
<1>10. CASE Backup
    <2>1. broker.at \in Steps
        BY <1>10 DEF Backup, At, Steps
    <2> QED BY <1>10, <2>1, AtWork, Goes, Defers
            DEF Backup, At, Phased, Running, Path, Steps, Phases, Opening, Mine, TypeInv,
                Vaults, Ended
<1>11. CASE Evacuate
    <2>1. broker.at \in Steps
        BY <1>11 DEF Evacuate, At, Steps
    <2> QED BY <1>11, <2>1, AtWork, Goes, Defers
            DEF Evacuate, At, Phased, Running, Path, Steps, Phases, Opening, Mine, TypeInv,
                Vaults, Ended
<1>12. CASE Install
    <2>1. broker.at \in Steps
        BY <1>12 DEF Install, At, Steps
    <2> QED BY <1>12, <2>1, AtWork, Goes, Defers
            DEF Install, At, Phased, Running, Path, Steps, Phases, Opening, Mine, Installed,
                TypeInv, Vaults, Ended
<1>13. CASE Verify
    <2>1. broker.at \in Steps
        BY <1>13 DEF Verify, At, Steps
    <2> QED BY <1>13, <2>1, AtWork, Goes, Defers
            DEF Verify, At, Phased, Running, Path, Steps, Phases, Opening, Mine, TypeInv,
                Vaults, Ended
<1>14. CASE StoreReceipt
    <2>1. broker.at \in Steps
        BY <1>14 DEF StoreReceipt, At, Steps
    <2> QED BY <1>14, <2>1, AtWork, Goes, Defers
            DEF StoreReceipt, At, Phased, Running, Path, Steps, Phases, Opening, Mine,
                TypeInv, Vaults, Ended
<1>15. CASE Sealed
    <2>1. broker.at \in Steps
        BY <1>15 DEF Sealed, At, Steps
    <2> QED BY <1>15, <2>1, AtWork, Goes, Defers
            DEF Sealed, At, Phased, Running, Path, Steps, Phases, Opening, Mine, TypeInv,
                Vaults, Ended
<1>16. CASE Inspect
    <2>1. broker.at \in Steps
        BY <1>16 DEF Inspect, At, Steps
    <2> QED BY <1>16, <2>1, AtWork, Goes, Defers
            DEF Inspect, At, Phased, Running, Path, Steps, Phases, Opening, Mine, TypeInv,
                Vaults, Ended
<1>31. CASE Compare
    <2>1. broker.at \in Steps
        BY <1>31 DEF Compare, At, Steps
    <2> QED BY <1>31, <2>1, AtWork, Goes, Defers
            DEF Compare, At, Phased, Running, Path, Steps, Phases, Opening, Mine, TypeInv,
                Vaults, Ended
<1>32. CASE Confirm
    <2>1. broker.at \in Steps
        BY <1>32 DEF Confirm, At, Steps
    <2> QED BY <1>32, <2>1, AtWork, Goes, Defers
            DEF Confirm, At, Phased, Running, Path, Steps, Phases, Opening, Mine, TypeInv,
                Vaults, Ended
<1>33. CASE Read
    <2>1. broker.at \in Steps
        BY <1>33 DEF Read, At, Steps
    <2> QED BY <1>33, <2>1, AtWork, Goes, Defers
            DEF Read, At, Phased, Running, Path, Steps, Phases, Opening, Mine, Repaired,
                TypeInv, Vaults, Ended
<1>34. CASE Displace
    <2>1. broker.at \in Steps
        BY <1>34 DEF Displace, At, Steps
    <2> QED BY <1>34, <2>1, AtWork, Goes, Defers
            DEF Displace, At, Phased, Running, Path, Steps, Phases, Opening, Mine, TypeInv,
                Vaults, Ended
<1>35. CASE Converge
    <2>1. broker.at \in Steps
        BY <1>35 DEF Converge, At, Steps
    <2> QED BY <1>35, <2>1, AtWork, Goes, Defers
            DEF Converge, At, Phased, Running, Path, Steps, Phases, Opening, Mine, Repaired,
                TypeInv, Vaults, Ended
<1>17. CASE Reinstall
    <2>1. broker.at \in Steps
        BY <1>17 DEF Reinstall, At, Steps
    <2> QED BY <1>17, <2>1, AtWork, Goes, Defers
            DEF Reinstall, At, Phased, Running, Path, Steps, Phases, Opening, Mine,
                Repaired, TypeInv, Vaults, Ended
<1>18. CASE RetireBackup
    <2>1. broker.at \in Steps
        BY <1>18 DEF RetireBackup, At, Steps
    <2> QED BY <1>18, <2>1, AtWork, Goes, Defers
            DEF RetireBackup, At, Phased, Running, Path, Steps, Phases, Opening, Mine,
                TypeInv, Vaults, Ended
<1>19. CASE RetireSealed
    <2>1. broker.at \in Steps
        BY <1>19 DEF RetireSealed, At, Steps
    <2> QED BY <1>19, <2>1, AtWork, Goes, Defers
            DEF RetireSealed, At, Phased, Running, Path, Steps, Phases, Opening, Mine,
                FoundConsumed, TypeInv, Vaults, Ended
<1>20. CASE RetirePrepared
    <2>1. broker.at \in Steps
        BY <1>20 DEF RetirePrepared, At, Steps
    <2> QED BY <1>20, <2>1, AtWork, Goes, Defers
            DEF RetirePrepared, At, Phased, Running, Path, Steps, Phases, Opening, Mine,
                FoundConsumed, TypeInv, Vaults, Ended
<1>21. CASE Archive
    <2>1. broker.at \in Steps
        BY <1>21 DEF Archive, At, Steps
    <2> QED BY <1>21, <2>1, AtWork, Goes, Defers
            DEF Archive, At, Phased, Running, Path, Steps, Phases, Opening, Mine, TypeInv,
                Vaults, Ended
<1>22. CASE RetireControl
    <2>1. broker.at \in Steps
        BY <1>22 DEF RetireControl, At, Steps
    <2> QED BY <1>22, <2>1, AtWork, Goes, Defers
            DEF RetireControl, At, Phased, Running, Path, Steps, Phases, Opening, Mine,
                TypeInv, Vaults, Ended
<1>23. CASE Reject
    <2>1. broker.at \in Steps
        BY <1>23 DEF Reject, At, Steps
    <2> QED BY <1>23, <2>1, AtWork, Goes, Defers
            DEF Reject, At, Phased, Running, Path, Steps, Phases, Opening, Mine,
                FoundConsumed, TypeInv, Vaults, Ended
<1>24. CASE Plan
    BY <1>24, Rests DEF Plan, Ended
<1>25. CASE Hold
    BY <1>25, Rests DEF Hold, Ended
<1>26. CASE Kill
    BY <1>26, Rests DEF Kill, Ended
<1>27. CASE Write
    <2>1. broker'.at = broker.at /\ UNCHANGED <<vault, generation>>
          /\ (execution' = "foreign" \/ execution' = execution)
        BY <1>27, Written
    <2> QED BY <2>1 DEF Ended
<1>28. CASE Exit
    BY <1>28, Rests DEF Exit, Ended
<1>29. CASE Drift
    BY <1>29, Rests DEF Drift, Ended
<1>30. CASE UNCHANGED vars
    BY <1>30, Rests DEF vars, Ended
<1> QED BY <1>1, <1>2, <1>3, <1>4, <1>5, <1>6, <1>7, <1>8, <1>9, <1>10, <1>11, <1>12, <1>13,
<1>14,
           <1>15, <1>16, <1>17, <1>18, <1>19, <1>20, <1>21, <1>22, <1>23, <1>24, <1>25,
           <1>26, <1>27, <1>28, <1>29, <1>30, <1>31, <1>32, <1>33, <1>34, <1>35
        DEF Next, Transact

-----------------------------------------------------------------------------
(* A record that is away from its name is brought back.                     *)

StillBound == Committed => Bound \/ "evidence" \in meddled

\* What the transaction was prepared under still holds when it commits, or it is on record
\* that it changed.
LEMMA BoundStep ==
    ASSUME StorageInv, StillBound, [Next]_vars
    PROVE  StillBound'
<1> USE DEF StorageInv, PlaceInv, world, outside, Bound, Committed
<1>1. CASE \E id \in Names : Stage(id)
    BY <1>1 DEF Stage, LegacyBinding, StillBound
<1>2. CASE \E id \in Names : Expire(id)
    BY <1>2 DEF Expire, StillBound
<1>3. CASE BeginPass
    BY <1>3 DEF BeginPass, StillBound, Idle
<1>4. CASE Take
    <2> PICK id \in broker.todo :
            LET n == control[id].pending  plan == Plans(id, n)
                rest == [broker EXCEPT !.todo = @ \ {id}] IN
            broker' = IF n = 0 \/ plan = "none" THEN rest
                      ELSE [rest EXCEPT !.at = First[plan], !.name = id, !.serial = n,
                                        !.plan = plan]
        BY <1>4 DEF Take
    <2> DEFINE n == control[id].pending
    <2>1. id \in Names /\ n \in Serials \cup {0} /\ broker.at = "next" /\ broker \in Brokers
        BY <1>4 DEF Take, TypeInv, Brokers, Queues
    <2>2. CASE n = 0 \/ Plans(id, n) = "none"
        BY <2>1, <2>2 DEF Brokers, StillBound
    <2>3. CASE n # 0 /\ Plans(id, n) # "none"
        BY <2>1, <2>3, PlanChosen DEF Brokers, StillBound, First
    <2> QED BY <2>2, <2>3
<1>5. CASE Check
    BY <1>5, Goes, Defers
       DEF Check, At, Phases, Steps, OnPath, Running, Path, StillBound
<1>6. CASE Prepare
    BY <1>6, Goes, Defers
       DEF Prepare, At, Phases, Steps, OnPath, Running, Path, StillBound
<1>7. CASE Seal
    BY <1>7, Goes, Defers
       DEF Seal, At, Phases, Steps, OnPath, Running, Path, StillBound
<1>8. CASE Look
    <2>1. broker.plan = "fresh" => ~Mine.backup
        BY <1>8 DEF Look, At, Phased, Running, Steps
    <2> QED BY <1>8, <2>1, Goes, Defers
            DEF Look, At, Phases, Steps, OnPath, Running, Path, Installed, StillBound
<1>9. CASE Commit
    BY <1>9, Goes, Defers
       DEF Commit, At, Phases, Steps, OnPath, Running, Path, StillBound
<1>10. CASE Backup
    BY <1>10, Goes, Defers
       DEF Backup, At, Phases, Steps, OnPath, Running, Path, StillBound
<1>11. CASE Evacuate
    BY <1>11, Goes, Defers
       DEF Evacuate, At, Phases, Steps, OnPath, Running, Path, StillBound
<1>12. CASE Install
    BY <1>12, Goes, Defers
       DEF Install, At, Phases, Steps, OnPath, Running, Path, Installed, StillBound
<1>13. CASE Verify
    BY <1>13, Goes, Defers
       DEF Verify, At, Phases, Steps, OnPath, Running, Path, StillBound
<1>14. CASE StoreReceipt
    BY <1>14, Goes, Defers
       DEF StoreReceipt, At, Phases, Steps, OnPath, Running, Path, StillBound
<1>15. CASE Sealed
    BY <1>15, Goes, Defers
       DEF Sealed, At, Phases, Steps, OnPath, Running, Path, StillBound
<1>16. CASE Inspect
    BY <1>16, Goes, Defers
       DEF Inspect, At, Phases, Steps, OnPath, Running, Path, StillBound
<1>31. CASE Compare
    BY <1>31, Goes, Defers
       DEF Compare, At, Phases, Steps, OnPath, Running, Path, StillBound
<1>32. CASE Confirm
    BY <1>32, Goes, Defers
       DEF Confirm, At, Phases, Steps, OnPath, Running, Path, StillBound
<1>33. CASE Read
    BY <1>33, Goes, Defers
       DEF Read, At, Phases, Steps, OnPath, Running, Path, Repaired, StillBound
<1>34. CASE Displace
    BY <1>34, Goes, Defers
       DEF Displace, At, Phases, Steps, OnPath, Running, Path, StillBound
<1>35. CASE Converge
    BY <1>35, Goes, Defers
       DEF Converge, At, Phases, Steps, OnPath, Running, Path, Repaired, StillBound
<1>17. CASE Reinstall
    BY <1>17, Goes, Defers
       DEF Reinstall, At, Phases, Steps, OnPath, Running, Path, Repaired,
           StillBound
<1>18. CASE RetireBackup
    BY <1>18, Goes, Defers
       DEF RetireBackup, At, Phases, Steps, OnPath, Running, Path, StillBound
<1>19. CASE RetireSealed
    BY <1>19, Goes, Defers
       DEF RetireSealed, At, Phases, Steps, OnPath, Running, Path, FoundConsumed,
           StillBound
<1>20. CASE RetirePrepared
    BY <1>20, Goes, Defers
       DEF RetirePrepared, At, Phases, Steps, OnPath, Running, Path, FoundConsumed,
           StillBound
<1>21. CASE Archive
    BY <1>21, Goes, Defers
       DEF Archive, At, Phases, Steps, OnPath, Running, Path, StillBound
<1>22. CASE RetireControl
    BY <1>22, Goes, Defers
       DEF RetireControl, At, Phases, Steps, OnPath, Running, Path, StillBound
<1>23. CASE Reject
    BY <1>23, Goes, Defers
       DEF Reject, At, Phases, Steps, OnPath, Running, Path, StillBound
<1>24. CASE Plan
    BY <1>24, Rests DEF Plan, StillBound
<1>25. CASE Hold
    BY <1>25, Rests DEF Hold, StillBound
<1>26. CASE Kill
    BY <1>26, Rests DEF Kill, StillBound
<1>27. CASE Write
    <2>1. /\ broker'.at = broker.at /\ broker'.name = broker.name /\ broker'.plan = broker.plan
          /\ meddled \subseteq meddled' /\ UNCHANGED evidence
        BY <1>27, Written
    <2> QED BY <2>1 DEF StillBound
<1>28. CASE Exit
    BY <1>28, Rests DEF Exit, StillBound
<1>29. CASE Drift
    BY <1>29, Rests DEF Drift, StillBound
<1>30. CASE UNCHANGED vars
    BY <1>30, Rests DEF vars, StillBound
<1> QED BY <1>1, <1>2, <1>3, <1>4, <1>5, <1>6, <1>7, <1>8, <1>9, <1>10, <1>11, <1>12, <1>13,
<1>14,
           <1>15, <1>16, <1>17, <1>18, <1>19, <1>20, <1>21, <1>22, <1>23, <1>24, <1>25,
           <1>26, <1>27, <1>28, <1>29, <1>30, <1>31, <1>32, <1>33, <1>34, <1>35
        DEF Next, Transact

Brings(id) == LET v == vault[id]  n == control[id].pending IN
    n # 0 /\ v.sealed /\ (v.consumed = n \/ (v.prepared = n /\ v.backup))

Holding == {"seal", "look", "confirm", "recommit", "install", "repair", "reinstall"}
Cared(id) ==
    \/ id \in broker.todo \/ broker.at = "rest" \/ generation = "forgotten"
    \/ id = broker.name /\ broker.at \in Holding

Away ==
    execution = "none" =>
      /\ \E id \in Names : Brings(id) /\ (Cared(id) \/ meddled # {})
      /\ Running => broker.at \in Holding \cup {"check", "reject"}
      /\ broker.plan = "fresh" => broker.at \notin {"seal", "look"}

\* A pass takes all of the queue, or it is on record that it did not.
LEMMA AllTaken ==
    ASSUME BeginPass
    PROVE  /\ broker'.todo = Pending \/ "queue" \in meddled'
           /\ broker'.at = "next" /\ meddled \subseteq meddled'
<1>1. PICK batch \in SUBSET Pending :
          /\ broker' = [Idle EXCEPT !.at = "next", !.todo = batch]
          /\ meddled' = meddled \cup (IF batch = Pending THEN {} ELSE {"queue"})
    BY DEF BeginPass
<1> QED BY <1>1 DEF Idle

\* Whoever finds the record away brings it back or defers for a hold: the request with
\* its backup is taken in each pass before the planning of the task.
LEMMA AwayStep ==
    ASSUME StorageInv, Ended, StillBound, Away, [Next]_vars
    PROVE  Away'
<1> SUFFICES ASSUME execution' = "none"
             PROVE  /\ \E id \in Names : Brings(id)' /\ (Cared(id)' \/ meddled' # {})
                    /\ Running' => broker'.at \in Holding \cup {"check", "reject"}
                    /\ broker'.plan = "fresh" => broker'.at \notin {"seal", "look"}
    BY DEF Away
<1> USE DEF StorageInv, PlaceInv, world, outside
<1>1. CASE \E id \in Names : Stage(id)
    BY <1>1 DEF Stage, LegacyBinding
<1>2. CASE \E id \in Names : Expire(id)
    BY <1>2 DEF Expire, Away, Brings, Cared, Running
<1>3. CASE BeginPass
    <2>1. /\ broker'.todo = Pending \/ "queue" \in meddled'
          /\ broker'.at = "next" /\ broker'.plan = "none"
        BY <1>3, AllTaken DEF BeginPass, Idle
    <2>2. UNCHANGED <<execution, control, vault, generation>>
        BY <1>3 DEF BeginPass
    <2>3. PICK w \in Names : Brings(w)
        BY <2>2 DEF Away
    <2>4. w \in Pending
        BY <2>3 DEF Brings, Pending
    <2> QED BY <2>1, <2>2, <2>3, <2>4 DEF Brings, Cared, Running, Steps
<1>4. CASE Take
    <2> PICK id \in broker.todo :
            LET n == control[id].pending  plan == Plans(id, n)
                rest == [broker EXCEPT !.todo = @ \ {id}] IN
            broker' = IF n = 0 \/ plan = "none" THEN rest
                      ELSE [rest EXCEPT !.at = First[plan], !.name = id, !.serial = n,
                                        !.plan = plan]
        BY <1>4 DEF Take
    <2> DEFINE n == control[id].pending
    <2>1. /\ id \in Names /\ n \in Serials \cup {0} /\ broker.at = "next" /\ broker \in Brokers
          /\ vault[id] \in Vaults /\ execution = "none"
          /\ UNCHANGED <<execution, control, vault, generation, meddled>>
        BY <1>4 DEF Take, TypeInv, Brokers, Queues
    <2>2. PICK w \in Names : Brings(w) /\ (Cared(w) \/ meddled # {})
        BY <2>1 DEF Away
    <2>3. w \in broker.todo \/ generation = "forgotten" \/ meddled # {}
        BY <2>1, <2>2 DEF Cared, Holding
    <2>4. CASE n = 0 \/ Plans(id, n) = "none"
        <3>1. ~Brings(id)
            BY <2>1, <2>4, PlanChosen DEF Brings, Receipts, Vaults
        <3>2. broker' = [broker EXCEPT !.todo = @ \ {id}]
            BY <2>4
        <3> QED BY <2>1, <2>2, <2>3, <3>1, <3>2 DEF Brings, Cared, Running, Steps, Brokers,
        OnPath
    <2>5. CASE n # 0 /\ Plans(id, n) # "none"
        <3>1. /\ broker'.at = First[Plans(id, n)] /\ broker'.plan = Plans(id, n)
              /\ broker'.name = id /\ broker'.todo = broker.todo \ {id}
              /\ n \in Serials
            BY <2>1, <2>5 DEF Brokers
        <3>2. Plans(id, n) \in {"fresh", "recovery", "repair", "reject"}
            BY <2>1, <2>5, <3>1, PlanChosen DEF PlanNames
        <3>3. Brings(id) => Plans(id, n) \in {"recovery", "repair"}
            BY <2>1, <3>1, <3>2, PlanChosen DEF Brings, Vaults
        <3>4. /\ broker'.at \in {"check", "seal", "repair", "reject"}
              /\ Plans(id, n) = "fresh" => broker'.at = "check"
              /\ Brings(id) => broker'.at \in Holding
            BY <3>1, <3>2, <3>3 DEF First, Holding
        <3> QED BY <2>1, <2>2, <2>3, <3>1, <3>4 DEF Brings, Cared, Running, Steps, Holding
    <2> QED BY <2>4, <2>5
<1>5. CASE Check
    <2>1. broker.at \in Steps
        BY <1>5 DEF Check, At, Steps
    <2> QED BY <1>5, <2>1, AtWork, Goes, Defers, Tombstoned
            DEF Check, At, Phased, OnPath, Running, Path, Steps, Phases, Opening, Mine,
                TypeInv, Vaults, Ended, Away, Brings, Cared, Holding, StillBound
<1>6. CASE Prepare
    <2>1. broker.at \in Steps
        BY <1>6 DEF Prepare, At, Steps
    <2> QED BY <1>6, <2>1, AtWork, Goes, Defers, Tombstoned
            DEF Prepare, At, Phased, OnPath, Running, Path, Steps, Phases, Opening, Mine,
                TypeInv, Vaults, Ended, Away, Brings, Cared, Holding, StillBound
<1>7. CASE Seal
    <2>1. broker.at \in Steps
        BY <1>7 DEF Seal, At, Steps
    <2> QED BY <1>7, <2>1, AtWork, Goes, Defers, Tombstoned
            DEF Seal, At, Phased, OnPath, Running, Path, Steps, Phases, Opening, Mine,
                TypeInv, Vaults, Ended, Away, Brings, Cared, Holding, StillBound
<1>8. CASE Look
    <2>1. broker.at \in Steps
        BY <1>8 DEF Look, At, Steps
    <2> QED BY <1>8, <2>1, AtWork, Goes, Defers, Tombstoned
            DEF Look, At, Phased, OnPath, Running, Path, Steps, Phases, Opening, Mine,
                Installed, TypeInv, Vaults, Ended, Away, Brings, Cared, Holding, StillBound
<1>9. CASE Commit
    <2>1. broker.at \in Steps
        BY <1>9 DEF Commit, At, Steps
    <2>2. /\ At("recommit") /\ execution = "none"
          /\ UNCHANGED <<execution, control, vault, generation, meddled>>
        BY <1>9, <2>1 DEF Commit, Away, At, Running, Holding
    <2>3. PICK w \in Names : Brings(w) /\ (Cared(w) \/ meddled # {})
        BY <2>2 DEF Away
    <2>4. broker.plan \in {"fresh", "recovery"}
        BY <2>1, <2>2, AtWork DEF At, Path, PlanNames
    <2>5. CASE generation = "dead" /\ (broker.plan = "recovery" \/ Bound)
        <3>1. Goto("install")
            BY <1>9, <2>2, <2>5 DEF Commit, At
        <3>2. /\ broker'.at = "install" /\ broker'.todo = broker.todo
              /\ broker'.name = broker.name /\ broker'.plan = broker.plan
            BY <3>1, Goes DEF Phases, Steps
        <3> QED BY <2>2, <2>3, <3>2 DEF Brings, Cared, At, Holding
    <2>6. CASE ~(generation = "dead" /\ (broker.plan = "recovery" \/ Bound))
        <3>1. generation = "forgotten" \/ meddled # {}
            BY <2>1, <2>2, <2>4, <2>6
               DEF StillBound, Committed, At, Ended, TypeInv, Generations
        <3>2. broker'.at = "next" /\ broker'.plan = "none"
            BY <1>9, <2>6, Defers DEF Commit
        <3> QED BY <2>2, <2>3, <3>1, <3>2 DEF Brings, Cared, Running, Steps
    <2> QED BY <2>5, <2>6
<1>10. CASE Backup
    <2>1. broker.at \in Steps
        BY <1>10 DEF Backup, At, Steps
    <2> QED BY <1>10, <2>1, AtWork, Goes, Defers, Tombstoned
            DEF Backup, At, Phased, OnPath, Running, Path, Steps, Phases, Opening, Mine,
                TypeInv, Vaults, Ended, Away, Brings, Cared, Holding, StillBound
<1>11. CASE Evacuate
    <2>1. broker.at \in Steps
        BY <1>11 DEF Evacuate, At, Steps
    <2>2. At("evacuate") /\ Goto("confirm") /\ UNCHANGED <<control, vault, generation>>
        BY <1>11 DEF Evacuate
    <2>3. broker.name \in Names /\ Brings(broker.name)
        BY <2>1, <2>2, AtWork DEF Phased, Running, At, Opening, Displacing, Mine, Brings
    <2>4. broker'.at = "confirm" /\ broker'.name = broker.name
        BY <2>2, Goes DEF Phases, Steps
    <2> QED BY <2>2, <2>3, <2>4 DEF Brings, Cared, Holding
<1>12. CASE Install
    <2>1. broker.at \in Steps
        BY <1>12 DEF Install, At, Steps
    <2> QED BY <1>12, <2>1, AtWork, Goes, Defers, Tombstoned
            DEF Install, At, Phased, OnPath, Running, Path, Steps, Phases, Opening, Mine,
                Installed, TypeInv, Vaults, Ended, Away, Brings, Cared, Holding, StillBound
<1>13. CASE Verify
    <2>1. broker.at \in Steps
        BY <1>13 DEF Verify, At, Steps
    <2> QED BY <1>13, <2>1, AtWork, Goes, Defers, Tombstoned
            DEF Verify, At, Phased, OnPath, Running, Path, Steps, Phases, Opening, Mine,
                TypeInv, Vaults, Ended, Away, Brings, Cared, Holding, StillBound
<1>14. CASE StoreReceipt
    <2>1. broker.at \in Steps
        BY <1>14 DEF StoreReceipt, At, Steps
    <2> QED BY <1>14, <2>1, AtWork, Goes, Defers, Tombstoned
            DEF StoreReceipt, At, Phased, OnPath, Running, Path, Steps, Phases, Opening,
                Mine, TypeInv, Vaults, Ended, Away, Brings, Cared, Holding, StillBound
<1>15. CASE Sealed
    <2>1. broker.at \in Steps
        BY <1>15 DEF Sealed, At, Steps
    <2> QED BY <1>15, <2>1, AtWork, Goes, Defers, Tombstoned
            DEF Sealed, At, Phased, OnPath, Running, Path, Steps, Phases, Opening, Mine,
                TypeInv, Vaults, Ended, Away, Brings, Cared, Holding, StillBound
<1>16. CASE Inspect
    <2>1. broker.at \in Steps
        BY <1>16 DEF Inspect, At, Steps
    <2> QED BY <1>16, <2>1, AtWork, Goes, Defers, Tombstoned
            DEF Inspect, At, Phased, OnPath, Running, Path, Steps, Phases, Opening, Mine,
                TypeInv, Vaults, Ended, Away, Brings, Cared, Holding, StillBound
<1>31. CASE Compare
    <2>1. broker.at \in Steps
        BY <1>31 DEF Compare, At, Steps
    <2> QED BY <1>31, <2>1, AtWork, Goes, Defers, Tombstoned
            DEF Compare, At, Phased, OnPath, Running, Path, Steps, Phases, Opening, Mine,
                TypeInv, Vaults, Ended, Away, Brings, Cared, Holding, StillBound
<1>32. CASE Confirm
    <2>1. /\ broker.at = "confirm" /\ execution = "none"
          /\ UNCHANGED <<control, vault, generation, meddled>>
        BY <1>32 DEF Confirm, At
    <2>2. PICK w \in Names : Brings(w) /\ (Cared(w) \/ meddled # {})
        BY <2>1 DEF Away
    <2>3. CASE broker.intact
        <3>1. broker'.at = "recommit" /\ broker'.name = broker.name /\ broker'.todo = broker.todo
            BY <1>32, <2>3, Goes DEF Confirm, Phases, Steps
        <3> QED BY <2>1, <2>2, <3>1 DEF Brings, Cared, Holding
    <2>4. CASE ~broker.intact
        <3>1. broker'.at = "next" /\ broker'.plan = "none" /\ meddled # {}
            BY <1>32, <2>4, Defers DEF Confirm, OnPath
        <3> QED BY <2>1, <2>2, <3>1 DEF Brings, Running, Steps
    <2> QED BY <2>3, <2>4
<1>33. CASE Read
    <2>1. broker.at \in Steps
        BY <1>33 DEF Read, At, Steps
    <2> QED BY <1>33, <2>1, AtWork, Goes, Defers, Tombstoned
            DEF Read, At, Phased, OnPath, Running, Path, Steps, Phases, Opening, Mine,
                Repaired, TypeInv, Vaults, Ended, Away, Brings, Cared, Holding, StillBound
<1>34. CASE Displace
    <2>1. broker.at = "displace" /\ broker.at \in Steps /\ UNCHANGED <<control, vault, meddled>>
        BY <1>34 DEF Displace, At, Steps
    <2>2. broker.name \in Names /\ Brings(broker.name)
        <3>1. broker.plan \notin {"abort", "reject"}
            BY <2>1, AtWork DEF Path
        <3> QED BY <2>1, <3>1, AtWork DEF Phased, Running, Opening, Repairing, Mine, Brings
    <2>3. CASE broker.intact
        <3>1. broker'.at = "reinstall" /\ broker'.name = broker.name
            BY <1>34, <2>3, Goes DEF Displace, Phases, Steps
        <3> QED BY <2>1, <2>2, <3>1 DEF Brings, Cared, Holding
    <2>4. CASE ~broker.intact
        <3>1. broker'.at = "next" /\ broker'.plan = "none" /\ meddled # {}
            BY <1>34, <2>4, Defers DEF Displace, OnPath
        <3> QED BY <2>1, <2>2, <3>1 DEF Brings, Running, Steps
    <2> QED BY <2>3, <2>4
<1>35. CASE Converge
    <2>1. broker.at \in Steps
        BY <1>35 DEF Converge, At, Steps
    <2> QED BY <1>35, <2>1, AtWork, Goes, Defers, Tombstoned
            DEF Converge, At, Phased, OnPath, Running, Path, Steps, Phases, Opening, Mine,
                Repaired, TypeInv, Vaults, Ended, Away, Brings, Cared, Holding, StillBound
<1>17. CASE Reinstall
    <2>1. broker.at \in Steps
        BY <1>17 DEF Reinstall, At, Steps
    <2> QED BY <1>17, <2>1, AtWork, Goes, Defers, Tombstoned
            DEF Reinstall, At, Phased, OnPath, Running, Path, Steps, Phases, Opening, Mine,
                Repaired, TypeInv, Vaults, Ended, Away, Brings, Cared, Holding, StillBound
<1>18. CASE RetireBackup
    <2>1. broker.at \in Steps
        BY <1>18 DEF RetireBackup, At, Steps
    <2> QED BY <1>18, <2>1, AtWork, Goes, Defers, Tombstoned
            DEF RetireBackup, At, Phased, OnPath, Running, Path, Steps, Phases, Opening,
                Mine, TypeInv, Vaults, Ended, Away, Brings, Cared, Holding, StillBound
<1>19. CASE RetireSealed
    <2>1. broker.at \in Steps
        BY <1>19 DEF RetireSealed, At, Steps
    <2> QED BY <1>19, <2>1, AtWork, Goes, Defers, Tombstoned
            DEF RetireSealed, At, Phased, OnPath, Running, Path, Steps, Phases, Opening,
                Mine, FoundConsumed, TypeInv, Vaults, Ended, Away, Brings, Cared, Holding,
                StillBound
<1>20. CASE RetirePrepared
    <2>1. broker.at \in Steps
        BY <1>20 DEF RetirePrepared, At, Steps
    <2> QED BY <1>20, <2>1, AtWork, Goes, Defers, Tombstoned
            DEF RetirePrepared, At, Phased, OnPath, Running, Path, Steps, Phases, Opening,
                Mine, FoundConsumed, TypeInv, Vaults, Ended, Away, Brings, Cared, Holding,
                StillBound
<1>21. CASE Archive
    <2>1. broker.at \in Steps
        BY <1>21 DEF Archive, At, Steps
    <2> QED BY <1>21, <2>1, AtWork, Goes, Defers, Tombstoned
            DEF Archive, At, Phased, OnPath, Running, Path, Steps, Phases, Opening, Mine,
                TypeInv, Vaults, Ended, Away, Brings, Cared, Holding, StillBound
<1>22. CASE RetireControl
    <2>1. broker.at \in Steps
        BY <1>22 DEF RetireControl, At, Steps
    <2> QED BY <1>22, <2>1, AtWork, Goes, Defers, Tombstoned
            DEF RetireControl, At, Phased, OnPath, Running, Path, Steps, Phases, Opening,
                Mine, TypeInv, Vaults, Ended, Away, Brings, Cared, Holding, StillBound
<1>23. CASE Reject
    <2>1. broker.at \in Steps
        BY <1>23 DEF Reject, At, Steps
    <2> QED BY <1>23, <2>1, AtWork, Goes, Defers, Tombstoned
            DEF Reject, At, Phased, OnPath, Running, Path, Steps, Phases, Opening, Mine,
                FoundConsumed, TypeInv, Vaults, Ended, Away, Brings, Cared, Holding,
                StillBound
<1>24. CASE Plan
    BY <1>24, Rests DEF Plan, Away, Brings, Cared, Running, Steps
<1>25. CASE Hold
    BY <1>25, Rests DEF Hold, Away, Brings, Cared, Running, Steps
<1>26. CASE Kill
    BY <1>26, Rests DEF Kill, Away, Brings, Cared, Running, Steps
<1>27. CASE Write
    <2>1. /\ execution = "none" /\ meddled \subseteq meddled'
          /\ broker'.at = broker.at /\ broker'.name = broker.name /\ broker'.todo = broker.todo
          /\ broker'.plan = broker.plan /\ UNCHANGED <<control, vault, generation>>
        BY <1>27, Written
    <2> QED BY <2>1 DEF Away, Brings, Cared, Running
<1>28. CASE Exit
    BY <1>28, Rests DEF Exit, Away, Brings, Cared, Running, Steps
<1>29. CASE Drift
    BY <1>29, Rests DEF Drift, Away, Brings, Cared, Running, Steps
<1>30. CASE UNCHANGED vars
    BY <1>30, Rests DEF vars, Away, Brings, Cared, Running, Steps
<1> QED BY <1>1, <1>2, <1>3, <1>4, <1>5, <1>6, <1>7, <1>8, <1>9, <1>10, <1>11, <1>12, <1>13,
<1>14,
           <1>15, <1>16, <1>17, <1>18, <1>19, <1>20, <1>21, <1>22, <1>23, <1>24, <1>25,
           <1>26, <1>27, <1>28, <1>29, <1>30, <1>31, <1>32, <1>33, <1>34, <1>35
        DEF Next, Transact

Anew == execution = "anew" => generation = "forgotten" \/ meddled # {}

\* What is on record stays on record.
LEMMA Grows ==
    ASSUME [Next]_vars
    PROVE  meddled \subseteq meddled'
<1>1. CASE BeginPass
    BY <1>1, AllTaken
<1>2. CASE Write
    BY <1>2 DEF Write, Spoil
<1>3. CASE Drift
    BY <1>3 DEF Drift
<1>4. CASE (\E id \in Names : Stage(id) \/ Expire(id)) \/ Take \/ Plan \/ Hold \/ Kill
           \/ Exit \/ UNCHANGED vars
    BY <1>4 DEF Stage, LegacyBinding, Expire, Take, Plan, Hold, Kill, Exit, vars, world
<1>5. CASE Transact
    BY <1>5 DEF Transact, Check, Prepare, Seal, Look, Commit, Backup, Compare, Evacuate,
       Confirm, Install, Verify, StoreReceipt, Sealed, Inspect, Read, Displace, Reinstall,
       Converge, RetireBackup, RetireSealed, RetirePrepared, Archive, RetireControl, Reject,
       world
<1> QED BY <1>1, <1>2, <1>3, <1>4, <1>5 DEF Next

\* The task is started anew at the end of a pass, and only if the record is still away.
LEMMA AnewStep ==
    ASSUME StorageInv, Away, Anew, [Next]_vars
    PROVE  Anew'
<1> SUFFICES ASSUME execution' = "anew", meddled' = {}
             PROVE  generation' = "forgotten"
    BY DEF Anew
<1> USE DEF world, outside
<1>3. meddled = {}
    BY Grows
<1>1. CASE Plan
    BY <1>1, <1>3 DEF Plan, Away, Cared, Holding, Anew
<1>2. CASE ~Plan
    <2>1. execution = "anew"
        BY <1>2 DEF Next, Transact, Stage, LegacyBinding, Expire, BeginPass, Take, Hold, Kill,
                    Write, Exit, Drift,
               vars, Check, Prepare, Seal, Look, Commit, Backup, Compare, Evacuate, Confirm,
               Install, Verify, StoreReceipt, Sealed, Inspect, Read, Displace, Reinstall,
               Converge, RetireBackup, RetireSealed, RetirePrepared, Archive, RetireControl,
               Reject
    <2>2. generation' = generation \/ Hold \/ Exit
        BY <1>2 DEF Next, Transact, Stage, LegacyBinding, Expire, BeginPass, Take, Hold, Kill,
                    Write, Exit, Drift,
               vars, Check, Prepare, Seal, Look, Commit, Backup, Compare, Evacuate, Confirm,
               Install, Verify, StoreReceipt, Sealed, Inspect, Read, Displace, Reinstall,
               Converge, RetireBackup, RetireSealed, RetirePrepared, Archive, RetireControl,
               Reject
    <2>3. generation = "forgotten"
        BY <1>3, <2>1 DEF Anew
    <2>4. ASSUME Exit PROVE FALSE
        BY <2>3, <2>4 DEF Exit
    <2>5. ASSUME Hold PROVE generation' = "forgotten"
        BY <2>5 DEF Hold
    <2> QED BY <2>2, <2>3, <2>4, <2>5
<1> QED BY <1>1, <1>2

-----------------------------------------------------------------------------
(* A request that is replayed late.                                         *)

Replayable(id) ==
    control[id].pending # 0 /\ vault[id].consumed = control[id].pending /\ vault[id].sealed

Replaying == {"sealed", "repair", "read", "displace", "reinstall", "converge", "unbackup",
              "unseal", "unprepare"}

Attended ==
    broker.at # "rest" =>
        \A id \in Names \ broker.todo :
            Replayable(id) => Running /\ id = broker.name /\ broker.at \in Replaying
Replaced ==
    execution \in {"later", "anew"} =>
        /\ \A id \in Names : ~Replayable(id)
        /\ Running => broker.at \in {"check", "seal", "look", "reject"}
Reinstalled ==
    /\ broker.at = "reinstall" => execution = "none"
    /\ broker.at = "converge" => execution = "target"

\* No request was left over by a write in the course of a replacement or by a full batch.
Clean == meddled \subseteq {"evidence"}
LateInv == Clean => Attended /\ Replaced /\ Reinstalled

LEMMA LateStep ==
    ASSUME StorageInv, LateInv, [Next]_vars
    PROVE  LateInv'
<1> SUFFICES ASSUME Clean' PROVE Attended' /\ Replaced' /\ Reinstalled'
    BY DEF LateInv
<1>0. Clean /\ Attended /\ Replaced /\ Reinstalled
    BY Grows DEF LateInv, Clean
<1> USE <1>0 DEF StorageInv, PlaceInv, world, outside
<1>1. CASE \E id \in Names : Stage(id)
    <2> PICK id \in Names : Stage(id)
        BY <1>1
    <2>1. /\ control'[id].pending = control[id].staged + 1
          /\ control[id].pending = 0 /\ control[id].staged \in Nat
          /\ \A u \in Names \ {id} : control'[u] = control[u]
          /\ UNCHANGED <<execution, vault, broker, budget>> /\ execution = "legacy"
        BY DEF Stage, LegacyBinding, Room, TypeInv, Queues, Serials
    <2>2. vault[id].consumed <= control[id].staged /\ vault[id].consumed \in Nat
        BY <2>1 DEF Bounded
    <2>3. ~Replayable(id)'
        BY <2>1, <2>2 DEF Replayable
    <2>4. \A u \in Names : Replayable(u)' => Replayable(u)
        BY <2>1, <2>3 DEF Replayable
    <2> QED BY <2>1, <2>4 DEF Attended, Replaced, Reinstalled,
        Running
<1>2. CASE \E id \in Names : Expire(id)
    BY <1>2 DEF Expire, Attended, Replaced, Reinstalled, Running, Replayable
<1>3. CASE BeginPass
    <2>1. broker'.todo = Pending /\ broker'.at = "next"
        BY <1>3, AllTaken DEF Clean
    <2> QED BY <1>3, <2>1 DEF BeginPass, Attended, Replaced,
        Reinstalled, Running,
               Replayable, Steps, Pending
<1>4. CASE Take
    <2> PICK id \in broker.todo :
            LET n == control[id].pending  plan == Plans(id, n)
                rest == [broker EXCEPT !.todo = @ \ {id}] IN
            broker' = IF n = 0 \/ plan = "none" THEN rest
                      ELSE [rest EXCEPT !.at = First[plan], !.name = id, !.serial = n,
                                        !.plan = plan]
        BY <1>4 DEF Take
    <2> DEFINE n == control[id].pending
    <2>1. /\ id \in Names /\ n \in Serials \cup {0} /\ broker.at = "next" /\ broker \in Brokers
          /\ vault[id] \in Vaults
          /\ UNCHANGED <<execution, control, vault, budget>>
        BY <1>4 DEF Take, TypeInv, Brokers, Queues
    <2>2. \A u \in Names \ broker.todo : ~Replayable(u)
        BY <2>1 DEF Attended, Running, Steps
    <2>4. CASE n = 0 \/ Plans(id, n) = "none"
        <3>1. ~Replayable(id)
            BY <2>1, <2>4, PlanChosen DEF Replayable
        <3>2. /\ broker'.at = "next" /\ broker'.todo = broker.todo \ {id}
              /\ broker'.at \notin Steps
            BY <2>1, <2>4 DEF Brokers, Steps
        <3>3. \A u \in Names : Replayable(u)' <=> Replayable(u)
            BY <2>1 DEF Replayable
        <3>4. Attended'
            BY <2>2, <3>1, <3>2, <3>3 DEF Attended
        <3> QED BY <2>1, <3>2, <3>3, <3>4
               DEF Replaced, Reinstalled, Running
    <2>5. CASE n # 0 /\ Plans(id, n) # "none"
        <3>1. /\ broker'.at = First[Plans(id, n)] /\ broker'.plan = Plans(id, n)
              /\ broker'.name = id /\ broker'.todo = broker.todo \ {id}
              /\ n \in Serials /\ Plans(id, n) \in PlanNames
            BY <2>1, <2>5, PlanChosen DEF Brokers
        <3>2. Replayable(id) => Plans(id, n) \in {"replay", "repair"}
            BY <2>1, <3>1, PlanChosen DEF Replayable, PlanNames, Serials
        <3>3. /\ Replayable(id) => broker'.at \in Replaying
              /\ broker'.at \in Steps /\ broker'.at \notin {"reinstall", "converge"}
            BY <3>1, <3>2 DEF First, Replaying, Steps, PlanNames
        <3>5. execution \in {"later", "anew"} => Plans(id, n) \in {"recovery", "fresh", "reject"}
            BY <2>1, <3>1, PlanChosen DEF PlanNames, Replaced, Replayable, Serials
        <3>6. execution \in {"later", "anew"} => broker'.at \in {"check", "seal", "reject"}
            BY <3>1, <3>5 DEF First
        <3>7. \A u \in Names : Replayable(u)' <=> Replayable(u)
            BY <2>1 DEF Replayable
        <3> QED BY <2>1, <2>2, <3>1, <3>3, <3>6, <3>7
               DEF Attended, Replaced, Reinstalled, Running
    <2> QED BY <2>4, <2>5
<1>5. CASE Check
    <2>1. broker.at \in Steps
        BY <1>5 DEF Check, At, Steps
    <2> QED BY <1>5, <2>1, AtWork, Goes, Defers, Tombstoned
            DEF Check, At, Phased, OnPath, Running, Path, Steps, Phases, Opening,
                Displacing, Mine, TypeInv, Vaults, Attended,
                Replaced, Reinstalled, Replayable, Replaying
<1>6. CASE Prepare
    <2>1. broker.at \in Steps
        BY <1>6 DEF Prepare, At, Steps
    <2> QED BY <1>6, <2>1, AtWork, Goes, Defers, Tombstoned
            DEF Prepare, At, Phased, OnPath, Running, Path, Steps, Phases, Opening,
                Displacing, Mine, TypeInv, Vaults, Attended,
                Replaced, Reinstalled, Replayable, Replaying
<1>7. CASE Seal
    <2>1. broker.at \in Steps
        BY <1>7 DEF Seal, At, Steps
    <2> QED BY <1>7, <2>1, AtWork, Goes, Defers, Tombstoned
            DEF Seal, At, Phased, OnPath, Running, Path, Steps, Phases, Opening, Displacing,
                Mine, TypeInv, Vaults, Attended, Replaced,
                Reinstalled, Replayable, Replaying
<1>8. CASE Look
    <2>1. broker.at \in Steps
        BY <1>8 DEF Look, At, Steps
    <2> QED BY <1>8, <2>1, AtWork, Goes, Defers, Tombstoned
            DEF Look, At, Phased, OnPath, Running, Path, Steps, Phases, Opening, Displacing,
                Mine, Installed, TypeInv, Vaults, Attended,
                Replaced, Reinstalled, Replayable, Replaying
<1>9. CASE Commit
    <2>1. broker.at \in Steps
        BY <1>9 DEF Commit, At, Steps
    <2> QED BY <1>9, <2>1, AtWork, Goes, Defers, Tombstoned
            DEF Commit, At, Phased, OnPath, Running, Path, Steps, Phases, Opening,
                Displacing, Mine, TypeInv, Vaults, Attended,
                Replaced, Reinstalled, Replayable, Replaying
<1>10. CASE Backup
    <2>1. broker.at \in Steps
        BY <1>10 DEF Backup, At, Steps
    <2> QED BY <1>10, <2>1, AtWork, Goes, Defers, Tombstoned
            DEF Backup, At, Phased, OnPath, Running, Path, Steps, Phases, Opening,
                Displacing, Mine, TypeInv, Vaults, Attended,
                Replaced, Reinstalled, Replayable, Replaying
<1>11. CASE Evacuate
    <2>1. broker.at \in Steps
        BY <1>11 DEF Evacuate, At, Steps
    <2> QED BY <1>11, <2>1, AtWork, Goes, Defers, Tombstoned
            DEF Evacuate, At, Phased, OnPath, Running, Path, Steps, Phases, Opening,
                Displacing, Mine, TypeInv, Vaults, Attended,
                Replaced, Reinstalled, Replayable, Replaying
<1>12. CASE Install
    <2>1. broker.at \in Steps
        BY <1>12 DEF Install, At, Steps
    <2> QED BY <1>12, <2>1, AtWork, Goes, Defers, Tombstoned
            DEF Install, At, Phased, OnPath, Running, Path, Steps, Phases, Opening,
                Displacing, Mine, Installed, TypeInv, Vaults, Attended, Replaced, Reinstalled,
                Replayable, Replaying
<1>13. CASE Verify
    <2>1. broker.at \in Steps
        BY <1>13 DEF Verify, At, Steps
    <2> QED BY <1>13, <2>1, AtWork, Goes, Defers, Tombstoned
            DEF Verify, At, Phased, OnPath, Running, Path, Steps, Phases, Opening,
                Displacing, Mine, TypeInv, Vaults, Attended,
                Replaced, Reinstalled, Replayable, Replaying
<1>14. CASE StoreReceipt
    <2>1. broker.at \in Steps
        BY <1>14 DEF StoreReceipt, At, Steps
    <2> QED BY <1>14, <2>1, AtWork, Goes, Defers, Tombstoned
            DEF StoreReceipt, At, Phased, OnPath, Running, Path, Steps, Phases, Opening,
                Displacing, Mine, TypeInv, Vaults, Attended,
                Replaced, Reinstalled, Replayable, Replaying
<1>15. CASE Sealed
    <2>1. broker.at \in Steps
        BY <1>15 DEF Sealed, At, Steps
    <2> QED BY <1>15, <2>1, AtWork, Goes, Defers, Tombstoned
            DEF Sealed, At, Phased, OnPath, Running, Path, Steps, Phases, Opening,
                Displacing, Mine, TypeInv, Vaults, Attended,
                Replaced, Reinstalled, Replayable, Replaying
<1>16. CASE Inspect
    <2>1. broker.at \in Steps
        BY <1>16 DEF Inspect, At, Steps
    <2> QED BY <1>16, <2>1, AtWork, Goes, Defers, Tombstoned
            DEF Inspect, At, Phased, OnPath, Running, Path, Steps, Phases, Opening,
                Displacing, Mine, TypeInv, Vaults, Attended,
                Replaced, Reinstalled, Replayable, Replaying
<1>31. CASE Compare
    <2>1. broker.at \in Steps
        BY <1>31 DEF Compare, At, Steps
    <2> QED BY <1>31, <2>1, AtWork, Goes, Defers, Tombstoned
            DEF Compare, At, Phased, OnPath, Running, Path, Steps, Phases, Opening,
                Displacing, Mine, TypeInv, Vaults, Attended,
                Replaced, Reinstalled, Replayable, Replaying
<1>32. CASE Confirm
    <2>1. broker.at \in Steps
        BY <1>32 DEF Confirm, At, Steps
    <2> QED BY <1>32, <2>1, AtWork, Goes, Defers, Tombstoned
            DEF Confirm, At, Phased, OnPath, Running, Path, Steps, Phases, Opening,
                Displacing, Mine, TypeInv, Vaults, Attended,
                Replaced, Reinstalled, Replayable, Replaying
<1>33. CASE Read
    <2>1. broker.at \in Steps
        BY <1>33 DEF Read, At, Steps
    <2> QED BY <1>33, <2>1, AtWork, Goes, Defers, Tombstoned
            DEF Read, At, Phased, OnPath, Running, Path, Steps, Phases, Opening,
                Displacing, Mine, Repaired, TypeInv, Vaults, Attended, Replaced, Reinstalled,
                Replayable, Replaying
<1>34. CASE Displace
    <2>1. broker.at \in Steps
        BY <1>34 DEF Displace, At, Steps
    <2>2. broker.intact
        BY <1>0 DEF OnPath, Clean
    <2>3. /\ broker.at = "displace" /\ broker'.at = "reinstall" /\ execution' = "none"
          /\ broker'.name = broker.name /\ broker'.todo = broker.todo
          /\ UNCHANGED <<control, vault>>
        BY <1>34, <2>2, Goes DEF Displace, At, Phases, Steps
    <2> QED BY <2>1, <2>3 DEF Attended, Replaced, Reinstalled, Replayable, Replaying, Running,
            Steps
<1>35. CASE Converge
    <2>1. broker.at \in Steps
        BY <1>35 DEF Converge, At, Steps
    <2> QED BY <1>35, <2>1, AtWork, Goes, Defers, Tombstoned
            DEF Converge, At, Phased, OnPath, Running, Path, Steps, Phases, Opening,
                Displacing, Mine, Repaired, TypeInv, Vaults, Attended, Replaced, Reinstalled,
                Replayable, Replaying
<1>17. CASE Reinstall
    <2>1. broker.at \in Steps
        BY <1>17 DEF Reinstall, At, Steps
    <2> QED BY <1>17, <2>1, AtWork, Goes, Defers, Tombstoned
            DEF Reinstall, At, Phased, OnPath, Running, Path, Steps, Phases, Opening,
                Displacing, Mine, Repaired, TypeInv, Vaults, Attended, Replaced, Reinstalled,
                Replayable, Replaying
<1>18. CASE RetireBackup
    <2>1. broker.at \in Steps
        BY <1>18 DEF RetireBackup, At, Steps
    <2> QED BY <1>18, <2>1, AtWork, Goes, Defers, Tombstoned
            DEF RetireBackup, At, Phased, OnPath, Running, Path, Steps, Phases, Opening,
                Displacing, Mine, TypeInv, Vaults, Attended,
                Replaced, Reinstalled, Replayable, Replaying
<1>19. CASE RetireSealed
    <2>1. broker.at \in Steps
        BY <1>19 DEF RetireSealed, At, Steps
    <2> QED BY <1>19, <2>1, AtWork, Goes, Defers, Tombstoned
            DEF RetireSealed, At, Phased, OnPath, Running, Path, Steps, Phases, Opening,
                Displacing, Mine, FoundConsumed, TypeInv, Vaults, Attended, Replaced,
                Reinstalled, Replayable, Replaying
<1>20. CASE RetirePrepared
    <2>1. broker.at \in Steps
        BY <1>20 DEF RetirePrepared, At, Steps
    <2> QED BY <1>20, <2>1, AtWork, Goes, Defers, Tombstoned
            DEF RetirePrepared, At, Phased, OnPath, Running, Path, Steps, Phases, Opening,
                Displacing, Mine, FoundConsumed, TypeInv, Vaults, Attended, Replaced,
                Reinstalled, Replayable, Replaying
<1>21. CASE Archive
    <2>1. broker.at \in Steps
        BY <1>21 DEF Archive, At, Steps
    <2> QED BY <1>21, <2>1, AtWork, Goes, Defers, Tombstoned
            DEF Archive, At, Phased, OnPath, Running, Path, Steps, Phases, Opening,
                Displacing, Mine, TypeInv, Vaults, Attended,
                Replaced, Reinstalled, Replayable, Replaying
<1>22. CASE RetireControl
    <2>1. broker.at \in Steps
        BY <1>22 DEF RetireControl, At, Steps
    <2> QED BY <1>22, <2>1, AtWork, Goes, Defers, Tombstoned
            DEF RetireControl, At, Phased, OnPath, Running, Path, Steps, Phases, Opening,
                Displacing, Mine, TypeInv, Vaults, Attended,
                Replaced, Reinstalled, Replayable, Replaying
<1>23. CASE Reject
    <2>1. broker.at \in Steps
        BY <1>23 DEF Reject, At, Steps
    <2> QED BY <1>23, <2>1, AtWork, Goes, Defers, Tombstoned
            DEF Reject, At, Phased, OnPath, Running, Path, Steps, Phases, Opening,
                Displacing, Mine, FoundConsumed, TypeInv, Vaults, Attended, Replaced,
                Reinstalled, Replayable, Replaying
<1>24. CASE Plan
    BY <1>24, Rests DEF Plan, Running, Steps, TypeInv, Budgets, Attended, Replaced,
                        Reinstalled, Replayable, Replaying
<1>25. CASE Hold
    BY <1>25, Rests DEF Hold, Running, Steps, TypeInv, Budgets, Attended, Replaced,
                        Reinstalled, Replayable, Replaying
<1>26. CASE Kill
    BY <1>26, Rests DEF Kill, Running, Steps, TypeInv, Budgets, Attended, Replaced,
                        Reinstalled, Replayable, Replaying
<1>27. CASE Write
    <2>1. /\ broker'.at = broker.at /\ broker'.name = broker.name /\ broker'.todo = broker.todo
          /\ broker.at \notin {"reinstall", "converge"}
          /\ execution' \in {execution, "foreign"} /\ UNCHANGED <<control, vault>>
        BY <1>27, Written DEF Clean
    <2> QED BY <2>1 DEF Attended, Replaced, Reinstalled, Replayable, Running
<1>28. CASE Exit
    BY <1>28, Rests DEF Exit, Running, Steps, TypeInv, Budgets, Attended, Replaced,
                        Reinstalled, Replayable, Replaying
<1>29. CASE Drift
    BY <1>29, Rests DEF Drift, Running, Steps, TypeInv, Budgets, Attended, Replaced,
                        Reinstalled, Replayable, Replaying
<1>30. CASE UNCHANGED vars
    BY <1>30, Rests DEF vars, Running, Steps, TypeInv, Budgets, Attended, Replaced,
                        Reinstalled, Replayable, Replaying
<1> QED BY <1>1, <1>2, <1>3, <1>4, <1>5, <1>6, <1>7, <1>8, <1>9, <1>10, <1>11, <1>12, <1>13,
<1>14,
           <1>15, <1>16, <1>17, <1>18, <1>19, <1>20, <1>21, <1>22, <1>23, <1>24, <1>25,
           <1>26, <1>27, <1>28, <1>29, <1>30, <1>31, <1>32, <1>33, <1>34, <1>35
        DEF Next, Transact

\* While the record is that of a later attempt, no request is at a step that displaces it.
LEMMA LateStays ==
    ASSUME StorageInv, LateInv, Clean, execution \in {"later", "anew"}, [Next]_vars
    PROVE  execution' \in {execution, "foreign"}
<1>1. Running => broker.at \in {"check", "seal", "look", "reject"}
    BY DEF LateInv, Replaced
<1>2. ~(Evacuate \/ Install \/ Displace \/ Reinstall)
    BY <1>1 DEF Evacuate, Install, Displace, Reinstall, At, Running, Steps
<1>3. CASE Plan
    BY <1>3 DEF Plan
<1>4. CASE Write
    BY <1>4, Written DEF StorageInv, PlaceInv
<1>5. CASE Transact
    BY <1>2, <1>5 DEF Transact, Check, Prepare, Seal, Look, Commit, Backup, Compare, Confirm,
       Verify, StoreReceipt, Sealed, Inspect, Read, Converge, RetireBackup, RetireSealed,
       RetirePrepared, Archive, RetireControl, Reject
<1>6. CASE (\E id \in Names : Stage(id) \/ Expire(id)) \/ BeginPass \/ Take \/ Hold \/ Kill
           \/ Exit \/ Drift \/ UNCHANGED vars
    BY <1>6 DEF Stage, LegacyBinding, Expire, BeginPass, Take, Hold, Kill, Exit, Drift, vars
<1> QED BY <1>3, <1>4, <1>5, <1>6 DEF Next

-----------------------------------------------------------------------------
(* The theorems. *)

\* At first nothing is staged and no artifact exists.
LEMMA StorageInit == Init => StorageInv /\ Ended /\ StillBound /\ Away /\ Anew
<1> SUFFICES ASSUME Init PROVE StorageInv /\ Ended /\ StillBound /\ Away /\ Anew
    OBVIOUS
<1>1. broker.at = "rest" /\ broker.plan = "none" /\ ~Running
    BY DEF Init, Idle, Running, Steps
<1>2. control \in [Names -> Queues] /\ vault \in [Names -> Vaults]
    BY DEF Init, Queues, Vaults
<1>3. evidence \in Names /\ expired \subseteq Requests
    BY MigrationAssumption DEF Init, Names
<1>4. broker \in Brokers /\ budget \in Budgets
    BY MigrationAssumption DEF Init, Idle, Brokers, Phases, Budgets
<1>5. TypeInv
    BY <1>2, <1>3, <1>4 DEF Init, TypeInv, Records, Generations
<1>6. Phased /\ OnPath
    BY <1>1 DEF Phased, OnPath, Init, Idle
<1>7. Receipts /\ Bounded
    BY DEF Init, Receipts, Bounded
<1>8. Ended /\ StillBound /\ Away /\ Anew
    BY <1>1 DEF Init, Ended, StillBound, Committed, Away, Anew
<1> QED BY <1>5, <1>6, <1>7, <1>8 DEF StorageInv, PlaceInv

LEMMA LateInit == Init => LateInv
BY DEF Init, Idle, LateInv, Attended, Replaced, Reinstalled

\* The invariant of the storage contains the types.
LEMMA StorageTypes == StorageInv => TypeOK
<1> SUFFICES ASSUME StorageInv PROVE TypeOK
    OBVIOUS
<1> USE DEF StorageInv, PlaceInv
<1>1. DOMAIN First = PlanNames
    BY DEF First, PlanNames
<1>2. broker \in Brokers
    BY DEF TypeInv
<1>3. CASE Running
    <2>1. broker.at \in Steps
        BY <1>3 DEF Running
    <2> QED BY <1>1, <1>2, <2>1, AtWork DEF TypeOK, TypeInv, Brokers, Bounded, Receipts
<1>4. CASE ~Running
    <2>1. broker.at \in {"rest", "next"} /\ broker.name = 0 /\ broker.serial = 0
          /\ broker.plan = "none" /\ broker.intact
        BY <1>2, <1>4 DEF OnPath, Running, Brokers, Phases
    <2>2. broker = [Idle EXCEPT !.at = broker.at, !.todo = broker.todo]
        <3> DEFINE idle == [Idle EXCEPT !.at = broker.at, !.todo = broker.todo]
        <3>1. /\ idle \in Brokers /\ idle.at = broker.at /\ idle.todo = broker.todo
              /\ idle.name = 0 /\ idle.serial = 0 /\ idle.plan = "none" /\ idle.intact
            BY <1>2 DEF Brokers, Idle
        <3>2. broker = idle
            <4> HIDE DEF idle
            <4> QED BY <1>2, <2>1, <3>1 DEF Brokers
        <3> QED BY <3>2
    <2> QED BY <1>2, <2>1, <2>2 DEF TypeOK, TypeInv, Brokers, Bounded, Receipts
<1> QED BY <1>3, <1>4

\* Wherever the broker is killed, the queue and the receipts name staged requests, and the
\* protected artifacts are under a receipt that binds them (lineage-migration.py:1757-1778).
THEOREM TypeCorrect == Spec => []TypeOK
<1>1. Init => StorageInv
    BY StorageInit
<1>2. StorageInv /\ [Next]_vars => StorageInv'
    BY StorageStep
<1>3. StorageInv => TypeOK
    BY StorageTypes
<1> QED BY <1>1, <1>2, <1>3, PTL DEF Spec

\* A record that is away from its name (lineage-migration.py:2264-2345) can be brought back
\* by a request that is pending, for any number of kills, of writes outside the lock, of
\* holds and of changes of the evidence, and whatever expires; and the task is started anew
\* only where it was held or something changed in one of the windows.
THEOREM NothingLostStands == Spec => []NothingLost
<1> DEFINE Safe == StorageInv /\ Ended /\ StillBound /\ Away /\ Anew
<1>1. Init => Safe
    BY StorageInit
<1>2. Safe /\ [Next]_vars => Safe'
    BY StorageStep, EndedStep, BoundStep, AwayStep, AnewStep
<1>3. Safe => NothingLost
    BY StorageTypes DEF NothingLost, Away, Brings, Anew
<1> QED BY <1>1, <1>2, <1>3, PTL DEF Spec

\* A replayed request never displaces the record of a later attempt
\* (lineage-migration.py:2380-2414, 2717-2736), for any number of kills, writes and holds,
\* unless a write in the course of a replacement or a full batch has left it over.
THEOREM NoRollbackStands == Spec => NoRollback
<1> DEFINE Late == StorageInv /\ LateInv
<1>1. Init => Late
    BY StorageInit, LateInit
<1>2. Late /\ [Next]_vars => Late'
    BY StorageStep, LateStep
<1>3. Late /\ [Next]_vars =>
         [(execution \in {"later", "anew"} /\ meddled \subseteq {"evidence"})
             => (execution' \in {execution, "foreign"})]_vars
    BY LateStays DEF Clean
<1> QED BY <1>1, <1>2, <1>3, PTL DEF Spec, NoRollback
=============================================================================
