--------------------------- MODULE MigrateProofs ---------------------------
(***************************************************************************)
(* Theorems about Migrate: for any number of instances, of any builds.     *)
(***************************************************************************)
EXTENDS Migrate, TLAPS

(* The inductive invariant. *)
IndInv == MigrateInv /\ VersionIsSchema /\ OkIsCurrent /\ NothingTwice

(* Variables of which each instance has one of its own. *)
Same(j) ==
  /\ pc'[j] = pc[j] /\ current'[j] = current[j]
  /\ txn'[j] = txn[j] /\ done'[j] = done[j] /\ wrote'[j] = wrote[j]

LEMMA InitMigrate == Init => IndInv
<1> SUFFICES ASSUME Init PROVE IndInv
  OBVIOUS
<1>1. version \in {0} \cup Migration /\ schema = 1..version
  BY MigrateAssumption DEF Init
<1>2. TypeOK
  BY <1>1, MigrateAssumption DEF Init, TypeOK, PC, Migration
<1>3. VersionIsSchema /\ OkIsCurrent /\ NothingTwice
  BY <1>1 DEF Init, VersionIsSchema, OkIsCurrent, NothingTwice
<1>4. InOrder
  BY <1>1 DEF InOrder, Migration
<1>5. \A i \in Instance : Passed(i) /\ Holds(i)
  BY DEF Init, Passed, Holds
<1>6. QED
  BY <1>2, <1>3, <1>4, <1>5 DEF IndInv, MigrateInv

-----------------------------------------------------------------------------
(* Each action keeps the types. *)

LEMMA LoopHeadType ==
  ASSUME TypeOK, NEW i \in Instance, NEW v \in 1..5, LoopHead(i, v)
  PROVE  /\ current' \in [Instance -> 0..5] /\ pc' \in [Instance -> PC]
         /\ current'[i] = v
         /\ pc'[i] = IF v <= NMigrations[i] THEN "begin" ELSE "ok"
         /\ \A j \in Instance \ {i} : pc'[j] = pc[j] /\ current'[j] = current[j]
BY DEF LoopHead, TypeOK, PC

LEMMA CommitType ==
  ASSUME TypeOK, NEW i \in Instance, done[i] # 0, Commit(i)
  PROVE  /\ schema' \subseteq Migration /\ unrecorded' \subseteq Migration
         /\ version' \in {0} \cup Migration
BY DEF TypeOK, Commit

LEMMA TypeStep ==
  ASSUME TypeOK, [Next]_vars, \A i \in Instance : Passed(i) /\ Holds(i)
  PROVE  TypeOK'
<1> USE DEF dbVars, txnVars, Rollback, Go, PC, Mishap
<1>m. MaxMishaps \in Nat /\ \A i \in Instance : NMigrations[i] \in 1..4
  BY MigrateAssumption DEF Migration
<1>1. ASSUME NEW i \in Instance, Start(i) PROVE TypeOK'
  BY <1>1 DEF Start, TypeOK
<1>2. ASSUME NEW i \in Instance, StatementFails(i) PROVE TypeOK'
  BY <1>m, <1>2 DEF StatementFails, TypeOK
<1>3. ASSUME NEW i \in Instance, Crash(i) PROVE TypeOK'
  BY <1>m, <1>3 DEF Crash, TypeOK
<1>4. ASSUME NEW i \in Instance, ReadExists(i) PROVE TypeOK'
  <2>1. current' \in [Instance -> 0..5] /\ pc' \in [Instance -> PC]
    BY <1>4, LoopHeadType DEF ReadExists, TypeOK
  <2>2. QED
    BY <1>4, <2>1 DEF ReadExists, TypeOK
<1>5. ASSUME NEW i \in Instance, ReadValue(i) PROVE TypeOK'
  <2>1. version + 1 \in 1..5
    BY DEF TypeOK, Migration
  <2>2. current' \in [Instance -> 0..5] /\ pc' \in [Instance -> PC]
    BY <1>5, <2>1, LoopHeadType DEF ReadValue
  <2>3. QED
    BY <1>5, <2>2 DEF ReadValue, TypeOK
<1>6. ASSUME NEW i \in Instance, Begin(i) PROVE TypeOK'
  BY <1>6 DEF Begin, TypeOK
<1>7. ASSUME NEW i \in Instance, Body(i) PROVE TypeOK'
  <2>1. current[i] \in Migration
    BY <1>m, <1>7 DEF Body, Passed, TypeOK, Migration
  <2>2. QED
    BY <1>7, <2>1 DEF Body, TypeOK, Migration
<1>8. ASSUME NEW i \in Instance, BodyFails(i) PROVE TypeOK'
  BY <1>8 DEF BodyFails, TypeOK
<1>9. ASSUME NEW i \in Instance, UpdateVersion(i) PROVE TypeOK'
  <2>1. current[i] \in Migration
    BY <1>m, <1>9 DEF UpdateVersion, Passed, TypeOK, Migration
  <2>2. pc' \in [Instance -> PC] /\ mishaps' \in 0..MaxMishaps
    BY <1>m, <1>9 DEF UpdateVersion, TypeOK
  <2>3. /\ txn' \in [Instance -> {"none", "open", "aborted"}]
        /\ done' \in [Instance -> {0} \cup Migration]
        /\ wrote' \in [Instance -> {0} \cup Migration]
    BY <1>9, <2>1 DEF UpdateVersion, TypeOK
  <2>4. QED
    BY <1>9, <2>2, <2>3 DEF UpdateVersion, TypeOK
<1>10. ASSUME NEW i \in Instance, End(i) PROVE TypeOK'
  <2>1. current[i] \in Migration /\ (txn[i] = "open" => done[i] # 0)
    BY <1>m, <1>10 DEF End, Passed, Holds, TypeOK, Migration
  <2>2. current[i] + 1 \in 1..5
    BY <2>1 DEF Migration
  <2>3. current' \in [Instance -> 0..5] /\ pc' \in [Instance -> PC]
    BY <1>10, <2>2, LoopHeadType DEF End
  <2>4. /\ schema' \subseteq Migration /\ unrecorded' \subseteq Migration
        /\ version' \in {0} \cup Migration
        /\ lost' \subseteq Migration
    BY <1>10, <2>1, CommitType DEF End, TypeOK
  <2>5. QED
    BY <1>10, <2>3, <2>4 DEF End, TypeOK
<1>11. ASSUME NEW i \in Instance, EndFails(i) PROVE TypeOK'
  <2>1. txn[i] = "open" => done[i] # 0
    BY <1>11 DEF EndFails, Holds
  <2>2. /\ schema' \subseteq Migration /\ unrecorded' \subseteq Migration
        /\ version' \in {0} \cup Migration
    BY <1>11, <2>1, CommitType DEF EndFails, TypeOK
  <2>3. QED
    BY <1>m, <1>11, <2>2 DEF EndFails, TypeOK
<1>12. CASE UNCHANGED vars
  BY <1>12 DEF vars, TypeOK
<1>13. QED
  BY <1>1, <1>2, <1>3, <1>4, <1>5, <1>6, <1>7, <1>8, <1>9, <1>10, <1>11, <1>12
     DEF Next, Step

-----------------------------------------------------------------------------
(* What the invariant says of the instances that do not move outlives a    *)
(* step that takes nothing back.                                           *)
LEMMA OthersKeep ==
  ASSUME IndInv, TypeOK', NEW i \in Instance,
         \A j \in Instance \ {i} : Same(j),
         schema \subseteq schema', lost \subseteq lost',
         Passed(i)', Holds(i)',
         pc'[i] = "ok" => 1..NMigrations[i] \subseteq schema' \cup lost',
         VersionIsSchema', (lost = {} => InOrder)', NothingTwice'
  PROVE  IndInv'
<1>1. ASSUME NEW j \in Instance \ {i} PROVE Passed(j)' /\ Holds(j)'
  <2>1. Passed(j) /\ Holds(j) /\ Same(j)
    BY DEF IndInv, MigrateInv
  <2>2. QED
    BY <2>1 DEF Passed, Holds, Same
<1>2. ASSUME NEW j \in Instance, pc'[j] = "ok"
      PROVE  1..NMigrations[j] \subseteq schema' \cup lost'
  <2>1. CASE j # i
    <3>1. 1..NMigrations[j] \subseteq schema \cup lost
      BY <1>2, <2>1 DEF IndInv, OkIsCurrent, Same
    <3>2. QED
      BY <3>1
  <2>2. QED
    BY <1>2, <2>1
<1>3. OkIsCurrent'
  BY <1>2 DEF OkIsCurrent
<1>4. QED
  BY <1>1, <1>3 DEF IndInv, MigrateInv

(* A step of i that commits nothing. *)
LEMMA LocalStep ==
  ASSUME IndInv, TypeOK', NEW i \in Instance, UNCHANGED dbVars,
         \A j \in Instance \ {i} : Same(j),
         lost \subseteq lost',
         Passed(i)', Holds(i)',
         pc'[i] = "ok" => 1..NMigrations[i] \subseteq schema \cup lost',
         done'[i] # 0 => done'[i] \notin schema
                         /\ \A j \in Instance \ {i} : done[j] = 0
  PROVE  IndInv'
<1> USE DEF dbVars
<1>1. VersionIsSchema'
  BY DEF IndInv, VersionIsSchema
<1>2. (lost = {} => InOrder)'
  BY DEF IndInv, MigrateInv, InOrder
<1>3. NothingTwice'
  BY DEF IndInv, NothingTwice, Same
<1>4. QED
  BY <1>1, <1>2, <1>3, OthersKeep

(* What a commit does to the database. *)
LEMMA CommitStep ==
  ASSUME IndInv, NEW i \in Instance, txn[i] = "open", pc[i] = "end", Commit(i)
  PROVE  /\ done[i] = current[i] /\ done[i] \in Migration \ schema
         /\ schema' = schema \cup {done[i]}
         /\ 1..(done[i] - 1) \subseteq schema \cup lost
         /\ \A j \in Instance \ {i} : done[j] = 0
         /\ 1..version' \subseteq schema' \cup lost
         /\ lost = {} => 1..done[i] \subseteq schema'
         /\ lost = {} => schema' \subseteq 1..version' \cup unrecorded'
<1>1. Passed(i) /\ Holds(i) /\ TypeOK
  BY DEF IndInv, MigrateInv
<1>2. /\ done[i] # 0 /\ done[i] = current[i] /\ wrote[i] \in {0, done[i]}
      /\ 1..(done[i] - 1) \subseteq schema \cup lost
  BY <1>1 DEF Passed, Holds
<1>3. done[i] \in Migration \ schema /\ \A j \in Instance \ {i} : done[j] = 0
  BY <1>1, <1>2 DEF IndInv, NothingTwice, TypeOK
<1>4. schema' = schema \cup {done[i]}
  BY DEF Commit
<1>5. 1..done[i] \subseteq schema' \cup lost
  BY <1>2, <1>3, <1>4 DEF Migration
<1>6. schema \subseteq Migration /\ 1..version \subseteq schema \cup lost
  BY <1>1 DEF TypeOK, IndInv, VersionIsSchema
<1>7. 1..version' \subseteq schema' \cup lost
  <2>1. CASE wrote[i] = 0
    BY <1>4, <1>6, <2>1 DEF Commit
  <2>2. CASE wrote[i] = done[i]
    BY <1>2, <1>5, <2>2 DEF Commit
  <2>3. QED
    BY <1>2, <2>1, <2>2
<1>8. ASSUME lost = {} PROVE schema' \subseteq 1..version' \cup unrecorded'
  <2>1. CASE wrote[i] = 0
    <3>1. version' = version /\ unrecorded' = unrecorded \cup {done[i]}
      BY <1>2, <2>1 DEF Commit
    <3>2. schema \subseteq 1..version \cup unrecorded
      BY <1>8 DEF IndInv, VersionIsSchema
    <3>3. QED
      BY <1>4, <3>1, <3>2
  <2>2. CASE wrote[i] = done[i]
    <3>1. version' = done[i]
      BY <1>2, <2>2 DEF Commit
    <3>2. ASSUME NEW n \in schema PROVE n \in 1..done[i]
      <4>1. n \in 1..4 /\ 1..n \subseteq schema
        BY <1>6, <1>8 DEF IndInv, MigrateInv, InOrder, Migration
      <4>2. ~(done[i] <= n)
        BY <1>3, <4>1 DEF Migration
      <4>3. QED
        BY <1>3, <4>1, <4>2 DEF Migration
    <3>3. QED
      BY <1>3, <1>4, <3>1, <3>2 DEF Migration
  <2>3. QED
    BY <1>2, <2>1, <2>2
<1>9. QED
  BY <1>2, <1>3, <1>4, <1>5, <1>7, <1>8

LEMMA AfterCommit ==
  ASSUME IndInv, TypeOK', NEW i \in Instance,
         txn[i] = "open", pc[i] = "end", Commit(i), UNCHANGED lost,
         \A j \in Instance \ {i} : Same(j),
         done'[i] = 0, Passed(i)', Holds(i)',
         pc'[i] = "ok" => 1..NMigrations[i] \subseteq schema' \cup lost'
  PROVE  IndInv'
<1>1. /\ schema' = schema \cup {done[i]}
      /\ \A j \in Instance \ {i} : done[j] = 0
      /\ 1..version' \subseteq schema' \cup lost
      /\ lost = {} => 1..done[i] \subseteq schema'
      /\ lost = {} => schema' \subseteq 1..version' \cup unrecorded'
  BY CommitStep
<1>2. VersionIsSchema'
  BY <1>1 DEF VersionIsSchema
<1>3. NothingTwice'
  BY <1>1 DEF NothingTwice, Same
<1>4. (lost = {} => InOrder)'
  <2>1. lost = {} => InOrder
    BY DEF IndInv, MigrateInv
  <2>2. QED
    BY <1>1, <2>1 DEF InOrder
<1>5. schema \subseteq schema' /\ lost \subseteq lost'
  BY <1>1
<1>6. QED
  BY <1>2, <1>3, <1>4, <1>5, OthersKeep

LEMMA MigrateStep ==
  ASSUME IndInv, [Next]_vars
  PROVE  IndInv'
<1>1. /\ TypeOK /\ TypeOK'
      /\ \A i \in Instance : Passed(i) /\ Holds(i) /\ NMigrations[i] \in 1..4
  BY TypeStep, MigrateAssumption DEF IndInv, MigrateInv, Migration
<1> USE <1>1
<1> USE DEF Rollback, Go, dbVars, txnVars, Same
<1>2. ASSUME NEW i \in Instance, Start(i) PROVE IndInv'
  <2>1. pc[i] = "off" /\ pc'[i] = "exists" /\ UNCHANGED <<dbVars, txnVars, lost>>
    BY <1>2 DEF Start, TypeOK
  <2>2. Passed(i)' /\ Holds(i)' /\ done'[i] = 0
    BY <2>1 DEF Passed, Holds
  <2>3. \A j \in Instance \ {i} : Same(j)
    BY <1>2 DEF Start, TypeOK
  <2>4. QED
    BY <2>1, <2>2, <2>3, LocalStep
<1>3. ASSUME NEW i \in Instance, StatementFails(i) \/ Crash(i) \/ BodyFails(i)
      PROVE  IndInv'
  <2>1. pc'[i] \in {"off", "failed"} /\ done'[i] = 0 /\ wrote'[i] = 0
    BY <1>3 DEF StatementFails, Crash, BodyFails, TypeOK
  <2>2. Passed(i)' /\ Holds(i)'
    BY <2>1 DEF Passed, Holds
  <2>3. \A j \in Instance \ {i} : Same(j)
    BY <1>3 DEF StatementFails, Crash, BodyFails, TypeOK
  <2>4. UNCHANGED dbVars /\ UNCHANGED lost
    BY <1>3 DEF StatementFails, Crash, BodyFails
  <2>5. QED
    BY <2>1, <2>2, <2>3, <2>4, LocalStep
<1>4. ASSUME NEW i \in Instance, ReadExists(i) \/ ReadValue(i) PROVE IndInv'
  <2>1. /\ pc[i] \in {"exists", "value"} /\ UNCHANGED <<dbVars, txnVars, lost>>
        /\ version + 1 \in 1..5
    BY <1>4 DEF ReadExists, ReadValue, TypeOK, Migration
  <2>2. CASE pc'[i] = "value" /\ \A j \in Instance \ {i} : Same(j)
    <3>1. Passed(i)' /\ Holds(i)' /\ done'[i] = 0
      BY <2>1, <2>2 DEF Passed, Holds
    <3>2. QED
      BY <2>1, <2>2, <3>1, LocalStep
  <2>3. ASSUME NEW v \in 1..5, LoopHead(i, v), 1..(v - 1) \subseteq schema \cup lost
        PROVE  IndInv'
    <3>1. /\ current'[i] = v
          /\ pc'[i] = IF v <= NMigrations[i] THEN "begin" ELSE "ok"
          /\ \A j \in Instance \ {i} : Same(j)
      BY <2>1, <2>3, LoopHeadType
    <3>2. Passed(i)'
      BY <2>1, <2>3, <3>1 DEF Passed
    <3>3. Holds(i)' /\ done'[i] = 0
      BY <2>1, <3>1 DEF Holds
    <3>4. pc'[i] = "ok" => 1..NMigrations[i] \subseteq schema \cup lost'
      BY <2>1, <2>3, <3>1
    <3>5. QED
      BY <2>1, <3>1, <3>2, <3>3, <3>4, LocalStep
  <2>4. CASE ReadValue(i)
    <3>1. 1..version \subseteq schema \cup lost /\ (version + 1) - 1 = version
      BY <2>1 DEF IndInv, VersionIsSchema, TypeOK, Migration
    <3>2. QED
      BY <2>1, <2>3, <2>4, <3>1 DEF ReadValue
  <2>5. CASE ReadExists(i) /\ 1 \in schema
    BY <2>2, <2>5 DEF ReadExists, TypeOK
  <2>6. CASE ReadExists(i) /\ 1 \notin schema
    BY <2>3, <2>6 DEF ReadExists
  <2>7. QED
    BY <1>4, <2>4, <2>5, <2>6
<1>5. ASSUME NEW i \in Instance, Begin(i) PROVE IndInv'
  <2>1. /\ pc[i] = "begin" /\ pc'[i] = "body" /\ txn'[i] = "open"
        /\ UNCHANGED <<dbVars, current, done, wrote, lost>>
        /\ \A j \in Instance \ {i} : Same(j)
    BY <1>5 DEF Begin, TypeOK
  <2>2. Passed(i)' /\ Holds(i)' /\ done'[i] = 0
    BY <2>1 DEF Passed, Holds
  <2>3. QED
    BY <2>1, <2>2, LocalStep
<1>6. ASSUME NEW i \in Instance, Body(i) PROVE IndInv'
  <2>1. /\ pc[i] = "body" /\ pc'[i] = "update" /\ done'[i] = current[i]
        /\ UNCHANGED <<dbVars, current, txn, lost>>
        /\ wrote'[i] = IF current[i] = 1 THEN 1 ELSE 0
        /\ Needs(current[i]) \subseteq schema /\ current[i] \notin schema
        /\ \A j \in Instance \ {i} : Same(j)
    BY <1>6 DEF Body, Works, TypeOK
  <2>2. current[i] \in Migration /\ current[i] # 0
    BY <2>1 DEF Passed, TypeOK, Migration
  <2>3. txn[i] = "open"
    BY <2>1 DEF IndInv, MigrateInv, Holds
  <2>4. Passed(i)' /\ Holds(i)'
    BY <2>1, <2>2, <2>3 DEF Passed, Holds, Needs
  <2>5. ASSUME NEW j \in Instance \ {i}, done[j] # 0 PROVE FALSE
    <3>1. /\ done[j] \in Migration \ schema /\ Needs(done[j]) \subseteq schema
      BY <2>5 DEF IndInv, NothingTwice, Holds, TypeOK
    <3>2. done[j] # current[i] /\ ~({done[j], current[i]} \subseteq {3, 4})
      BY <1>6, <2>5 DEF Body, Locked
    <3>3. done[j] \in Needs(current[i]) \/ current[i] \in Needs(done[j])
      BY <2>2, <3>1, <3>2 DEF Needs, Migration
    <3>4. QED
      BY <2>1, <3>1, <3>3
  <2>6. QED
    BY <2>1, <2>4, <2>5, LocalStep
<1>7. ASSUME NEW i \in Instance, UpdateVersion(i) PROVE IndInv'
  <2>1. /\ pc[i] = "update" /\ pc'[i] = "end"
        /\ UNCHANGED <<dbVars, current, lost>>
        /\ \A j \in Instance \ {i} : Same(j)
    BY <1>7 DEF UpdateVersion, TypeOK
  <2>2. /\ done[i] # 0 /\ txn[i] = "open" /\ done[i] = current[i]
        /\ wrote[i] \in {0, done[i]} /\ Needs(done[i]) \subseteq schema
    BY <2>1 DEF Holds
  <2>3. done[i] \notin schema /\ \A j \in Instance \ {i} : done[j] = 0
    BY <2>2 DEF IndInv, NothingTwice
  <2>4. Passed(i)'
    BY <2>1 DEF Passed
  <2>5. Holds(i)' /\ done'[i] \in {0, done[i]}
    <3>1. CASE /\ txn' = [txn EXCEPT ![i] = "aborted"]
               /\ done' = [done EXCEPT ![i] = 0]
               /\ wrote' = [wrote EXCEPT ![i] = 0]
      BY <2>1, <3>1 DEF Holds, TypeOK
    <3>2. CASE UNCHANGED <<txn, done>> /\ wrote'[i] \in {0, done[i]}
      BY <2>1, <2>2, <3>2 DEF Holds, Needs
    <3>3. QED
      BY <1>7, <2>2, <3>1, <3>2 DEF UpdateVersion, TypeOK
  <2>6. QED
    BY <2>1, <2>3, <2>4, <2>5, LocalStep
<1>8. ASSUME NEW i \in Instance, End(i) PROVE IndInv'
  <2>1. /\ pc[i] = "end" /\ current[i] # 0 /\ current[i] + 1 \in 1..5
        /\ 1..(current[i] - 1) \subseteq schema \cup lost
        /\ current[i] \in 1..4
    BY <1>8 DEF End, Passed, TypeOK
  <2>2. /\ current'[i] = current[i] + 1
        /\ pc'[i] = IF current[i] + 1 <= NMigrations[i] THEN "begin" ELSE "ok"
        /\ \A j \in Instance \ {i} : pc'[j] = pc[j] /\ current'[j] = current[j]
    BY <1>8, <2>1, LoopHeadType DEF End
  <2>3. /\ done'[i] = 0 /\ wrote'[i] = 0
        /\ \A j \in Instance \ {i} : Same(j)
    BY <1>8, <2>2 DEF End, TypeOK
  <2>4. Holds(i)'
    BY <2>2, <2>3 DEF Holds
  <2>5. ASSUME current[i] \in schema' \cup lost',
               schema \subseteq schema', lost \subseteq lost'
        PROVE  /\ Passed(i)'
               /\ pc'[i] = "ok" => 1..NMigrations[i] \subseteq schema' \cup lost'
    <3>1. 1..current[i] \subseteq schema' \cup lost'
      BY <2>1, <2>5
    <3>2. (current[i] + 1) - 1 = current[i]
      BY <2>1
    <3>3. pc'[i] = "ok" => NMigrations[i] <= current[i]
      BY <2>1, <2>2
    <3>4. QED
      BY <2>1, <2>2, <3>1, <3>2, <3>3 DEF Passed
  <2>6. CASE txn[i] = "open" /\ Commit(i) /\ UNCHANGED lost
    <3>1. done[i] = current[i] /\ schema' = schema \cup {done[i]}
      BY <2>1, <2>6, CommitStep
    <3>2. QED
      BY <2>1, <2>3, <2>4, <2>5, <2>6, <3>1, AfterCommit
  <2>7. CASE lost' = lost \cup {current[i]} /\ UNCHANGED dbVars
    BY <2>3, <2>4, <2>5, <2>7, LocalStep
  <2>8. QED
    BY <1>8, <2>6, <2>7 DEF End
<1>9. ASSUME NEW i \in Instance, EndFails(i) PROVE IndInv'
  <2>1. /\ pc[i] = "end" /\ pc'[i] = "failed" /\ done'[i] = 0 /\ wrote'[i] = 0
        /\ UNCHANGED lost /\ \A j \in Instance \ {i} : Same(j)
    BY <1>9 DEF EndFails, TypeOK
  <2>2. Passed(i)' /\ Holds(i)'
    BY <2>1 DEF Passed, Holds
  <2>3. CASE UNCHANGED dbVars
    BY <2>1, <2>2, <2>3, LocalStep
  <2>4. CASE txn[i] = "open" /\ Commit(i)
    BY <2>1, <2>2, <2>4, AfterCommit
  <2>5. QED
    BY <1>9, <2>3, <2>4 DEF EndFails
<1>10. CASE UNCHANGED vars
  BY <1>10 DEF vars, IndInv, MigrateInv, VersionIsSchema, OkIsCurrent,
               NothingTwice, InOrder, Passed, Holds
<1>11. QED
  BY <1>2, <1>3, <1>4, <1>5, <1>6, <1>7, <1>8, <1>9, <1>10 DEF Next, Step

-----------------------------------------------------------------------------
(* Theorems of the specification.                                          *)

LEMMA AlwaysIndInv == Spec => []IndInv
<1>1. Init => IndInv
  BY InitMigrate
<1>2. IndInv /\ [Next]_vars => IndInv'
  BY MigrateStep
<1>3. QED
  BY <1>1, <1>2, PTL DEF Spec

(* An instance has applied, or lost, every migration below its current     *)
(* one, and its transaction holds that migration or nothing                *)
(* (database/migrate.c:74-149).                                            *)
THEOREM Invariant == Spec => []MigrateInv
BY AlwaysIndInv, PTL DEF IndInv

(* The number that get_schema_version reads (database/migrate.c:59-70)     *)
(* covers nothing but migrations that are in the schema or were rolled     *)
(* back while the program went on, and leaves out only what was committed  *)
(* without its UPDATE, for any number of instances that start, fail and    *)
(* crash on one database.                                                  *)
THEOREM VersionCovers == Spec => []VersionIsSchema
BY AlwaysIndInv, PTL DEF IndInv

(* An instance whose reachard_db_migrate returned 0 (migrate.c:148) runs   *)
(* on a schema that has every migration of its build, but for those whose  *)
(* rollback some instance has overlooked (migrate.c:107-118).              *)
THEOREM SuccessIsCurrent == Spec => []OkIsCurrent
BY AlwaysIndInv, PTL DEF IndInv

(* No migration is run on a schema that has it or beside another one that  *)
(* is not committed yet (migrate.c:92-98): what the batches need and touch *)
(* keeps the instances apart.                                              *)
THEOREM NoneTwice == Spec => []NothingTwice
BY AlwaysIndInv, PTL DEF IndInv

(* Whoever commits, the schema gains one migration, and until one is lost  *)
(* it is the next one.                                                     *)
THEOREM ForwardByOne == Spec => OneAtATime
<1>1. IndInv /\ [Next]_vars =>
        [\E n \in Migration \ schema :
           schema' = schema \cup {n}
           /\ (lost = {} => 1..(n - 1) \subseteq schema)]_schema
  <2> SUFFICES ASSUME IndInv, [Next]_vars, schema' # schema
               PROVE  \E n \in Migration \ schema :
                        schema' = schema \cup {n}
                        /\ (lost = {} => 1..(n - 1) \subseteq schema)
    OBVIOUS
  <2>1. PICK i \in Instance : End(i) \/ EndFails(i)
    BY DEF Next, Step, vars, dbVars, Start, StatementFails, ReadExists,
           ReadValue, Begin, Body, BodyFails, UpdateVersion, Crash
  <2>2. Commit(i) /\ pc[i] = "end" /\ txn[i] = "open"
    BY <2>1 DEF End, EndFails, dbVars, Go
  <2>3. /\ done[i] \in Migration \ schema /\ schema' = schema \cup {done[i]}
        /\ 1..(done[i] - 1) \subseteq schema \cup lost
    BY <2>2, CommitStep
  <2>4. QED
    BY <2>3
<1>2. QED
  BY <1>1, AlwaysIndInv, PTL DEF Spec, OneAtATime

=============================================================================
