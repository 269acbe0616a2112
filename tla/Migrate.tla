------------------------------ MODULE Migrate ------------------------------
(***************************************************************************)
(* The schema migrations of src/database/migrate.c, run by every instance  *)
(* of reachard that starts on a database, possibly by several at once.     *)
(*                                                                         *)
(* The schema is the set of the migrations that are in it; the program     *)
(* only knows the number that the table `version` holds.  A migration is a *)
(* batch of DDL statements: it works where what it needs is there and what *)
(* it creates is not, and waits for an uncommitted transaction that holds  *)
(* what it touches.  An instance can die between any two statements; its   *)
(* transaction is then rolled back by the server.                          *)
(***************************************************************************)
EXTENDS Integers

CONSTANTS Instance,        \* the processes that are started on the database
          NMigrations,     \* NMigrations[i]: n_migrations of i's build
          MaxMishaps       \* bound: deaths of instances, and statements that
                           \* fail for no reason of the schema

Migration == 1..4

ASSUME MigrateAssumption ==
  /\ NMigrations \in [Instance -> Migration]
  /\ MaxMishaps \in Nat

VARIABLES schema,     \* migrations in the committed schema
          version,    \* the committed value in `version`, 0 without the table
          pc,         \* where instance i is
          current,    \* the loop variable of reachard_db_migrate
          txn,        \* "none", "open" or "aborted" on i's connection
          done,       \* migration that i's open transaction has run, or 0
          wrote,      \* value that it has given to `version`, or 0
          lost,       \* migrations that an instance has gone on from although
                      \* the server had rolled them back
          unrecorded, \* migrations committed without their number
          mishaps     \* deaths and failures so far

dbVars == <<schema, version, unrecorded>>
txnVars == <<txn, done, wrote>>
vars == <<dbVars, pc, current, txnVars, lost, mishaps>>

PC == {"off", "exists", "value", "begin", "body", "update", "end", "ok", "failed"}

TypeOK ==
  /\ schema \subseteq Migration /\ unrecorded \subseteq Migration
  /\ lost \subseteq Migration
  /\ version \in {0} \cup Migration
  /\ pc \in [Instance -> PC]
  /\ current \in [Instance -> 0..5]
  /\ txn \in [Instance -> {"none", "open", "aborted"}]
  /\ done \in [Instance -> {0} \cup Migration]
  /\ wrote \in [Instance -> {0} \cup Migration]
  /\ mishaps \in 0..MaxMishaps

(* The database may be new or have been migrated by an earlier build. *)
Init ==
  /\ version \in {0} \cup {NMigrations[i] : i \in Instance}
  /\ schema = 1..version
  /\ pc = [i \in Instance |-> "off"]
  /\ current = [i \in Instance |-> 0]
  /\ txn = [i \in Instance |-> "none"]
  /\ done = [i \in Instance |-> 0]
  /\ wrote = [i \in Instance |-> 0]
  /\ lost = {} /\ unrecorded = {}
  /\ mishaps = 0

Mishap == mishaps < MaxMishaps /\ mishaps' = mishaps + 1

Go(i, here, there) == pc[i] = here /\ pc' = [pc EXCEPT ![i] = there]

(* The connection is closed, which rolls back what is uncommitted. *)
Rollback(i) ==
  /\ txn' = [txn EXCEPT ![i] = "none"]
  /\ done' = [done EXCEPT ![i] = 0]
  /\ wrote' = [wrote EXCEPT ![i] = 0]

Start(i) ==
  /\ Go(i, "off", "exists")
  /\ UNCHANGED <<dbVars, current, txnVars, lost, mishaps>>

(* A statement that fails where the code looks at its result: main gives   *)
(* up and closes the connection.                                           *)
StatementFails(i) ==
  /\ Mishap
  /\ pc[i] \in {"exists", "value", "begin", "body"}
  /\ pc' = [pc EXCEPT ![i] = "failed"]
  /\ Rollback(i)
  /\ UNCHANGED <<dbVars, current, lost>>

(* A loop that leaves the last migration out. *)
LoopStopsShort(i, v) ==
  /\ current' = [current EXCEPT ![i] = v]
  /\ pc' = [pc EXCEPT ![i] = IF v < NMigrations[i] THEN "begin" ELSE "ok"]

(* The head of the loop in reachard_db_migrate. *)
LoopHead(i, v) ==
  /\ current' = [current EXCEPT ![i] = v]
  /\ pc' = [pc EXCEPT ![i] = IF v <= NMigrations[i] THEN "begin" ELSE "ok"]

(* reachard_db_get_schema_version: is there a table `version`? *)
ReadExists(i) ==
  /\ pc[i] = "exists"
  /\ IF 1 \in schema
     THEN pc' = [pc EXCEPT ![i] = "value"] /\ UNCHANGED current
     ELSE LoopHead(i, 1)
  /\ UNCHANGED <<dbVars, txnVars, lost, mishaps>>

ReadValueAsNext(i) ==
  /\ pc[i] = "value"
  /\ LoopHead(i, version)
  /\ UNCHANGED <<dbVars, txnVars, lost, mishaps>>

ReadValue(i) ==
  /\ pc[i] = "value"
  /\ LoopHead(i, version + 1)
  /\ UNCHANGED <<dbVars, txnVars, lost, mishaps>>

(* A migration that is run without a transaction around it. *)
BeginNothing(i) ==
  /\ Go(i, "begin", "body")
  /\ UNCHANGED <<dbVars, current, txnVars, lost, mishaps>>

Begin(i) ==
  /\ Go(i, "begin", "body")
  /\ txn' = [txn EXCEPT ![i] = "open"]
  /\ UNCHANGED <<dbVars, current, done, wrote, lost, mishaps>>

(* What a migration finds in the schema: 2 creates a table in the schema   *)
(* that 1 creates, 3 and 4 alter that table, each on its own.              *)
Needs(n) == {m \in {1, 2} : m < n}

Works(n) == Needs(n) \subseteq schema /\ n \notin schema

(* An uncommitted transaction of another instance holds what i's migration *)
(* touches: it has created the same things, or altered the same table.     *)
Locked(i) ==
  \E j \in Instance \ {i} :
    /\ done[j] # 0
    /\ done[j] = current[i] \/ {done[j], current[i]} \subseteq {3, 4}

(* Statements that put up with a schema that has the change already. *)
BodyIfNotExists(i) ==
  /\ ~Locked(i)
  /\ Needs(current[i]) \subseteq schema
  /\ Go(i, "body", "update")
  /\ done' = [done EXCEPT ![i] = current[i]]
  /\ wrote' = [wrote EXCEPT ![i] = IF current[i] = 1 THEN 1 ELSE 0]
  /\ UNCHANGED <<dbVars, current, txn, lost, mishaps>>

(* The batch of statements.  Migration 1 also inserts the version.         *)
Body(i) ==
  /\ ~Locked(i)
  /\ Works(current[i])
  /\ Go(i, "body", "update")
  /\ done' = [done EXCEPT ![i] = current[i]]
  /\ wrote' = [wrote EXCEPT ![i] = IF current[i] = 1 THEN 1 ELSE 0]
  /\ UNCHANGED <<dbVars, current, txn, lost, mishaps>>

(* What it needs is missing, or what it creates is there: an error. *)
BodyFails(i) ==
  /\ ~Locked(i)
  /\ ~Works(current[i])
  /\ Go(i, "body", "failed")
  /\ Rollback(i)
  /\ UNCHANGED <<dbVars, current, lost, mishaps>>

(* The number of the build in place of the number of the migration. *)
UpdateVersionToLatest(i) ==
  /\ Go(i, "update", "end")
  /\ wrote' = [wrote EXCEPT ![i] = NMigrations[i]]
  /\ UNCHANGED <<dbVars, current, txn, done, lost, mishaps>>

(* UPDATE version.  Nobody looks at the result.  If it fails in the        *)
(* server, the transaction is undone and stays open in name; if it fails   *)
(* in the client and nothing is sent, the transaction goes on without it.  *)
UpdateVersion(i) ==
  /\ Go(i, "update", "end")
  /\ \/ /\ wrote' = [wrote EXCEPT ![i] = current[i]]
        /\ UNCHANGED <<txn, done, mishaps>>
     \/ /\ Mishap
        /\ txn' = [txn EXCEPT ![i] = "aborted"]
        /\ done' = [done EXCEPT ![i] = 0]
        /\ wrote' = [wrote EXCEPT ![i] = 0]
     \/ /\ Mishap
        /\ UNCHANGED txnVars
  /\ UNCHANGED <<dbVars, current, lost>>

Commit(i) ==
  /\ schema' = schema \cup {done[i]}
  /\ version' = IF wrote[i] # 0 THEN wrote[i] ELSE version
  /\ unrecorded' = IF wrote[i] = done[i] THEN unrecorded
                   ELSE unrecorded \cup {done[i]}

(* END commits an open transaction.  On an aborted one it is a ROLLBACK,   *)
(* and PostgreSQL answers PGRES_COMMAND_OK all the same.                   *)
End(i) ==
  /\ pc[i] = "end"
  /\ \/ txn[i] = "open" /\ Commit(i) /\ UNCHANGED lost
     \/ txn[i] = "aborted" /\ lost' = lost \cup {current[i]} /\ UNCHANGED dbVars
  /\ Rollback(i)
  /\ LoopHead(i, current[i] + 1)
  /\ UNCHANGED mishaps

(* An END that fails and does not end the migration. *)
EndFailsAndGoesOn(i) ==
  /\ Mishap
  /\ pc[i] = "end"
  /\ \/ txn[i] = "open" /\ Commit(i)
     \/ UNCHANGED dbVars
  /\ Rollback(i)
  /\ LoopHead(i, current[i] + 1)
  /\ UNCHANGED lost

(* The answer to END is lost: the transaction is committed or it is not.   *)
EndFails(i) ==
  /\ Mishap
  /\ Go(i, "end", "failed")
  /\ \/ txn[i] = "open" /\ Commit(i)
     \/ UNCHANGED dbVars
  /\ Rollback(i)
  /\ UNCHANGED <<current, lost>>

(* The instance dies, or it is started again after it gave up. *)
Crash(i) ==
  /\ pc[i] # "off"
  /\ Mishap
  /\ pc' = [pc EXCEPT ![i] = "off"]
  /\ Rollback(i)
  /\ UNCHANGED <<dbVars, current, lost>>

Step(i) ==
  \/ Start(i) \/ ReadExists(i) \/ ReadValue(i) \/ Begin(i) \/ Body(i)
  \/ BodyFails(i) \/ UpdateVersion(i) \/ End(i)

Next == \E i \in Instance :
  Step(i) \/ StatementFails(i) \/ EndFails(i) \/ Crash(i)

Spec == Init /\ [][Next]_vars

(* An instance that can issue its next statement does. *)
FairSpec == Spec /\ \A i \in Instance : WF_vars(Step(i))

-----------------------------------------------------------------------------
(* Properties.                                                             *)

(* The version that the next instance will trust: every migration up to it *)
(* is in the schema, but for those that were rolled back while the program *)
(* went on; and where that has not happened, nothing beyond it is, but for *)
(* the migrations whose UPDATE was never sent.                             *)
VersionIsSchema ==
  /\ 1..version \subseteq schema \cup lost
  /\ lost = {} => schema \subseteq 1..version \cup unrecorded

(* An instance that reports success finds every migration of its build in  *)
(* the schema, but for those that an instance, this one or an earlier one, *)
(* went on from after they were rolled back.                               *)
OkIsCurrent ==
  \A i \in Instance : pc[i] = "ok" => 1..NMigrations[i] \subseteq schema \cup lost

(* No migration is run on a schema that has it, and no two transactions    *)
(* have uncommitted migrations, however many instances race.               *)
NothingTwice ==
  \A i \in Instance : done[i] # 0 =>
    done[i] \notin schema /\ \A j \in Instance \ {i} : done[j] = 0

(* The schema only moves forward, one migration at a time, and in order as *)
(* long as none has been lost.                                             *)
OneAtATime ==
  [][\E n \in Migration \ schema :
       schema' = schema \cup {n} /\ (lost = {} => 1..(n - 1) \subseteq schema)]_schema

(* A migration that is not applied ends the loop ("failed to apply         *)
(* migration to version %d", migrate.c:137-141), so none is in the schema  *)
(* without those before it.                                                *)
InOrder == \A n \in schema : 1..n \subseteq schema

(* Instances that start at the same time may trip each other up, but not   *)
(* all of them: if nothing else goes wrong, one gets through.              *)
SomeoneGetsThrough == <>(mishaps > 0 \/ \E i \in Instance : pc[i] = "ok")

(* What makes these inductive.  Instance i has everything below its        *)
(* current migration behind it, ...                                        *)
Passed(i) ==
  /\ pc[i] \in {"begin", "body", "update", "end", "ok"} =>
       /\ current[i] # 0
       /\ 1..(current[i] - 1) \subseteq schema \cup lost
  /\ pc[i] \in {"begin", "body", "update", "end"} => current[i] <= NMigrations[i]

(* ... and what its transaction holds is that migration, or nothing: it    *)
(* has not run yet, or the server has undone it.                           *)
Holds(i) ==
  IF done[i] # 0
  THEN /\ pc[i] \in {"update", "end"} /\ txn[i] = "open"
       /\ done[i] = current[i] /\ wrote[i] \in {0, done[i]}
       /\ Needs(done[i]) \subseteq schema
  ELSE /\ wrote[i] = 0 /\ pc[i] # "update"
       /\ pc[i] = "body" => txn[i] = "open"
       /\ pc[i] = "end" => txn[i] = "aborted"

MigrateInv ==
  /\ TypeOK
  /\ lost = {} => InOrder
  /\ \A i \in Instance : Passed(i) /\ Holds(i)

=============================================================================
