----------------------------- MODULE Generator -----------------------------
(***************************************************************************)
(* The generator of database/migrations.h: generators/migrations.c.        *)
(*                                                                         *)
(* It reads the directory of the migrations once, in whatever order the    *)
(* file system has it, defines migration_<n> for each file that is called  *)
(* <n>.sql, counts these files, and then lists migration_1 up to the       *)
(* count, without looking at what it has defined.  Whether the list is     *)
(* right is left to the compiler, which refuses a name that is defined     *)
(* twice or not at all.                                                    *)
(*                                                                         *)
(* A name is a sequence of digits and what follows them.                   *)
(***************************************************************************)
EXTENDS Numbers

CONSTANTS Entry,    \* entries that the directory may have
          LongMax,  \* the greatest long
          Faults    \* whether the directory, the header or the pattern may fail

EntryType == [type : {"DT_REG", "DT_DIR"}, digits : Seq(0..Base - 1), rest : STRING]

ASSUME GeneratorAssumption ==
  /\ IsFiniteSet(Entry)
  /\ \A e \in Entry : e \in EntryType
  /\ LongMax \in Nat
  /\ Faults \in BOOLEAN

VARIABLES pc,            \* what main does next
          dir,           \* the entries of the directory
          left,          \* those that readdir has not returned yet
          definitions,   \* of the header: a name and what it embeds
          n_migrations,
          listed,        \* the names in the table of the header
          result

headerVars == <<definitions, listed>>
vars == <<pc, dir, left, headerVars, n_migrations, result>>

(* migration_%d, from what strtol returns, which is no more than LongMax,  *)
(* cut to an int.  A name without digits has the number 0.                 *)
Number(e) == Wrap(Min({Value(e.digits), LongMax}))

(* The pattern: digits, or none, and ".sql"; of regular files only. *)
Migration(e) == e.type = "DT_REG" /\ e.rest = ".sql"

Init ==
  /\ pc = "open"
  /\ dir \in SUBSET Entry
  /\ left = dir
  /\ definitions = {}
  /\ n_migrations = 0
  /\ listed = {}
  /\ result = 1

(* opendir, fopen, regcomp *)
Opened ==
  /\ pc = "open"
  /\ pc' = "read"
  /\ UNCHANGED <<dir, left, headerVars, n_migrations, result>>

OpenFails ==
  /\ Faults
  /\ pc = "open"
  /\ pc' = "end"
  /\ UNCHANGED <<dir, left, headerVars, n_migrations, result>>

Definition(e) == [name |-> Number(e), embeds |-> e]

(* A loop that counts what it reads instead of what it defines. *)
ReadCountsAll(e) ==
  /\ pc = "read"
  /\ left' = left \ {e}
  /\ definitions' = definitions \cup {Definition(d) : d \in {x \in {e} : Migration(x)}}
  /\ n_migrations' = n_migrations + 1
  /\ UNCHANGED <<pc, dir, listed, result>>

(* readdir returns e *)
Read(e) ==
  /\ pc = "read"
  /\ left' = left \ {e}
  /\ IF Migration(e)
     THEN /\ definitions' = definitions \cup {Definition(e)}
          /\ n_migrations' = n_migrations + 1
     ELSE UNCHANGED <<definitions, n_migrations>>
  /\ UNCHANGED <<pc, dir, listed, result>>

(* A table that lists i < n_migrations. *)
WriteTableShort ==
  /\ pc = "read"
  /\ left = {}
  /\ listed' = 1..n_migrations - 1
  /\ result' = 0
  /\ pc' = "end"
  /\ UNCHANGED <<dir, left, definitions, n_migrations>>

(* readdir returns no more: the table, [i] = migration_i for each i.       *)
WriteTable ==
  /\ pc = "read"
  /\ left = {}
  /\ listed' = 1..n_migrations
  /\ result' = 0
  /\ pc' = "end"
  /\ UNCHANGED <<dir, left, definitions, n_migrations>>

Next == Opened \/ OpenFails \/ (\E e \in left : Read(e)) \/ WriteTable

Spec == Init /\ [][Next]_vars

-----------------------------------------------------------------------------
(* Properties.                                                             *)

(* The compiler takes a header whose names are each defined once. *)
Compiles ==
  /\ result = 0
  /\ \A d, e \in definitions : d.name = e.name => d = e
  /\ \A i \in listed : \E d \in definitions : d.name = i

Migrations == {e \in dir : Migration(e)}

Names == {Number(e) : e \in Migrations}

(* What main has read is what the header has so far: a definition and a    *)
(* count for each migration.                                               *)
GeneratorInv ==
  /\ pc \in {"open", "read", "end"}
  /\ dir \subseteq Entry
  /\ left \subseteq dir
  /\ definitions = {Definition(e) : e \in Migrations \ left}
  /\ n_migrations = Cardinality(Migrations \ left)
  /\ result = 0 => left = {} /\ listed = 1..n_migrations

(* Whatever the directory holds and in whatever order it is read, a header *)
(* that compiles has every migration of the directory, each at the index   *)
(* that is its number, and n_migrations is the last of them: no gap, no    *)
(* duplicate and no leading zero gets past the compiler unnoticed.         *)
CompleteIfCompiles ==
  Compiles =>
    /\ Names = 1..n_migrations
    /\ listed = Names
    /\ \A d, e \in Migrations : Number(d) = Number(e) => d = e

(* The migrations are numbered from 1 on, without a gap, whatever else is  *)
(* in the directory: then the header compiles.                             *)
NumberedCompiles ==
  /\ result = 0
  /\ Names = 1..Cardinality(Migrations)
  => Compiles

=============================================================================
