-------------------------- MODULE GeneratorProofs --------------------------
(* Proofs about Generator, for any directory.                              *)
EXTENDS Generator, FiniteSetTheorems, TLAPS

LEMMA Finite ==
  ASSUME GeneratorInv
  PROVE  /\ IsFiniteSet(Migrations)
         /\ IsFiniteSet(Migrations \ left)
         /\ n_migrations \in Nat
<1>1. Migrations \subseteq Entry
  BY DEF GeneratorInv, Migrations
<1>2. IsFiniteSet(Migrations) /\ IsFiniteSet(Migrations \ left)
  BY <1>1, FS_Subset, GeneratorAssumption
<1> QED
  BY <1>2, FS_CardinalityType DEF GeneratorInv

LEMMA InitInv == Init => GeneratorInv
<1> SUFFICES ASSUME Init PROVE GeneratorInv
  OBVIOUS
<1>1. Migrations \ left = {}
  BY DEF Init, Migrations
<1>2. Cardinality({}) = 0
  BY FS_EmptySet
<1> QED
  BY <1>1, <1>2 DEF Init, GeneratorInv

(* One entry more is read: it is defined and counted if it is a migration. *)
LEMMA ReadStep ==
  ASSUME GeneratorInv, NEW e \in left, Read(e)
  PROVE  GeneratorInv'
<1>1. /\ pc' = pc /\ dir' = dir /\ left' = left \ {e} /\ listed' = listed
      /\ Migrations' = Migrations
  BY DEF Read, Migrations
<1>2. result' # 0
  BY DEF Read, GeneratorInv
<1>3. CASE Migration(e)
  <2>1. e \in Migrations /\ e \notin Migrations \ left
    BY <1>3 DEF GeneratorInv, Migrations
  <2>2. (Migrations \ left)' = (Migrations \ left) \cup {e}
    BY <1>1, <2>1
  <2>3. definitions' = {Definition(d) : d \in (Migrations \ left)'}
    BY <1>3, <2>2 DEF Read, GeneratorInv
  <2>4. Cardinality((Migrations \ left) \cup {e}) = Cardinality(Migrations \ left) + 1
    BY <2>1, Finite, FS_AddElement
  <2>5. n_migrations' = Cardinality((Migrations \ left)')
    BY <1>3, <2>2, <2>4 DEF Read, GeneratorInv
  <2> QED
    BY <1>1, <1>2, <2>3, <2>5 DEF GeneratorInv, Definition
<1>4. CASE ~Migration(e)
  <2>1. (Migrations \ left)' = Migrations \ left
    BY <1>1, <1>4 DEF Migrations
  <2>2. UNCHANGED <<definitions, n_migrations>>
    BY <1>4 DEF Read
  <2> QED
    BY <1>1, <1>2, <2>1, <2>2 DEF GeneratorInv, Definition
<1> QED
  BY <1>3, <1>4

LEMMA InvStep == GeneratorInv /\ [Next]_vars => GeneratorInv'
<1> SUFFICES ASSUME GeneratorInv, [Next]_vars PROVE GeneratorInv'
  OBVIOUS
<1>1. CASE Opened \/ OpenFails \/ UNCHANGED vars
  BY <1>1 DEF Opened, OpenFails, vars, headerVars, GeneratorInv, Migrations, Definition
<1>2. ASSUME NEW e \in left, Read(e) PROVE GeneratorInv'
  BY <1>2, ReadStep
<1>3. CASE WriteTable
  BY <1>3 DEF WriteTable, GeneratorInv, Migrations, Definition
<1> QED
  BY <1>1, <1>2, <1>3 DEF Next

(* What is read is what the header has: the inductive invariant.           *)
THEOREM Invariant == Spec => []GeneratorInv
<1> QED
  BY InitInv, InvStep, PTL DEF Spec

-----------------------------------------------------------------------------
(* The header when it is finished: definitions and table, in terms of the  *)
(* directory.                                                              *)
LEMMA Finished ==
  ASSUME GeneratorInv, result = 0
  PROVE  /\ definitions = {Definition(e) : e \in Migrations}
         /\ listed = 1..n_migrations
         /\ n_migrations = Cardinality(Migrations)
         /\ n_migrations \in Nat
BY Finite DEF GeneratorInv

(* The numbers of the migrations, as a function onto the names.            *)
Numbering == [e \in Migrations |-> Number(e)]

LEMMA NumberingOnto == Numbering \in Surjection(Migrations, Names)
BY DEF Numbering, Names, Surjection

LEMMA OneToOne ==
  Numbering \in Injection(Migrations, Names) <=>
    \A d, e \in Migrations : Number(d) = Number(e) => d = e
BY DEF Numbering, Names, Injection, IsInjective

LEMMA CompleteStep == GeneratorInv => CompleteIfCompiles
<1> SUFFICES ASSUME GeneratorInv, Compiles
             PROVE  /\ Names = 1..n_migrations
                    /\ listed = Names
                    /\ \A d, e \in Migrations : Number(d) = Number(e) => d = e
  BY DEF CompleteIfCompiles
<1>1. result = 0
  BY DEF Compiles
<1>2. \A d, e \in Migrations : Number(d) = Number(e) => d = e
  <2> SUFFICES ASSUME NEW d \in Migrations, NEW e \in Migrations, Number(d) = Number(e)
               PROVE  d = e
    OBVIOUS
  <2>1. Definition(d) = Definition(e)
    BY <1>1, Finished DEF Compiles, Definition
  <2> QED
    BY <2>1 DEF Definition
<1>3. 1..n_migrations \subseteq Names
  BY <1>1, Finished DEF Compiles, Definition, Names
<1>4. IsFiniteSet(Names) /\ Cardinality(Names) = n_migrations
  BY <1>1, <1>2, Finished, Finite, NumberingOnto, OneToOne, FS_Surjection
<1>5. Cardinality(1..n_migrations) = n_migrations
  BY <1>1, Finished, FS_Interval
<1>6. Names = 1..n_migrations
  BY <1>3, <1>4, <1>5, FS_Subset
<1> QED
  BY <1>1, <1>2, <1>6, Finished

LEMMA NumberedStep == GeneratorInv => NumberedCompiles
<1> SUFFICES ASSUME GeneratorInv, result = 0, Names = 1..Cardinality(Migrations)
             PROVE  Compiles
  BY DEF NumberedCompiles
<1>1. Cardinality(Names) = Cardinality(Migrations)
  BY Finished, FS_Interval
<1>2. \A d, e \in Migrations : Number(d) = Number(e) => d = e
  BY <1>1, Finite, NumberingOnto, OneToOne, FS_Surjection
<1>3. \A d, e \in definitions : d.name = e.name => d = e
  BY <1>2, Finished DEF Definition
<1>4. \A i \in listed : \E d \in definitions : d.name = i
  <2> SUFFICES ASSUME NEW i \in listed PROVE \E d \in definitions : d.name = i
    OBVIOUS
  <2>1. PICK e \in Migrations : Number(e) = i
    BY Finished DEF Names
  <2>2. Definition(e) \in definitions /\ Definition(e).name = i
    BY <2>1, Finished DEF Definition
  <2> QED
    BY <2>2
<1> QED
  BY <1>3, <1>4 DEF Compiles

(* A header that compiles lists every migration of the directory at its    *)
(* number, and nothing else: for any directory and any order of reading.   *)
THEOREM Complete == Spec => []CompleteIfCompiles
<1> QED
  BY Invariant, CompleteStep, PTL

(* Migrations that are numbered from 1 on without a gap always make a      *)
(* header that compiles.                                                   *)
THEOREM Numbered == Spec => []NumberedCompiles
<1> QED
  BY Invariant, NumberedStep, PTL

=============================================================================
