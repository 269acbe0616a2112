----------------------------- MODULE MCMigrate -----------------------------
(* Instances of Migrate for TLC. *)
EXTENDS Migrate

CONSTANTS old, new, new2   \* an instance of an old build, two of a new one

TwoBuilds == [i \in Instance |-> IF i = old THEN 3 ELSE 4]

OneBuild == [i \in Instance |-> 4]

=============================================================================
