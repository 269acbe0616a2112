---------------------------- MODULE TargetTable ----------------------------
(***************************************************************************)
(* The table `targets` and the statements reachard runs on it              *)
(* (src/database/targets.c, src/database/migrations).                      *)
(*                                                                         *)
(* PostgreSQL executes each statement atomically and every function of     *)
(* targets.c runs exactly one, so each is one action here.  `id` is a      *)
(* SERIAL column: the sequence behind it never hands out a number twice,   *)
(* and a failed INSERT still burns one.  `name` is never read back by the  *)
(* program's logic and is left out.                                        *)
(***************************************************************************)
EXTENDS Integers

CONSTANTS MaxId,     \* bound: the ids the sequence hands out are 1..MaxId
          Url,       \* values of the column `url`
          Interval,  \* values of the column `interval`
          NoRow,     \* stands for an id without a row
          Faults     \* whether statements and allocations may fail

Id == 1..MaxId

Row == [url : Url, interval : Interval, up : BOOLEAN]

ASSUME TableAssumption ==
  /\ MaxId \in Nat
  /\ Interval \subseteq Int
  /\ NoRow \notin Row
  /\ Faults \in BOOLEAN

VARIABLES rows,      \* rows[id]: the row with that id, or NoRow
          nextId     \* what the sequence hands out next

TableTypeOK ==
  /\ rows \in [Id -> Row \cup {NoRow}]
  /\ nextId \in 1..MaxId + 1

TableInit ==
  /\ rows = [id \in Id |-> NoRow]
  /\ nextId = 1

Exists(id) == rows[id] # NoRow

(* The parameters of an UPDATE reach the row only where the key matches: a *)
(* row deleted in the meantime is not re-created by a late UPDATE.         *)
Update(id, row) ==
  rows' = [rows EXCEPT ![id] = IF @ = NoRow THEN NoRow ELSE row]

-----------------------------------------------------------------------------

(* INSERT: `up` is left to its DEFAULT, true. *)
Add(u, i) ==
  /\ nextId \in Id
  /\ rows' = [rows EXCEPT ![nextId] = [url |-> u, interval |-> i, up |-> TRUE]]
  /\ nextId' = nextId + 1

(* An INSERT that is refused after its id was drawn from the sequence. *)
AddFails ==
  /\ Faults
  /\ nextId \in Id
  /\ nextId' = nextId + 1
  /\ UNCHANGED rows

(* DELETE ... WHERE id = $1; deleting no row is a success as well. *)
Delete(id) ==
  /\ rows' = [rows EXCEPT ![id] = NoRow]
  /\ UNCHANGED nextId

(* An interval that is stored in milliseconds. *)
PatchMillis(id, u, i) ==
  /\ Update(id, [rows[id] EXCEPT !.url = u, !.interval = i * 1000])
  /\ UNCHANGED nextId

(* A PATCH that sets `up` back to its default. *)
PatchRewritesUp(id, u, i) ==
  /\ Update(id, [url |-> u, interval |-> i, up |-> TRUE])
  /\ UNCHANGED nextId

(* UPDATE as PATCH issues it: any non-empty choice of the client-visible   *)
(* columns, never `up`.                                                    *)
Patch(id, u, i) ==
  /\ Update(id, [rows[id] EXCEPT !.url = u, !.interval = i])
  /\ UNCHANGED nextId

(* INSERT ... ON CONFLICT DO UPDATE. *)
SetUpUpsert(id, up) ==
  rows' = [rows EXCEPT ![id] =
    IF @ = NoRow
    THEN [url |-> CHOOSE u \in Url : TRUE, interval |-> 5, up |-> up]
    ELSE [rows[id] EXCEPT !.up = up]]

(* UPDATE of `up` alone, as the client thread issues it. *)
SetUp(id, up) == Update(id, [rows[id] EXCEPT !.up = up])

=============================================================================
