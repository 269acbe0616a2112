---------------------------- MODULE UpdateQuery ----------------------------
(***************************************************************************)
(* The UPDATE that reachard_db_targets_update builds for any choice of     *)
(* columns (src/database/targets.c), and what PostgreSQL makes of it.      *)
(*                                                                         *)
(* A query is a sequence of tokens.  Each column is followed by a comma,   *)
(* and the last comma of the text is then overwritten with a space: by its *)
(* place, two characters before the end, not by looking at it.             *)
(***************************************************************************)
EXTENDS SequencesExt, Integers

UPDATE == <<"UPDATE">>
SET == <<"SET">>
COMMA == <<",">>

(* "UPDATE targets SET c1 = $1, c2 = $2, " *)
Clauses(columns) ==
  FlattenSeq([k \in 1..Len(columns) |-> <<<<columns[k], k>>, COMMA>>])

(* The character two before the end goes: the comma, or the T of SET. *)
Query(columns) ==
  LET text == <<UPDATE, SET>> \o Clauses(columns)
  IN IF Last(text) = COMMA THEN Front(text) ELSE Front(text) \o <<<<"SE">>>>

(* PostgreSQL accepts a list of assignments that commas separate, ...      *)
Accepted(query) ==
  /\ Len(query) > 2
  /\ query[2] = SET
  /\ \A k \in 3..Len(query) : (query[k] = COMMA) <=> (k % 2 = 0)
  /\ Last(query) # COMMA

(* ... and assigns parameter k to column c for each "c = $k".              *)
Assigns(query, c, k) == \E i \in 1..Len(query) : query[i] = <<c, k>>

=============================================================================
