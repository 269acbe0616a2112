----------------------------- MODULE MCWatcher -----------------------------
(* Instances of Watcher for TLC. *)
EXTENDS Watcher

(* A success, a redirect that is not followed, and a transfer that fails   *)
(* after a 2xx status line.                                                *)
Ok == [err |-> FALSE, status |-> 200]
Redirect == [err |-> FALSE, status |-> 301]
Broken == [err |-> TRUE, status |-> 200]

AllOutcomes == {Ok, Redirect, Broken}
TwoOutcomes == {Ok, Redirect}

=============================================================================
