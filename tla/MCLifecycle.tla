---------------------------- MODULE MCLifecycle ----------------------------
(* Instances of Lifecycle for TLC. *)
EXTENDS Lifecycle

CONSTANTS r1, r2, o1   \* timers that repeat and one that rings once

TheRecurring == {r1, r2}
TheOnce == {o1}

=============================================================================
