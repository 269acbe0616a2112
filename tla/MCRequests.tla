----------------------------- MODULE MCRequests -----------------------------
(* Instances of Requests for TLC. *)
EXTENDS Requests

CONSTANTS c1, c2,   \* connections
          u1, u2    \* URLs, which are alike

Urls == Permutations({u1, u2})

(* No body, a body in one chunk, a body in two chunks of unequal length.   *)
(* What is unusual comes over c1 alone, and meets all else over c2.        *)
Chunkings == [c \in Conn |->
  IF c = c1 THEN {<<>>, <<2>>, <<1, 2>>} ELSE {<<>>, <<2>>}]
OneChunk == [c \in Conn |-> {<<>>, <<2>>}]

(* In base 4 and with ints of 6 bits: no number; 65, which an int takes    *)
(* for 1; 1 with one zero more than a buffer holds; a number that is too   *)
(* long for the pattern; and 1 with as many zeros as a buffer holds.       *)
SomeNumbers == [c \in Conn |->
  IF c = c1 THEN {<<>>, <<1, 0, 0, 1>>, <<0, 0, 0, 0, 1>>, <<0, 0, 0, 0, 0, 1>>}
  ELSE {<<0, 0, 0, 1>>}]
SmallNumbers == [c \in Conn |-> {<<>>, <<1>>, <<2>>}]

(* Of the intervals, one is the default and one the least int. *)
TwoIntervals == {5, IntMin}
OneInterval == {5}

(* 5.5, which is cut to 5, and a number that is less than any int. *)
TwoAmounts == {11, 2 * IntMin - 3}
OneAmount == {10}

=============================================================================
