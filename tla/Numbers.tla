------------------------------ MODULE Numbers ------------------------------
(***************************************************************************)
(* Numbers as texts: src/database/macros.c, src/utils/constants.h and the  *)
(* id in a URL (src/server/handle.c).                                      *)
(*                                                                         *)
(* Every number that goes to the database or comes from it or from a URL   *)
(* is a text, in buffers of REACHARD_INT_STR_LEN characters that are just  *)
(* long enough for the least int, its sign and the terminator.  A text is  *)
(* the sequence of its digits, after Minus if it is negative.              *)
(***************************************************************************)
EXTENDS SequencesExt, Integers

CONSTANTS Base,         \* of the numerals; 10 in the code
          IntModulus,   \* 2^w for a C int of w bits
          IntStrLen     \* REACHARD_INT_STR_LEN

IntMin == -(IntModulus \div 2)
IntMax == IntModulus \div 2 - 1
Int32 == IntMin..IntMax

(* Base to the n. *)
Power[n \in Nat] == IF n = 0 THEN 1 ELSE Base * Power[n - 1]

(* A buffer holds as many digits as it takes to write -IntMin, a sign and  *)
(* the terminator: 12 characters for 32 bits in base 10.                   *)
ASSUME NumbersAssumption ==
  /\ Base \in Nat \ {0, 1}
  /\ IntModulus \in Nat \ {0} /\ IntModulus % 2 = 0
  /\ IntStrLen \in Nat \ {0, 1}
  /\ -IntMin < Power[IntStrLen - 2]

Minus == -1

(* What a sequence of digits stands for. *)
Value(digits) ==
  LET v[k \in 0..Len(digits)] ==
        IF k = 0 THEN 0 ELSE v[k - 1] * Base + digits[k]
  IN v[Len(digits)]

Digits[n \in Nat] == IF n < Base THEN <<n>> ELSE Append(Digits[n \div Base], n % Base)

(* "%d" *)
Decimal(n) == IF n < 0 THEN <<Minus>> \o Digits[-n] ELSE Digits[n]

(* What is left of a number in a C int. *)
Wrap(v) == ((v - IntMin) % IntModulus) + IntMin

(* atoi: what does not fit in an int is cut to its width. *)
Atoi(text) ==
  IF text # <<>> /\ Head(text) = Minus
  THEN Wrap(-Value(Tail(text))) ELSE Wrap(Value(text))

(* What snprintf leaves of a text in a buffer, which must hold a terminator. *)
Printed(text, size) == SubSeq(text, 1, Min({Len(text), size - 1}))

(* A buffer that is one character too short for the least int. *)
EncodeNumberTight(n) == Printed(Decimal(n), IntStrLen - 1)

EncodeNumber(n) == Printed(Decimal(n), IntStrLen)

(* The pattern of the URLs takes up to IntStrLen digits, or none. *)
Matches(number) == Len(number) <= IntStrLen

(* The ids that match may find in the number of a URL.  One of IntStrLen   *)
(* digits fills id_str to its last character: atoi reads on behind it, and *)
(* may come to any number at all, of which `any` is a choice.              *)
IdsFrom(number, any) ==
  IF Len(number) < IntStrLen THEN {Atoi(number)} ELSE any

=============================================================================
