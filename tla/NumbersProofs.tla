--------------------------- MODULE NumbersProofs ---------------------------
(***************************************************************************)
(* What the conversions of Numbers compute, for every base and width of    *)
(* an int: a number that is written to the database, or to a reply, and    *)
(* read back is the same number.                                           *)
(*                                                                         *)
(* Induction over the natural numbers is stated with sets here, and proved *)
(* from the least element of a non-empty set; recursive functions exist    *)
(* because their prefixes do.                                              *)
(***************************************************************************)
EXTENDS Numbers, WellFoundedInduction, TLAPS

-----------------------------------------------------------------------------
(* Induction and recursion.                                                *)

(* Induction where the step may use the fact for all smaller numbers. *)
LEMMA StrongInduction ==
  ASSUME NEW T, \A n \in Nat : (\A m \in 0..n - 1 : m \in T) => n \in T
  PROVE  \A n \in Nat : n \in T
<1> SUFFICES ASSUME NEW k \in Nat, k \notin T PROVE FALSE
  OBVIOUS
<1> DEFINE U == {n \in Nat : n \notin T}
<1>1. U \subseteq Nat /\ U # {}
  OBVIOUS
<1> HIDE DEF U
<1>2. PICK n \in U : \A m \in U : <<m, n>> \notin OpToRel(<, Nat)
  BY <1>1, WFMin, NatLessThanWellFounded, Zenon
<1>3. n \in Nat /\ \A m \in U : ~(m < n)
  BY <1>1, <1>2 DEF OpToRel
<1> QED
  BY <1>3 DEF U

(* Induction from each number to the next. *)
LEMMA Induction ==
  ASSUME NEW T, 0 \in T, \A n \in Nat : n \in T => n + 1 \in T
  PROVE  \A n \in Nat : n \in T
<1>1. ASSUME NEW n \in Nat, \A m \in 0..n - 1 : m \in T PROVE n \in T
  <2>1. CASE n = 0
    BY <2>1
  <2>2. CASE n # 0
    <3>1. n - 1 \in Nat /\ n - 1 \in 0..n - 1
      BY <2>2
    <3> QED
      BY <3>1, <1>1
  <2> QED
    BY <2>1, <2>2
<1> QED
  BY <1>1, StrongInduction

(* The first n + 1 values of the function that starts with x and goes on   *)
(* from its i-th value y with S[i][y].                                     *)
Prefix(x, S, n, g) ==
  /\ g = [i \in 0..n |-> g[i]]
  /\ g[0] = x
  /\ \A i \in 0..n - 1 : g[i + 1] = S[i][g[i]]

LEMMA PrefixesAgree ==
  ASSUME NEW x, NEW S, NEW m \in Nat, NEW n \in Nat, NEW g, NEW h,
         Prefix(x, S, m, g), Prefix(x, S, n, h)
  PROVE  \A i \in Nat : i <= m /\ i <= n => g[i] = h[i]
<1> DEFINE T == {i \in Nat : i <= m /\ i <= n => g[i] = h[i]}
<1>1. 0 \in T
  BY DEF Prefix
<1>2. ASSUME NEW i \in Nat, i \in T PROVE i + 1 \in T
  <2> SUFFICES ASSUME i + 1 <= m, i + 1 <= n PROVE g[i + 1] = h[i + 1]
    OBVIOUS
  <2>1. g[i] = h[i]
    BY <1>2
  <2>2. i \in 0..m - 1 /\ i \in 0..n - 1
    OBVIOUS
  <2> QED
    BY <2>1, <2>2 DEF Prefix
<1> HIDE DEF T
<1>3. \A i \in Nat : i \in T
  BY <1>1, <1>2, Induction
<1> QED
  BY <1>3 DEF T

LEMMA PrefixExists ==
  ASSUME NEW X, NEW x \in X, NEW S \in [Nat -> [X -> X]]
  PROVE  \A n \in Nat : \E g \in [0..n -> X] : Prefix(x, S, n, g)
<1> DEFINE T == {n \in Nat : \E g \in [0..n -> X] : Prefix(x, S, n, g)}
<1>1. 0 \in T
  <2> DEFINE g == [i \in 0..0 |-> x]
  <2>1. g \in [0..0 -> X] /\ Prefix(x, S, 0, g)
    BY DEF Prefix
  <2> QED
    BY <2>1
<1>2. ASSUME NEW n \in Nat, n \in T PROVE n + 1 \in T
  <2>1. PICK g \in [0..n -> X] : Prefix(x, S, n, g)
    BY <1>2
  <2> DEFINE h == [i \in 0..n + 1 |-> IF i = n + 1 THEN S[n][g[n]] ELSE g[i]]
  <2>2. S[n][g[n]] \in X
    OBVIOUS
  <2>3. h \in [0..n + 1 -> X]
    BY <2>2
  <2>4. h = [i \in 0..n + 1 |-> h[i]] /\ h[0] = x
    BY <2>1 DEF Prefix
  <2>5. ASSUME NEW i \in 0..(n + 1) - 1 PROVE h[i + 1] = S[i][h[i]]
    <3>1. i \in 0..n /\ i # n + 1 /\ i \in 0..n + 1 /\ i + 1 \in 0..n + 1
      OBVIOUS
    <3>2. CASE i = n
      BY <3>1, <3>2
    <3>3. CASE i # n
      <4>1. i \in 0..n - 1 /\ i + 1 # n + 1
        BY <3>1, <3>3
      <4> QED
        BY <2>1, <3>1, <4>1 DEF Prefix
    <3> QED
      BY <3>2, <3>3
  <2>6. Prefix(x, S, n + 1, h)
    BY <2>4, <2>5 DEF Prefix
  <2> QED
    BY <2>3, <2>6
<1> HIDE DEF T
<1>3. \A n \in Nat : n \in T
  BY <1>1, <1>2, Induction
<1> QED
  BY <1>3 DEF T

(* A function may be given by its first value and a step. *)
Recursive(X, x, S, f) ==
  /\ f \in [Nat -> X]
  /\ f[0] = x
  /\ \A n \in Nat : f[n + 1] = S[n][f[n]]

LEMMA Recursion ==
  ASSUME NEW X, NEW x \in X, NEW S \in [Nat -> [X -> X]]
  PROVE  \E f : Recursive(X, x, S, f)
<1> DEFINE p[n \in Nat] == CHOOSE g \in [0..n -> X] : Prefix(x, S, n, g)
<1>1. ASSUME NEW n \in Nat PROVE p[n] \in [0..n -> X] /\ Prefix(x, S, n, p[n])
  <2>1. \E g \in [0..n -> X] : Prefix(x, S, n, g)
    BY PrefixExists
  <2> QED
    BY <2>1
<1> HIDE DEF p
<1> DEFINE f == [n \in Nat |-> p[n][n]]
<1>2. f \in [Nat -> X]
  BY <1>1
<1>3. f[0] = x
  BY <1>1 DEF Prefix
<1>4. ASSUME NEW n \in Nat PROVE f[n + 1] = S[n][f[n]]
  <2>1. p[n + 1][n] = p[n][n]
    BY <1>1, PrefixesAgree
  <2>2. p[n + 1][n + 1] = S[n][p[n + 1][n]]
    <3>1. n \in 0..(n + 1) - 1
      OBVIOUS
    <3>2. Prefix(x, S, n + 1, p[n + 1])
      BY <1>1
    <3> QED
      BY <3>1, <3>2 DEF Prefix
  <2> QED
    BY <2>1, <2>2
<1> QED
  BY <1>2, <1>3, <1>4 DEF Recursive

-----------------------------------------------------------------------------
(* Powers and numerals.                                                    *)

LEMMA PowerDefined ==
  /\ Power[0] = 1
  /\ \A n \in Nat : Power[n + 1] = Base * Power[n]
  /\ \A n \in Nat : Power[n] \in Nat \ {0}
<1> DEFINE S == [i \in Nat |-> [y \in Nat |-> Base * y]]
           G(f) == [n \in Nat |-> IF n = 0 THEN 1 ELSE Base * f[n - 1]]
<1>1. S \in [Nat -> [Nat -> Nat]] /\ 1 \in Nat
  BY NumbersAssumption
<1> HIDE DEF S
<1>2. PICK f : Recursive(Nat, 1, S, f)
  BY <1>1, Recursion
<1>3. ASSUME NEW n \in Nat PROVE f[n] = IF n = 0 THEN 1 ELSE Base * f[n - 1]
  <2>1. CASE n = 0
    BY <1>2, <2>1 DEF Recursive
  <2>2. CASE n # 0
    <3>1. n - 1 \in Nat /\ (n - 1) + 1 = n
      BY <2>2
    <3>2. f[(n - 1) + 1] = S[n - 1][f[n - 1]] /\ f[n - 1] \in Nat
      BY <1>2, <3>1 DEF Recursive
    <3> QED
      BY <2>2, <3>1, <3>2 DEF S
  <2> QED
    BY <2>1, <2>2
<1>4. f = G(f)
  BY <1>2, <1>3 DEF Recursive
<1>5. Power = G(Power)
  BY <1>4 DEF Power
<1> HIDE DEF G
<1>6. \A n \in Nat : Power[n] = IF n = 0 THEN 1 ELSE Base * Power[n - 1]
  BY <1>5 DEF G
<1>7. Power[0] = 1 /\ \A n \in Nat : Power[n + 1] = Base * Power[n]
  BY <1>6
<1> DEFINE T == {n \in Nat : Power[n] \in Nat \ {0}}
<1>8. 0 \in T
  BY <1>7
<1>9. ASSUME NEW n \in Nat, n \in T PROVE n + 1 \in T
  BY <1>7, <1>9, NumbersAssumption
<1> HIDE DEF T
<1>10. \A n \in Nat : n \in T
  BY <1>8, <1>9, Induction
<1> QED
  BY <1>7, <1>10 DEF T

(* Division by the base. *)
LEMMA DivMod ==
  ASSUME NEW n \in Nat
  PROVE  /\ n \div Base \in Nat /\ n % Base \in 0..Base - 1
         /\ n = Base * (n \div Base) + (n % Base)
         /\ n >= Base => n \div Base \in 0..n - 1
         /\ \A p \in Nat : n < Base * p => n \div Base < p
<1> DEFINE q == n \div Base
           r == n % Base
<1>1. q \in Nat /\ r \in 0..Base - 1 /\ n = Base * q + r
  BY NumbersAssumption
<1>2. Base \in Nat /\ Base >= 2
  BY NumbersAssumption
<1> HIDE DEF q, r
<1>3. ASSUME n >= Base PROVE q >= 1
  BY <1>1, <1>2, <1>3
<1>4. ASSUME n >= Base PROVE q \in 0..n - 1
  <2>1. Base * q >= 2 * q /\ q >= 1
    BY <1>1, <1>2, <1>3, <1>4
  <2> QED
    BY <2>1, <1>1, <1>2
<1>5. ASSUME NEW p \in Nat, n < Base * p, q >= p PROVE FALSE
  <2>1. Base * q >= Base * p
    BY <1>1, <1>2, <1>5
  <2> QED
    BY <1>1, <1>2, <1>5, <2>1
<1> QED
  BY <1>1, <1>3, <1>4, <1>5 DEF q, r

(* The equation that defines Digits, and what it yields: digits.           *)
(* f[k] has the digits of all numbers below k.                             *)
LEMMA DigitsDefined ==
  /\ \A n \in Nat :
       Digits[n] = IF n < Base THEN <<n>> ELSE Append(Digits[n \div Base], n % Base)
  /\ \A n \in Nat : Digits[n] \in Seq(0..Base - 1)
<1> DEFINE X == [Nat -> Seq(0..Base - 1)]
           Next1(d, n) == IF n < Base THEN <<n>> ELSE Append(d[n \div Base], n % Base)
           S == [k \in Nat |-> [d \in X |-> [d EXCEPT ![k] = Next1(d, k)]]]
           x == [n \in Nat |-> <<>>]
           G(f) == [n \in Nat |-> Next1(f, n)]
<1>a. ASSUME NEW n \in Nat
      PROVE  /\ n \div Base \in Nat /\ n % Base \in 0..Base - 1
             /\ ~(n < Base) => n \div Base \in 0..n - 1
  <2> DEFINE q == n \div Base
  <2>1. q \in Nat /\ n % Base \in 0..Base - 1 /\ (n >= Base => q \in 0..n - 1)
    BY DivMod
  <2>2. Base \in Nat
    BY NumbersAssumption
  <2> HIDE DEF q
  <2>3. ~(n < Base) => n >= Base
    BY <2>2
  <2> QED
    BY <2>1, <2>3 DEF q
<1>b. Base \in Nat
  BY NumbersAssumption
<1>c. ASSUME NEW d \in X, NEW n \in Nat PROVE Next1(d, n) \in Seq(0..Base - 1)
  <2>1. CASE n < Base
    <3>1. n \in 0..Base - 1
      BY <2>1, NumbersAssumption
    <3> QED
      BY <2>1, <3>1
  <2>2. CASE ~(n < Base)
    <3>1. d[n \div Base] \in Seq(0..Base - 1)
      BY <1>a
    <3> QED
      BY <2>2, <3>1, <1>a
  <2> QED
    BY <2>1, <2>2
<1> HIDE DEF Next1
<1>1. S \in [Nat -> [X -> X]] /\ x \in X
  <2>1. ASSUME NEW k \in Nat, NEW d \in X PROVE [d EXCEPT ![k] = Next1(d, k)] \in X
    BY <1>c
  <2>2. x \in X
    OBVIOUS
  <2> HIDE DEF X
  <2> QED
    BY <2>1, <2>2
<1> HIDE DEF S, x
<1>2. PICK f : Recursive(X, x, S, f)
  BY <1>1, Recursion
<1>3. ASSUME NEW k \in Nat PROVE f[k] \in X /\ f[k + 1] = [f[k] EXCEPT ![k] = Next1(f[k], k)]
  BY <1>2 DEF Recursive, S
<1> DEFINE T == {k \in Nat : \A j \in 0..k - 1 : f[k][j] = f[j + 1][j]}
<1>4. 0 \in T
  OBVIOUS
<1>5. ASSUME NEW k \in Nat, k \in T PROVE k + 1 \in T
  <2> SUFFICES ASSUME NEW j \in 0..k PROVE f[k + 1][j] = f[j + 1][j]
    OBVIOUS
  <2>1. CASE j = k
    BY <2>1
  <2>2. CASE j # k
    <3>1. j \in 0..k - 1 /\ j \in Nat
      BY <2>2
    <3>2. f[k + 1][j] = f[k][j]
      BY <1>3, <2>2, <3>1
    <3> QED
      BY <1>5, <3>1, <3>2
  <2> QED
    BY <2>1, <2>2
<1> HIDE DEF T
<1>6. \A k \in Nat : k \in T
  BY <1>4, <1>5, Induction
<1> DEFINE D == [n \in Nat |-> f[n + 1][n]]
<1>7. ASSUME NEW n \in Nat PROVE D[n] = Next1(f[n], n)
  BY <1>3
<1>9. ASSUME NEW n \in Nat PROVE D[n] = Next1(D, n)
  <2>1. CASE n < Base
    BY <1>7, <2>1 DEF Next1
  <2>2. CASE ~(n < Base)
    <3>1. n \div Base \in Nat /\ n \div Base \in 0..n - 1
      BY <1>a, <2>2
    <3>2. f[n][n \div Base] = D[n \div Base]
      BY <1>6, <3>1 DEF T
    <3> QED
      BY <1>7, <2>2, <3>2 DEF Next1
  <2> QED
    BY <2>1, <2>2
<1>10. D = G(D)
  BY <1>9
<1> HIDE DEF D
<1>11. \E d : d = G(d)
  BY <1>10
<1>12. Digits = G(Digits)
  BY <1>11 DEF Digits, Next1
<1>13. \A n \in Nat : Digits[n] = Next1(Digits, n)
  BY <1>12
<1> DEFINE Typed == {n \in Nat : Digits[n] \in Seq(0..Base - 1)}
<1> HIDE DEF Typed
<1>14. ASSUME NEW n \in Nat, \A m \in 0..n - 1 : m \in Typed PROVE n \in Typed
  <2>0. n \in Nat /\ Digits[n] = Next1(Digits, n)
    BY <1>13
  <2>1. CASE n < Base
    <3>1. n \in 0..Base - 1
      BY <1>b, <2>0, <2>1
    <3>2. Digits[n] = <<n>>
      BY <2>0, <2>1 DEF Next1
    <3>3. Digits[n] \in Seq(0..Base - 1)
      BY <3>1, <3>2
    <3> QED
      BY <3>3 DEF Typed
  <2>2. CASE ~(n < Base)
    <3>1. n \div Base \in Nat /\ n \div Base \in 0..n - 1
      BY <1>a, <2>0, <2>2
    <3>2. Digits[n \div Base] \in Seq(0..Base - 1)
      BY <1>14, <3>1 DEF Typed
    <3>3. Digits[n] = Append(Digits[n \div Base], n % Base)
      BY <2>0, <2>2 DEF Next1
    <3>4. n % Base \in 0..Base - 1
      BY <1>a
    <3>5. Digits[n] \in Seq(0..Base - 1)
      BY <3>2, <3>3, <3>4
    <3> QED
      BY <3>5 DEF Typed
  <2> QED
    BY <2>1, <2>2
<1>15. \A n \in Nat : n \in Typed
  BY <1>14, StrongInduction
<1> QED
  BY <1>13, <1>15 DEF Typed, Next1

(* The value of a text after each of its digits. *)
Values(d, v) ==
  /\ v \in [0..Len(d) -> Nat]
  /\ v[0] = 0
  /\ \A k \in 1..Len(d) : v[k] = v[k - 1] * Base + d[k]

LEMMA ValuesExist ==
  ASSUME NEW d \in Seq(Nat)
  PROVE  \E v : Values(d, v)
<1> DEFINE S == [i \in Nat |-> [y \in Nat |->
                  IF i < Len(d) THEN y * Base + d[i + 1] ELSE 0]]
           n == Len(d)
<1>1. Base \in Nat /\ n \in Nat
  BY NumbersAssumption
<1>2. ASSUME NEW i \in Nat, NEW y \in Nat
      PROVE  (IF i < Len(d) THEN y * Base + d[i + 1] ELSE 0) \in Nat
  <2>1. CASE i < Len(d)
    <3>1. i + 1 \in 1..Len(d) /\ d[i + 1] \in Nat
      BY <2>1
    <3> QED
      BY <1>1, <2>1, <3>1
  <2> QED
    BY <2>1
<1>3. S \in [Nat -> [Nat -> Nat]]
  BY <1>2
<1> HIDE DEF S
<1>4. PICK v \in [0..n -> Nat] : Prefix(0, S, n, v)
  BY <1>1, <1>3, PrefixExists
<1>5. ASSUME NEW k \in 1..n PROVE v[k] = v[k - 1] * Base + d[k]
  <2>1. k - 1 \in 0..n - 1 /\ (k - 1) + 1 = k /\ k - 1 \in Nat /\ k - 1 < n
    BY <1>1
  <2>2. \A i \in 0..n - 1 : v[i + 1] = S[i][v[i]]
    BY <1>4 DEF Prefix
  <2>3. v[(k - 1) + 1] = S[k - 1][v[k - 1]]
    BY <2>1, <2>2
  <2>4. v[k - 1] \in Nat
    BY <1>1, <1>4, <2>1
  <2>5. S[k - 1][v[k - 1]] = IF k - 1 < Len(d) THEN v[k - 1] * Base + d[(k - 1) + 1] ELSE 0
    BY <2>1, <2>4 DEF S
  <2> QED
    BY <2>1, <2>3, <2>5
<1>6. v[0] = 0
  BY <1>4 DEF Prefix
<1> QED
  BY <1>4, <1>5, <1>6 DEF Values

LEMMA ValueIs ==
  ASSUME NEW d \in Seq(Nat), NEW v, Values(d, v)
  PROVE  Value(d) = v[Len(d)]
<1> DEFINE n == Len(d)
           G(w) == [k \in 0..Len(d) |-> IF k = 0 THEN 0 ELSE w[k - 1] * Base + d[k]]
           u == CHOOSE w : w = G(w)
<1>1. n \in Nat
  OBVIOUS
<1>2. ASSUME NEW k \in 0..n PROVE v[k] = IF k = 0 THEN 0 ELSE v[k - 1] * Base + d[k]
  BY <1>1 DEF Values
<1>3. v = G(v)
  BY <1>2 DEF Values
<1>4. u = G(u)
  BY <1>3
<1>5. Value(d) = u[n]
  BY DEF Value
<1> HIDE DEF u
<1> DEFINE T == {k \in Nat : k <= n => u[k] = v[k]}
<1>6. 0 \in T
  BY <1>1, <1>4, <1>2
<1>7. ASSUME NEW k \in Nat, k \in T PROVE k + 1 \in T
  <2> SUFFICES ASSUME k + 1 <= n PROVE u[k + 1] = v[k + 1]
    OBVIOUS
  <2>1. k + 1 \in 0..n /\ k + 1 # 0 /\ (k + 1) - 1 = k /\ u[k] = v[k]
    BY <1>1, <1>7
  <2>2. u[k + 1] = u[k] * Base + d[k + 1]
    BY <1>4, <2>1
  <2>3. v[k + 1] = v[k] * Base + d[k + 1]
    BY <1>2, <2>1
  <2> QED
    BY <2>1, <2>2, <2>3
<1> HIDE DEF T
<1>8. \A k \in Nat : k \in T
  BY <1>6, <1>7, Induction
<1> QED
  BY <1>1, <1>5, <1>8 DEF T

LEMMA ValueTyped ==
  ASSUME NEW d \in Seq(Nat)
  PROVE  Value(d) \in Nat
<1>1. PICK v : Values(d, v)
  BY ValuesExist
<1>2. Value(d) = v[Len(d)]
  BY <1>1, ValueIs
<1> QED
  BY <1>1, <1>2 DEF Values

LEMMA ValueEmpty == Value(<<>>) = 0
<1>1. <<>> \in Seq(Nat)
  OBVIOUS
<1>2. PICK v : Values(<<>>, v)
  BY <1>1, ValuesExist
<1>3. Value(<<>>) = v[Len(<<>>)]
  BY <1>1, <1>2, ValueIs
<1> QED
  BY <1>2, <1>3 DEF Values

LEMMA NextValue ==
  ASSUME NEW y \in Nat, NEW e \in Nat
  PROVE  y * Base + e \in Nat
<1>1. ASSUME NEW b \in Nat PROVE y * b \in Nat
  OBVIOUS
<1>2. Base \in Nat
  BY NumbersAssumption
<1> QED
  BY <1>1, <1>2

(* A digit that is put behind a text multiplies its value by the base.     *)
LEMMA ValueAppend ==
  ASSUME NEW d \in Seq(Nat), NEW e \in Nat
  PROVE  Value(Append(d, e)) = Value(d) * Base + e
<1> DEFINE n == Len(d)
           b == Append(d, e)
<1>1. PICK v : Values(d, v)
  BY ValuesExist
<1>2. Value(d) = v[n]
  BY <1>1, ValueIs
<1>3. n \in Nat /\ Base \in Nat /\ v[n] \in Nat
  BY <1>1, NumbersAssumption DEF Values
<1>4. b \in Seq(Nat) /\ Len(b) = n + 1 /\ b[n + 1] = e /\ \A k \in 1..n : b[k] = d[k]
  OBVIOUS
<1> DEFINE w == [k \in 0..n + 1 |-> IF k = n + 1 THEN v[n] * Base + e ELSE v[k]]
<1>5. Values(b, w)
  <2>1. w \in [0..n + 1 -> Nat]
    <3>1. v[n] * Base + e \in Nat
      BY <1>3, NextValue
    <3> QED
      BY <1>1, <1>3, <3>1 DEF Values
  <2>2. w[0] = 0
    BY <1>1, <1>3 DEF Values
  <2>3. ASSUME NEW k \in 1..n + 1 PROVE w[k] = w[k - 1] * Base + b[k]
    <3>1. CASE k = n + 1
      BY <1>3, <1>4, <3>1
    <3>2. CASE k # n + 1
      <4>1. k \in 1..n /\ k - 1 \in 0..n + 1 /\ k - 1 # n + 1 /\ k \in 0..n + 1
        BY <1>3, <3>2
      <4>2. v[k] = v[k - 1] * Base + d[k]
        BY <1>1, <4>1 DEF Values
      <4> QED
        BY <1>4, <3>2, <4>1, <4>2
    <3> QED
      BY <3>1, <3>2
  <2> HIDE DEF w, b
  <2> QED
    BY <1>4, <2>1, <2>2, <2>3 DEF Values
<1>6. Value(b) = w[n + 1]
  BY <1>4, <1>5, ValueIs
<1> QED
  BY <1>2, <1>3, <1>6

-----------------------------------------------------------------------------
(* What the conversions do.                                                *)

LEMMA DigitSeq == \A d \in Seq(0..Base - 1) : d \in Seq(Nat)
<1> DEFINE A == 0..Base - 1
<1>1. A \subseteq Nat
  BY NumbersAssumption
<1> HIDE DEF A
<1>2. ASSUME NEW d \in Seq(A), NEW k \in 1..Len(d) PROVE d[k] \in Nat
  <2>1. d[k] \in A
    OBVIOUS
  <2> QED
    BY <1>1, <2>1
<1>3. ASSUME NEW d \in Seq(A) PROVE d \in Seq(Nat)
  BY <1>2
<1> QED
  BY <1>3 DEF A

LEMMA DigitsType ==
  ASSUME NEW n \in Nat
  PROVE  Digits[n] \in Seq(Nat) /\ Digits[n] \in Seq(0..Base - 1)
BY DigitsDefined, DigitSeq

(* The numeral of a number has that value. *)
LEMMA DigitsValue == \A n \in Nat : Value(Digits[n]) = n
<1> DEFINE T == {n \in Nat : Value(Digits[n]) = n}
<1> HIDE DEF T
<1>1. ASSUME NEW n \in Nat, \A m \in 0..n - 1 : m \in T PROVE n \in T
  <2>0. Base \in Nat
    BY NumbersAssumption
  <2>1. CASE n < Base
    <3>1. Digits[n] = <<n>>
      BY <2>1, DigitsDefined
    <3>2. Append(<<>>, n) = <<n>> /\ <<>> \in Seq(Nat)
      OBVIOUS
    <3>3. Value(Append(<<>>, n)) = Value(<<>>) * Base + n
      BY <3>2, ValueAppend
    <3>4. Value(<<n>>) = n
      BY <2>0, <3>2, <3>3, ValueEmpty
    <3> QED
      BY <3>1, <3>4 DEF T
  <2>2. CASE ~(n < Base)
    <3> DEFINE q == n \div Base
               r == n % Base
    <3>1. q \in 0..n - 1 /\ q \in Nat /\ r \in 0..Base - 1 /\ n = Base * q + r
      BY <2>0, <2>2, DivMod
    <3>2. Digits[n] = Append(Digits[q], r)
      BY <2>2, DigitsDefined
    <3> HIDE DEF q, r
    <3>a. r \in Nat
      BY <2>0, <3>1
    <3>3. Value(Digits[q]) = q
      BY <1>1, <3>1 DEF T
    <3>4. Digits[q] \in Seq(Nat)
      BY <3>1, DigitsType
    <3>5. Value(Digits[n]) = q * Base + r
      BY <3>1, <3>a, <3>2, <3>3, <3>4, ValueAppend
    <3>6. Value(Digits[n]) = n
      BY <2>0, <3>1, <3>a, <3>5
    <3> QED
      BY <3>6 DEF T
  <2> QED
    BY <2>1, <2>2
<1>2. \A n \in Nat : n \in T
  BY <1>1, StrongInduction
<1> QED
  BY <1>2 DEF T

(* A number below the k-th power of the base has at most k digits. *)
LEMMA DigitsLength ==
  \A n \in Nat : \A k \in Nat \ {0} : n < Power[k] => Len(Digits[n]) \in 1..k
<1> DEFINE T == {n \in Nat : \A k \in Nat \ {0} : n < Power[k] => Len(Digits[n]) \in 1..k}
<1> HIDE DEF T
<1>1. ASSUME NEW n \in Nat, \A m \in 0..n - 1 : m \in T PROVE n \in T
  <2>0. Base \in Nat
    BY NumbersAssumption
  <2>1. CASE n < Base
    <3>1. Digits[n] = <<n>>
      BY <2>1, DigitsDefined
    <3>2. Len(Digits[n]) = 1
      BY <3>1
    <3>3. ASSUME NEW k \in Nat \ {0} PROVE Len(Digits[n]) \in 1..k
      BY <3>2
    <3> QED
      BY <3>3 DEF T
  <2>2. CASE ~(n < Base)
    <3> SUFFICES ASSUME NEW k \in Nat \ {0}, n < Power[k] PROVE Len(Digits[n]) \in 1..k
      BY DEF T
    <3> DEFINE q == n \div Base
               r == n % Base
               p == Power[k - 1]
    <3>1. k - 1 \in Nat /\ (k - 1) + 1 = k
      OBVIOUS
    <3>2. Power[k] = Base * p /\ p \in Nat
      BY <3>1, PowerDefined
    <3>3. k - 1 # 0
      <4>1. k - 1 = 0 => p = 1
        BY PowerDefined
      <4> QED
        BY <2>0, <2>2, <3>2, <4>1
    <3>4. q \in 0..n - 1 /\ q \in Nat /\ r \in Nat /\ q < p
      BY <2>0, <2>2, <3>2, DivMod
    <3>5. Digits[n] = Append(Digits[q], r)
      BY <2>2, DigitsDefined
    <3> HIDE DEF q, r
    <3>6. Len(Digits[q]) \in 1..k - 1
      BY <1>1, <3>1, <3>3, <3>4 DEF T
    <3>7. Digits[q] \in Seq(Nat)
      BY <3>4, DigitsType
    <3>8. Len(Digits[n]) = Len(Digits[q]) + 1
      BY <3>4, <3>5, <3>7
    <3> QED
      BY <3>1, <3>6, <3>8
  <2> QED
    BY <2>1, <2>2
<1>2. \A n \in Nat : n \in T
  BY <1>1, StrongInduction
<1> QED
  BY <1>2 DEF T

(* A numeral is not taken for a negative one. *)
LEMMA DigitsHead ==
  ASSUME NEW n \in Nat
  PROVE  Digits[n] # <<>> /\ Head(Digits[n]) # Minus
<1> DEFINE d == Digits[n]
<1>1. d \in Seq(0..Base - 1) /\ Base \in Nat
  BY DigitsType, NumbersAssumption
<1>2. d # <<>>
  <2>1. CASE n < Base
    <3>1. d = <<n>>
      BY <2>1, DigitsDefined
    <3> QED
      BY <3>1
  <2>2. CASE ~(n < Base)
    <3>1. d = Append(Digits[n \div Base], n % Base)
      BY <2>2, DigitsDefined
    <3>2. Digits[n \div Base] \in Seq(Nat) /\ n % Base \in 0..Base - 1
      BY DivMod, DigitsType
    <3>3. Len(d) = Len(Digits[n \div Base]) + 1 /\ Len(Digits[n \div Base]) \in Nat
      BY <3>1, <3>2
    <3>4. Len(d) # 0
      BY <3>3
    <3> QED
      BY <3>4
  <2> QED
    BY <2>1, <2>2
<1> HIDE DEF d
<1>3. Head(d) \in 0..Base - 1
  BY <1>1, <1>2
<1>4. Head(d) # Minus
  BY <1>1, <1>3 DEF Minus
<1> QED
  BY <1>2, <1>4 DEF d

(* The bounds of an int: -IntMin is one more than IntMax. *)
LEMMA IntBounds ==
  /\ IntMin \in Int /\ IntMax \in Nat
  /\ -IntMin \in Nat /\ -IntMin = IntMax + 1
  /\ IntModulus = IntMax - IntMin + 1 /\ IntModulus \in Nat \ {0}
  /\ 0 \in Int32
<1>1. IntModulus \in Nat \ {0} /\ IntModulus % 2 = 0
  BY NumbersAssumption
<1>2. IntModulus \div 2 \in Nat \ {0} /\ 2 * (IntModulus \div 2) = IntModulus
  BY <1>1
<1> QED
  BY <1>1, <1>2 DEF IntMin, IntMax, Int32

(* An int is left as it is, and everything becomes an int. *)
LEMMA WrapInt ==
  /\ \A n \in Int32 : Wrap(n) = n
  /\ \A v \in Int : Wrap(v) \in Int32
<1> USE IntBounds
<1>1. ASSUME NEW n \in Int32 PROVE Wrap(n) = n
  <2>1. n \in Int /\ n - IntMin \in 0..IntModulus - 1
    BY DEF Int32
  <2> DEFINE m == n - IntMin
  <2> HIDE DEF m
  <2>2. m % IntModulus = m
    BY <2>1 DEF m
  <2> QED
    BY <2>1, <2>2 DEF Wrap, m
<1>2. ASSUME NEW v \in Int PROVE Wrap(v) \in Int32
  <2> DEFINE m == (v - IntMin) % IntModulus
  <2>1. m \in 0..IntModulus - 1
    OBVIOUS
  <2> HIDE DEF m
  <2>2. m + IntMin \in Int32
    BY <2>1 DEF Int32
  <2> QED
    BY <2>2 DEF Wrap, m
<1> QED
  BY <1>1, <1>2

LEMMA AtoiNumber ==
  ASSUME NEW d \in Seq(Nat)
  PROVE  Atoi(d) = Wrap(Value(d))
<1>1. d # <<>> => Head(d) \in Nat
  OBVIOUS
<1> QED
  BY <1>1 DEF Atoi, Minus

(* parse_number reads back every int that encode_number has written        *)
(* (database/macros.c:40-61): the digits stand for the number, a leading   *)
(* digit is not taken for a sign, and what fits in an int is not wrapped.  *)
THEOREM AtoiDecimal == \A n \in Int32 : Atoi(Decimal(n)) = n
<1> SUFFICES ASSUME NEW n \in Int32 PROVE Atoi(Decimal(n)) = n
  OBVIOUS
<1>1. n \in Int /\ Wrap(n) = n
  BY WrapInt, IntBounds DEF Int32
<1>2. CASE n < 0
  <2> DEFINE d == Digits[-n]
  <2>1. -n \in Nat /\ d \in Seq(Nat) /\ Value(d) = -n
    BY <1>1, <1>2, DigitsType, DigitsValue
  <2> HIDE DEF d
  <2>2. Decimal(n) = <<Minus>> \o d
    BY <1>2 DEF Decimal, d
  <2> DEFINE t == <<Minus>> \o d
  <2>3. t # <<>> /\ Head(t) = Minus /\ Tail(t) = d
    BY <2>1 DEF Minus
  <2> HIDE DEF t
  <2>4. Atoi(t) = Wrap(-Value(d))
    BY <2>3 DEF Atoi
  <2>5. -Value(d) = n
    BY <1>1, <2>1
  <2> QED
    BY <1>1, <2>2, <2>4, <2>5 DEF t
<1>3. CASE ~(n < 0)
  <2>1. n \in Nat /\ Decimal(n) = Digits[n]
    BY <1>1, <1>3 DEF Decimal
  <2>2. Digits[n] \in Seq(Nat) /\ Value(Digits[n]) = n
    BY <2>1, DigitsType, DigitsValue
  <2> QED
    BY <1>1, <2>1, <2>2, AtoiNumber
<1> QED
  BY <1>2, <1>3

(* A buffer holds every int. *)
LEMMA DecimalFits ==
  ASSUME NEW n \in Int32
  PROVE  /\ Decimal(n) \in Seq(Int)
         /\ Len(Decimal(n)) <= IntStrLen - 1
<1> DEFINE s == IntStrLen - 2
<1>1. s \in Nat \ {0} /\ -IntMin < Power[s] /\ n \in Int /\ n <= IntMax
  <2>1. IntStrLen \in Nat \ {0, 1} /\ -IntMin < Power[s]
    BY NumbersAssumption
  <2>2. s # 0
    <3>1. s = 0 => Power[s] = 1
      BY PowerDefined
    <3> QED
      BY <2>1, <3>1, IntBounds
  <2> QED
    BY <2>1, <2>2, IntBounds DEF Int32
<1>a. Power[s] \in Nat /\ IntStrLen = s + 2
  BY <1>1, PowerDefined, NumbersAssumption
<1> HIDE DEF s
<1>2. CASE n < 0
  <2> DEFINE d == Digits[-n]
  <2>1. -n \in Nat /\ -n < Power[s]
    BY <1>1, <1>a, <1>2, IntBounds DEF Int32
  <2>2. d \in Seq(Nat) /\ Len(d) \in 1..s
    BY <1>1, <2>1, DigitsType, DigitsLength
  <2> HIDE DEF d
  <2>3. Decimal(n) = <<Minus>> \o d
    BY <1>2 DEF Decimal, d
  <2>4. <<Minus>> \in Seq(Int) /\ d \in Seq(Int)
    BY <2>2 DEF Minus
  <2>5. <<Minus>> \o d \in Seq(Int) /\ Len(<<Minus>> \o d) = Len(d) + 1
    BY <2>4
  <2> QED
    BY <1>1, <1>a, <2>2, <2>3, <2>5
<1>3. CASE ~(n < 0)
  <2> DEFINE d == Digits[n]
  <2>1. n \in Nat /\ n < Power[s]
    BY <1>1, <1>a, <1>3, IntBounds
  <2>2. d \in Seq(Nat) /\ Len(d) \in 1..s
    BY <1>1, <2>1, DigitsType, DigitsLength
  <2> HIDE DEF d
  <2>3. Decimal(n) = d
    BY <1>3 DEF Decimal, d
  <2>4. d \in Seq(Int)
    BY <2>2
  <2> QED
    BY <1>1, <1>a, <2>2, <2>3, <2>4
<1> QED
  BY <1>2, <1>3

LEMMA MinOfTwo ==
  ASSUME NEW a \in Int, NEW b \in Int, a <= b
  PROVE  Min({a, b}) = a
<1>1. a \in {a, b} /\ \A y \in {a, b} : a <= y
  OBVIOUS
<1>2. \A x \in {a, b} : (\A y \in {a, b} : x <= y) => x = a
  OBVIOUS
<1> QED
  BY <1>1, <1>2 DEF Min

(* A number that is written to the database, or to a reply, and read back  *)
(* is the same number, whatever int it is: REACHARD_INT_STR_LEN leaves     *)
(* room for every one of them, sign and terminator included                *)
(* (utils/constants.h:29, database/macros.c:40-61).                        *)
THEOREM RoundTrip ==
  \A n \in Int32 : EncodeNumber(n) = Decimal(n) /\ Atoi(EncodeNumber(n)) = n
<1> SUFFICES ASSUME NEW n \in Int32
             PROVE  EncodeNumber(n) = Decimal(n)
  BY AtoiDecimal
<1> DEFINE t == Decimal(n)
<1>1. t \in Seq(Int) /\ Len(t) <= IntStrLen - 1 /\ IntStrLen \in Nat /\ Len(t) \in Nat
  BY DecimalFits, NumbersAssumption
<1> HIDE DEF t
<1>2. Min({Len(t), IntStrLen - 1}) = Len(t)
  BY <1>1, MinOfTwo
<1>3. SubSeq(t, 1, Len(t)) = t
  BY <1>1
<1> QED
  BY <1>2, <1>3 DEF EncodeNumber, Printed, t

=============================================================================
