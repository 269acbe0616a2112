--------------------------- MODULE RequestsProofs ---------------------------
(***************************************************************************)
(* Theorems about Requests, for any number of connections and requests,    *)
(* any bodies, however they are cut, and any table.                        *)
(***************************************************************************)
EXTENDS Requests, NumbersProofs

(* As long as a request can still be passed to its handler, no statement   *)
(* has been sent for it and no reply has been queued: the statement and    *)
(* the attempt to reply come in one call, and the attempt ends the request *)
(* whether or not the library accepts the reply.                           *)
NotYet == \A c \in Conn :
  stage[c] \notin {"replied", "closed"} => ran[c] = 0 /\ reply[c] = 0

OnceInv ==
  /\ stage \in [Conn -> Stage]
  /\ ran \in [Conn -> Nat]
  /\ reply \in [Conn -> Nat]
  /\ NotYet
  /\ OnceOnly

-----------------------------------------------------------------------------

(* A call either replies, which ends the request, or goes on to the next.  *)
LEMMA RespondEnds ==
  ASSUME OnceInv, NEW c \in Conn, NEW status \in Nat, Respond(c, status)
  PROVE  /\ stage' \in {Set(stage, c, "replied"), Set(stage, c, "closed")}
         /\ reply' \in {reply, Set(reply, c, status)}
BY DEF Respond, Set

(* The invariant holds after a step that ends the request of c, sends at   *)
(* most one statement for it, and none if the reply is 400.                *)
LEMMA EndStep ==
  ASSUME OnceInv, NEW c \in Conn, NEW n \in {0, 1}, NEW status \in Nat,
         stage[c] \notin {"replied", "closed"},
         stage' \in {Set(stage, c, "replied"), Set(stage, c, "closed")},
         reply' \in {reply, Set(reply, c, status)},
         ran' = Set(ran, c, ran[c] + n),
         status = 400 => n = 0
  PROVE  OnceInv'
<1>1. ran[c] = 0 /\ reply[c] = 0
  BY DEF OnceInv, NotYet
<1>2. stage' \in [Conn -> Stage] /\ ran' \in [Conn -> Nat] /\ reply' \in [Conn -> Nat]
  BY DEF OnceInv, Set, Stage
<1>3. \A d \in Conn \ {c} :
        stage'[d] = stage[d] /\ ran'[d] = ran[d] /\ reply'[d] = reply[d]
  BY DEF OnceInv, Set
<1>4. stage'[c] \in {"replied", "closed"} /\ ran'[c] = n /\ reply'[c] \in {0, status}
  BY <1>1 DEF OnceInv, Set
<1>5. NotYet'
  BY <1>3, <1>4 DEF OnceInv, NotYet
<1>6. OnceOnly'
  BY <1>3, <1>4 DEF OnceInv, OnceOnly
<1> QED
  BY <1>2, <1>5, <1>6 DEF OnceInv

(* ... and after a step that sends and replies nothing. *)
LEMMA QuietStep ==
  ASSUME OnceInv, NEW c \in Conn, NEW s \in Stage,
         stage[c] \notin {"replied", "closed"},
         stage' = Set(stage, c, s), UNCHANGED <<reply, ran>>
  PROVE  OnceInv'
BY DEF OnceInv, NotYet, OnceOnly, Set, Stage

-----------------------------------------------------------------------------

LEMMA InitOnce == Init => OnceInv
BY DEF Init, OnceInv, NotYet, OnceOnly, Stage

(* The handlers of DELETE and GET, at a chunk or at the end. *)
LEMMA BodylessStep ==
  ASSUME OnceInv, NEW c \in Conn, stage[c] \in {"upload", "received"},
         DeleteTarget(c) \/ GetTarget(c) \/ GetAllTargets(c)
  PROVE  OnceInv'
<1>1. CASE DeleteTarget(c)
  <2>1. ran' = Set(ran, c, ran[c] + 1)
    BY <1>1 DEF DeleteTarget, Ran
  <2>2. PICK status \in {200, 500} : Respond(c, status)
    BY <1>1 DEF DeleteTarget, Answered
  <2> QED
    BY <2>1, <2>2, RespondEnds, EndStep
<1>2. CASE GetTarget(c) \/ GetAllTargets(c)
  <2>1. PICK status \in {200, 500} : Respond(c, status)
    BY <1>2 DEF GetTarget, GetAllTargets, Answered
  <2>2. ran' = Set(ran, c, ran[c] + 0)
    BY <1>2 DEF GetTarget, GetAllTargets, Set, OnceInv
  <2> QED
    BY <2>1, <2>2, RespondEnds, EndStep
<1> QED
  BY <1>1, <1>2

LEMMA PatchStep ==
  ASSUME OnceInv, NEW c \in Conn, stage[c] = "received", PatchTarget(c)
  PROVE  OnceInv'
<1>1. PICK body \in Understood(c) :
        IF body = NotJson
        THEN Respond(c, 400) /\ ran' = ran
        ELSE Ran(c) /\ (Respond(c, 200) \/ Respond(c, 500))
  BY DEF PatchTarget, Answered
<1>2. CASE body = NotJson
  <2>1. ran' = Set(ran, c, ran[c] + 0)
    BY <1>1, <1>2 DEF Set, OnceInv
  <2> QED
    BY <1>1, <1>2, <2>1, RespondEnds, EndStep
<1>3. CASE body # NotJson
  <2>1. PICK status \in {200, 500} : Respond(c, status)
    BY <1>1, <1>3
  <2> QED
    BY <1>1, <1>3, <2>1, RespondEnds, EndStep DEF Ran
<1> QED
  BY <1>2, <1>3

LEMMA PostStep ==
  ASSUME OnceInv, NEW c \in Conn, stage[c] = "received", PostTarget(c)
  PROVE  OnceInv'
<1>1. PICK body \in Understood(c) :
        IF body = NotJson \/ body.url = Absent
        THEN Respond(c, 400) /\ ran' = ran
        ELSE Ran(c) /\ Respond(c, 200)
  BY DEF PostTarget
<1>2. CASE body = NotJson \/ body.url = Absent
  <2>1. ran' = Set(ran, c, ran[c] + 0)
    BY <1>1, <1>2 DEF Set, OnceInv
  <2> QED
    BY <1>1, <1>2, <2>1, RespondEnds, EndStep
<1>3. CASE ~(body = NotJson \/ body.url = Absent)
  BY <1>1, <1>3, RespondEnds, EndStep DEF Ran
<1> QED
  BY <1>2, <1>3

LEMMA OnceStep == OnceInv /\ [Next]_vars => OnceInv'
<1> SUFFICES ASSUME OnceInv, [Next]_vars PROVE OnceInv'
  OBVIOUS
<1>0. CASE UNCHANGED vars
  BY <1>0 DEF vars, outcomeVars, OnceInv, NotYet, OnceOnly
<1>1. ASSUME NEW c \in Conn, Arrive(c) PROVE OnceInv'
  <2>1. /\ stage[c] = "idle" /\ stage' = Set(stage, c, "headers")
        /\ UNCHANGED <<reply, ran>>
    BY <1>1 DEF Arrive, outcomeVars
  <2> QED
    BY <2>1, QuietStep DEF Stage
<1>2. ASSUME NEW c \in Conn, Abort(c) PROVE OnceInv'
  <2>1. stage' = Set(stage, c, "closed") /\ UNCHANGED <<reply, ran>>
    BY <1>2 DEF Abort, Close
  <2> QED
    BY <2>1 DEF OnceInv, NotYet, OnceOnly, Set, Stage
<1>3. ASSUME NEW c \in Conn, Complete(c) PROVE OnceInv'
  <2>1. /\ stage' = Set(stage, c, "idle")
        /\ reply' = Set(reply, c, 0) /\ ran' = Set(ran, c, 0)
    BY <1>3 DEF Complete
  <2> QED
    BY <2>1 DEF OnceInv, NotYet, OnceOnly, Set, Stage
<1>4. ASSUME NEW c \in Conn, FirstCall(c) PROVE OnceInv'
  <2>1. stage[c] = "headers" /\ ran' = Set(ran, c, ran[c] + 0)
    BY <1>4 DEF FirstCall, Set, OnceInv
  <2>2. \/ stage' = Set(stage, c, "closed") /\ UNCHANGED reply
        \/ Respond(c, 400)
        \/ stage' = Set(stage, c, NextStage(c, 0)) /\ UNCHANGED reply
    BY <1>4 DEF FirstCall, Close
  <2>3. ran' = ran
    BY <1>4 DEF FirstCall
  <2>4. NextStage(c, 0) \in Stage
    BY DEF NextStage, Stage
  <2>5. CASE Respond(c, 400)
    BY <2>1, <2>5, RespondEnds, EndStep
  <2>6. CASE stage' = Set(stage, c, "closed") /\ UNCHANGED reply
    BY <2>1, <2>3, <2>6, QuietStep DEF Stage
  <2>7. CASE stage' = Set(stage, c, NextStage(c, 0)) /\ UNCHANGED reply
    BY <2>1, <2>3, <2>4, <2>7, QuietStep
  <2> QED
    BY <2>2, <2>5, <2>6, <2>7
<1>5. ASSUME NEW c \in Conn, UploadCall(c) PROVE OnceInv'
  <2>1. CASE StoreChunk(c)
    <3>1. /\ stage[c] = "upload" /\ UNCHANGED <<reply, ran>>
          /\ \/ stage' = Set(stage, c, "closed")
             \/ stage' = Set(stage, c, NextStage(c, calls[c] + 1))
      BY <1>5, <2>1 DEF UploadCall, StoreChunk, Close
    <3>2. NextStage(c, calls[c] + 1) \in Stage
      BY DEF NextStage, Stage
    <3> QED
      BY <3>1, <3>2, QuietStep DEF Stage
  <2> QED
    BY <1>5, <2>1, BodylessStep DEF UploadCall
<1>6. ASSUME NEW c \in Conn, LastCall(c) PROVE OnceInv'
  BY <1>6, BodylessStep, PatchStep, PostStep DEF LastCall
<1> QED
  BY <1>0, <1>1, <1>2, <1>3, <1>4, <1>5, <1>6 DEF Next

(* For every request, at most one statement that changes the table is      *)
(* sent, however its body is cut and whenever its handler is called, and   *)
(* none if the answer is 400.                                              *)
THEOREM AtMostOneStatement == Spec => []OnceOnly
<1>1. OnceInv => OnceOnly
  BY DEF OnceInv
<1> QED
  BY <1>1, InitOnce, OnceStep, PTL DEF Spec

-----------------------------------------------------------------------------
(* The query of an UPDATE, for any choice of columns.                      *)

(* The tokens that the columns leave behind: each with the number of its   *)
(* parameter, and a comma.                                                 *)
Token(columns, j) ==
  IF j % 2 = 1 THEN <<columns[(j + 1) \div 2], (j + 1) \div 2>> ELSE COMMA

Tokens(columns, i) == [j \in 1..2 * i |-> Token(columns, j)]

LEMMA SeqIs ==
  ASSUME NEW S, NEW s \in Seq(S)
  PROVE  s = [i \in 1..Len(s) |-> s[i]]
OBVIOUS

LEMMA Concat ==
  ASSUME NEW S, NEW s \in Seq(S), NEW t \in Seq(S)
  PROVE  /\ Len(s) \in Nat /\ Len(t) \in Nat
         /\ s \o t \in Seq(S)
         /\ s \o t = [i \in 1..Len(s) + Len(t) |-> IF i <= Len(s) THEN s[i] ELSE t[i - Len(s)]]
<1>1. Len(s) \in Nat /\ Len(t) \in Nat
  OBVIOUS
<1>2. s \o t \in Seq(S) /\ Len(s \o t) = Len(s) + Len(t)
  OBVIOUS
<1>3. \A i \in 1..Len(s) + Len(t) :
        (s \o t)[i] = IF i <= Len(s) THEN s[i] ELSE t[i - Len(s)]
  OBVIOUS
<1>4. s \o t = [i \in 1..Len(s \o t) |-> (s \o t)[i]]
  BY <1>2, SeqIs
<1> QED
  BY <1>1, <1>2, <1>3, <1>4

LEMMA ConcatAt ==
  ASSUME NEW S, NEW s \in Seq(S), NEW t \in Seq(S)
  PROVE  /\ s \o t \in Seq(S) /\ Len(s \o t) = Len(s) + Len(t)
         /\ \A i \in 1..Len(s) : (s \o t)[i] = s[i]
         /\ \A i \in 1..Len(t) : (s \o t)[Len(s) + i] = t[i]
OBVIOUS

LEMMA SameSeq ==
  ASSUME NEW S, NEW s \in Seq(S), NEW t \in Seq(S), Len(s) = Len(t),
         \A i \in 1..Len(t) : s[i] = t[i]
  PROVE  s = t
BY SeqIs

LEMMA TokensAre ==
  ASSUME NEW columns, NEW i \in Nat, NEW S, \A j \in Nat : Token(columns, j) \in S
  PROVE  /\ Tokens(columns, i) \in Seq(S)
         /\ Len(Tokens(columns, i)) = 2 * i
         /\ \A j \in 1..2 * i : Tokens(columns, i)[j] = Token(columns, j)
<1>1. 2 * i \in Nat /\ \A j \in 1..2 * i : Token(columns, j) \in S
  OBVIOUS
<1> DEFINE n == 2 * i
<1> HIDE DEF n
<1> QED
  BY <1>1 DEF Tokens, n

LEMMA TokenIs ==
  ASSUME NEW columns, NEW i \in Nat \ {0}
  PROVE  /\ Token(columns, 2 * i - 1) = <<columns[i], i>>
         /\ Token(columns, 2 * i) = COMMA
<1>1. (2 * i - 1) % 2 = 1 /\ (2 * i - 1 + 1) \div 2 = i /\ (2 * i) % 2 = 0
  OBVIOUS
<1> QED
  BY <1>1 DEF Token

LEMMA TokensGrow ==
  ASSUME NEW columns, NEW i \in Nat \ {0}
  PROVE  Tokens(columns, i) = Tokens(columns, i - 1) \o <<<<columns[i], i>>, COMMA>>
<1> DEFINE U == {Token(columns, j) : j \in Nat}
           s == Tokens(columns, i - 1)
           t == <<<<columns[i], i>>, COMMA>>
<1>1. <<columns[i], i>> \in U /\ COMMA \in U
  BY TokenIs, 2 * i - 1 \in Nat, 2 * i \in Nat
<1> HIDE DEF U
<1>2. t \in Seq(U) /\ Len(t) = 2 /\ t[1] = <<columns[i], i>> /\ t[2] = COMMA
  BY <1>1
<1>3. \A j \in Nat : Token(columns, j) \in U
  BY DEF U
<1> DEFINE all == Tokens(columns, i)
<1>4. all \in Seq(U) /\ Len(all) = 2 * i /\ \A j \in 1..2 * i : all[j] = Token(columns, j)
  BY <1>3, TokensAre
<1>5. /\ s \in Seq(U) /\ Len(s) = 2 * (i - 1)
      /\ \A j \in 1..2 * (i - 1) : s[j] = Token(columns, j)
  <2>1. i - 1 \in Nat
    OBVIOUS
  <2> QED
    BY <1>3, <2>1, TokensAre
<1> HIDE DEF s, t, all
<1>6. /\ s \o t \in Seq(U) /\ Len(s \o t) = Len(s) + Len(t)
      /\ \A j \in 1..Len(s) : (s \o t)[j] = s[j]
      /\ \A j \in 1..Len(t) : (s \o t)[Len(s) + j] = t[j]
  <2>1. s \in Seq(U) /\ t \in Seq(U)
    BY <1>2, <1>5
  <2> QED
    BY <2>1, ConcatAt
<1>7. ASSUME NEW j \in 1..2 * i PROVE (s \o t)[j] = all[j]
  <2>1. CASE j \in 1..2 * (i - 1)
    BY <1>4, <1>5, <1>6, <2>1
  <2>2. CASE j = 2 * i - 1
    <3>1. Len(s) + 1 = j /\ 1 \in 1..Len(t)
      BY <1>2, <1>5, <2>2
    <3>2. (s \o t)[j] = t[1]
      BY <1>6, <3>1
    <3> QED
      BY <1>2, <1>4, <2>2, <3>2, TokenIs
  <2>3. CASE j = 2 * i
    <3>1. Len(s) + 2 = j /\ 2 \in 1..Len(t)
      BY <1>2, <1>5, <2>3
    <3>2. (s \o t)[j] = t[2]
      BY <1>6, <3>1
    <3> QED
      BY <1>2, <1>4, <2>3, <3>2, TokenIs
  <2>4. j \in 1..2 * (i - 1) \/ j = 2 * i - 1 \/ j = 2 * i
    OBVIOUS
  <2> QED
    BY <2>1, <2>2, <2>3, <2>4, Zenon
<1>8. Len(s \o t) = Len(all) /\ \A j \in 1..Len(all) : (s \o t)[j] = all[j]
  BY <1>2, <1>4, <1>5, <1>6, <1>7
<1>9. s \o t = all
  BY <1>4, <1>6, <1>8, SameSeq
<1> QED
  BY <1>9 DEF s, t, all

LEMMA ClausesAre ==
  ASSUME NEW S, NEW columns \in Seq(S)
  PROVE  Clauses(columns) = Tokens(columns, Len(columns))
<1> DEFINE n == Len(columns)
           seqs == [k \in 1..n |-> <<<<columns[k], k>>, COMMA>>]
           G(f) == [i \in 1..n |-> IF i = 1 THEN seqs[i] ELSE f[i - 1] \o seqs[i]]
           flat == CHOOSE f : f = [i \in 1..Len(seqs) |-> IF i = 1 THEN seqs[i] ELSE f[i - 1] \o seqs[i]]
           all == [i \in 1..n |-> Tokens(columns, i)]
<1>1. n \in Nat /\ Len(seqs) = n
  OBVIOUS
<1>2. CASE n = 0
  <2>1. seqs = <<>>
    BY <1>2
  <2>2. Clauses(columns) = <<>>
    BY <1>1, <1>2, <2>1 DEF Clauses, FlattenSeq
  <2>3. Tokens(columns, 0) = <<>>
    BY DEF Tokens
  <2> QED
    BY <1>2, <2>2, <2>3
<1>3. CASE n # 0
  <2>1. Tokens(columns, 0) = <<>>
    BY DEF Tokens
  <2>2. ASSUME NEW i \in 1..n
        PROVE  all[i] = IF i = 1 THEN seqs[i] ELSE all[i - 1] \o seqs[i]
    <3>1. CASE i = 1
      <4>1. Tokens(columns, 1) = <<>> \o <<<<columns[1], 1>>, COMMA>>
        <5>1. 1 \in Nat \ {0} /\ 1 - 1 = 0
          OBVIOUS
        <5>2. Tokens(columns, 1) = Tokens(columns, 1 - 1) \o <<<<columns[1], 1>>, COMMA>>
          BY <5>1, TokensGrow
        <5> QED
          BY <2>1, <5>1, <5>2
      <4> QED
        BY <3>1, <4>1
    <3>2. CASE i # 1
      <4>1. i - 1 \in 1..n /\ i \in Nat \ {0}
        BY <1>1, <3>2
      <4> QED
        BY <3>2, <4>1, TokensGrow
    <3> QED
      BY <3>1, <3>2
  <2>3. all = G(all)
    BY <2>2
  <2>4. flat = G(flat)
    BY <1>1, <2>3
  <2>5. Clauses(columns) = flat[n]
    BY <1>1, <1>3 DEF Clauses, FlattenSeq
  <2> HIDE DEF seqs, flat, all
  <2> DEFINE T == {i \in Nat : i \in 1..n => flat[i] = all[i]}
  <2>6. 0 \in T
    OBVIOUS
  <2>7. ASSUME NEW i \in Nat, i \in T PROVE i + 1 \in T
    <3> SUFFICES ASSUME i + 1 \in 1..n PROVE flat[i + 1] = all[i + 1]
      OBVIOUS
    <3>1. flat[i + 1] = IF i + 1 = 1 THEN seqs[i + 1] ELSE flat[i] \o seqs[i + 1]
      BY <2>4, (i + 1) - 1 = i
    <3>2. all[i + 1] = IF i + 1 = 1 THEN seqs[i + 1] ELSE all[i] \o seqs[i + 1]
      BY <2>2, (i + 1) - 1 = i
    <3>3. i + 1 # 1 => flat[i] = all[i]
      BY <2>7, <1>1
    <3> QED
      BY <3>1, <3>2, <3>3
  <2> HIDE DEF T
  <2>8. \A i \in Nat : i \in T
    BY <2>6, <2>7, Induction
  <2>9. flat[n] = all[n]
    BY <1>1, <1>3, <2>8 DEF T
  <2> QED
    BY <1>1, <1>3, <2>5, <2>9 DEF all
<1> QED
  BY <1>2, <1>3

(* The query for a choice of columns that is not empty. *)
LEMMA QueryIs ==
  ASSUME NEW columns, NEW n \in Nat \ {0}, Clauses(columns) = Tokens(columns, n)
  PROVE  Query(columns) =
           [m \in 1..2 * n + 1 |->
              IF m = 1 THEN UPDATE
              ELSE IF m = 2 THEN SET ELSE Token(columns, m - 2)]
<1> DEFINE U == {Token(columns, j) : j \in Nat} \cup {UPDATE, SET}
           s == <<UPDATE, SET>>
           t == Tokens(columns, n)
           text == s \o t
           q == [m \in 1..2 * n + 1 |->
              IF m = 1 THEN UPDATE
              ELSE IF m = 2 THEN SET ELSE Token(columns, m - 2)]
<1>1. n \in Nat \ {0}
  OBVIOUS
<1>2. /\ \A j \in Nat : Token(columns, j) \in U
      /\ UPDATE \in U /\ SET \in U
  OBVIOUS
<1> HIDE DEF U
<1>3. s \in Seq(U) /\ Len(s) = 2 /\ s[1] = UPDATE /\ s[2] = SET
  BY <1>2
<1>4. t \in Seq(U) /\ Len(t) = 2 * n
  BY <1>1, <1>2, TokensAre
<1>5. \A j \in 1..2 * n : t[j] = Token(columns, j)
  BY <1>1, <1>2, TokensAre
<1>6. text = s \o t
  OBVIOUS
<1> HIDE DEF s, t, text
<1>8. /\ text \in Seq(U) /\ Len(text) = Len(s) + Len(t)
      /\ \A m \in 1..Len(s) : text[m] = s[m]
      /\ \A m \in 1..Len(t) : text[Len(s) + m] = t[m]
  <2>1. s \in Seq(U) /\ t \in Seq(U)
    BY <1>3, <1>4
  <2> QED
    BY <1>6, <2>1, ConcatAt
<1>9. /\ text[1] = UPDATE /\ text[2] = SET
      /\ \A m \in 1..2 * n : text[2 + m] = Token(columns, m)
  BY <1>3, <1>4, <1>5, <1>8
<1>10. Len(text) = 2 * n + 2
  BY <1>1, <1>3, <1>4, <1>8
<1>11. Last(text) = COMMA
  <2>1. 2 * n \in 1..2 * n /\ 2 * n + 2 = 2 + 2 * n
    BY <1>1
  <2>2. Last(text) = Token(columns, 2 * n)
    BY <1>9, <1>10, <2>1 DEF Last
  <2> QED
    BY <1>1, <2>2, TokenIs
<1>12. Query(columns) = Front(text)
  BY <1>6, <1>11 DEF Query, s, t
<1>13. Front(text) = [m \in 1..2 * n + 1 |-> text[m]]
  <2>1. 1..Len(text) - 1 = 1..2 * n + 1
    BY <1>1, <1>10
  <2>2. Front(text) = [m \in 1..Len(text) - 1 |-> text[m]]
    BY <1>8 DEF Front
  <2> QED
    BY <2>1, <2>2, Zenon
<1>14. ASSUME NEW m \in 1..2 * n + 1 PROVE text[m] = q[m]
  <2>1. CASE m = 1 \/ m = 2
    BY <1>9, <2>1
  <2>2. CASE m # 1 /\ m # 2
    <3>1. m - 2 \in 1..2 * n /\ 2 + (m - 2) = m
      BY <1>1, <2>2
    <3>2. text[m] = Token(columns, m - 2)
      BY <1>9, <3>1
    <3> QED
      BY <1>1, <2>2, <3>2
  <2> QED
    BY <2>1, <2>2
<1>15. Front(text) = q
  BY <1>13, <1>14
<1> QED
  BY <1>1, <1>12, <1>15

(* PostgreSQL accepts the query of every choice that is not empty, ... *)
LEMMA QueryAccepted ==
  ASSUME NEW columns, NEW n \in Nat, Clauses(columns) = Tokens(columns, n)
  PROVE  Accepted(Query(columns)) <=> n # 0
<1> DEFINE query == Query(columns)
<1>a. \A x, y : <<x, y>> # COMMA /\ SET # COMMA
  BY DEF COMMA, SET
<1>1. ASSUME n # 0 PROVE Accepted(Query(columns))
  <2>1. n \in Nat \ {0}
    BY <1>1
  <2>2. query = [m \in 1..2 * n + 1 |->
              IF m = 1 THEN UPDATE
              ELSE IF m = 2 THEN SET ELSE Token(columns, m - 2)]
    BY <2>1, QueryIs
  <2> HIDE DEF query
  <2>3. Len(query) = 2 * n + 1 /\ query[2] = SET
    BY <2>1, <2>2
  <2>4. ASSUME NEW k \in 3..2 * n + 1 PROVE (query[k] = COMMA) <=> (k % 2 = 0)
    <3>1. k \in 1..2 * n + 1 /\ k # 1 /\ k # 2
      BY <2>1
    <3>2. query[k] = Token(columns, k - 2)
      BY <2>2, <3>1
    <3>3. (k - 2) % 2 = k % 2 /\ (k % 2 = 0 \/ k % 2 = 1)
      BY <3>1
    <3> QED
      BY <1>a, <3>2, <3>3 DEF Token
  <2>5. Last(query) # COMMA
    <3>1. 2 * n + 1 \in 3..2 * n + 1 /\ (2 * n + 1) % 2 = 1
      BY <2>1
    <3> QED
      BY <2>3, <2>4, <3>1 DEF Last
  <2> QED
    BY <2>1, <2>3, <2>4, <2>5 DEF Accepted, query
<1>2. ASSUME n = 0 PROVE ~Accepted(Query(columns))
  <2>1. Clauses(columns) = <<>>
    BY <1>2 DEF Tokens
  <2> DEFINE U == {UPDATE, SET, <<"SE">>}
             s == <<UPDATE, SET>>
  <2>2. s \in Seq(U) /\ Len(s) = 2 /\ s[2] = SET /\ s \o <<>> = s /\ <<<<"SE">>>> \in Seq(U)
    OBVIOUS
  <2>3. Last(s) # COMMA
    BY <1>a, <2>2 DEF Last
  <2>4. query = Front(s) \o <<<<"SE">>>>
    BY <2>1, <2>2, <2>3 DEF Query
  <2> HIDE DEF s, U
  <2> DEFINE f == Front(s)
             t == <<<<"SE">>>>
  <2>5. f \in Seq(U) /\ Len(f) = 1
    BY <2>2 DEF Front
  <2>6. Len(query) = 2
    <3>1. t \in Seq(U) /\ Len(t) = 1
      BY <2>2
    <3> HIDE DEF f, t
    <3>2. Len(f \o t) = Len(f) + Len(t)
      BY <2>5, <3>1, ConcatAt
    <3> QED
      BY <2>4, <2>5, <3>1, <3>2 DEF f, t
  <2> QED
    BY <2>6 DEF Accepted
<1> QED
  BY <1>1, <1>2

(* ... and gives each column of the choice the parameter at its place. *)
LEMMA QueryAssigns ==
  ASSUME NEW columns, NEW n \in Nat, Clauses(columns) = Tokens(columns, n),
         NEW c, NEW k \in 1..n
  PROVE  Assigns(Query(columns), c, k) <=> columns[k] = c
<1> DEFINE query == Query(columns)
<1>1. n \in Nat \ {0} /\ k \in 1..n
  OBVIOUS
<1>2. query = [m \in 1..2 * n + 1 |->
              IF m = 1 THEN UPDATE
              ELSE IF m = 2 THEN SET ELSE Token(columns, m - 2)]
  BY <1>1, QueryIs
<1> HIDE DEF query
<1>3. Len(query) = 2 * n + 1
  BY <1>1, <1>2
<1>4. ASSUME columns[k] = c PROVE Assigns(query, c, k)
  <2>1. 2 * k + 1 \in 1..2 * n + 1 /\ 2 * k + 1 # 1 /\ 2 * k + 1 # 2 /\ (2 * k + 1) - 2 = 2 * k - 1
    BY <1>1
  <2>2. query[2 * k + 1] = Token(columns, 2 * k - 1)
    BY <1>2, <2>1
  <2>3. query[2 * k + 1] = <<c, k>>
    <3>1. k \in Nat \ {0}
      BY <1>1
    <3>2. Token(columns, 2 * k - 1) = <<columns[k], k>>
      BY <3>1, TokenIs
    <3> QED
      BY <1>4, <2>2, <3>2
  <2> QED
    BY <1>3, <2>1, <2>3 DEF Assigns
<1>5. ASSUME NEW i \in 1..2 * n + 1, query[i] = <<c, k>> PROVE columns[k] = c
  <2>1. <<c, k>> # UPDATE /\ <<c, k>> # SET /\ <<c, k>> # COMMA
    BY DEF UPDATE, SET, COMMA
  <2>2. i # 1 /\ i # 2 /\ Token(columns, i - 2) = <<c, k>>
    BY <1>2, <1>5, <2>1
  <2>3. <<columns[((i - 2) + 1) \div 2], ((i - 2) + 1) \div 2>> = <<c, k>>
    BY <2>1, <2>2 DEF Token
  <2> QED
    BY <2>3
<1> QED
  BY <1>3, <1>4, <1>5 DEF Assigns, query

(* The UPDATE that reachard_db_targets_update puts together, for whichever *)
(* columns a caller names and however many: PostgreSQL accepts it unless   *)
(* there are none (the comma that is overwritten without looking at it is  *)
(* then the T of SET), and it assigns to each column its own parameter and *)
(* to no column another one's (database/targets.c:204-220).                *)
THEOREM UpdateSays ==
  ASSUME NEW S, NEW columns \in Seq(S)
  PROVE  /\ Accepted(Query(columns)) <=> columns # <<>>
         /\ \A c \in S, k \in 1..Len(columns) :
              Assigns(Query(columns), c, k) <=> columns[k] = c
<1> DEFINE n == Len(columns)
<1>1. n \in Nat /\ (n # 0 <=> columns # <<>>)
  OBVIOUS
<1>2. Clauses(columns) = Tokens(columns, n)
  BY ClausesAre
<1> HIDE DEF n
<1>3. Accepted(Query(columns)) <=> n # 0
  BY <1>1, <1>2, QueryAccepted
<1>4. ASSUME NEW c \in S, NEW k \in 1..n
      PROVE  Assigns(Query(columns), c, k) <=> columns[k] = c
  BY <1>1, <1>2, QueryAssigns
<1> QED
  BY <1>1, <1>3, <1>4 DEF n

LEMMA TwoInOne ==
  ASSUME NEW a, NEW b
  PROVE  <<a>> \o <<b>> = <<a, b>>
<1> DEFINE U == {a, b}
           s == <<a>>
           t == <<b>>
           st == <<a, b>>
<1>1. /\ s \in Seq(U) /\ Len(s) = 1 /\ s[1] = a
      /\ t \in Seq(U) /\ Len(t) = 1 /\ t[1] = b
      /\ st \in Seq(U) /\ Len(st) = 2 /\ st[1] = a /\ st[2] = b
  OBVIOUS
<1> HIDE DEF U, s, t, st
<1>2. s \o t = [i \in 1..1 + 1 |-> IF i <= 1 THEN s[i] ELSE t[i - 1]]
  <2>1. s \o t = [i \in 1..Len(s) + Len(t) |-> IF i <= Len(s) THEN s[i] ELSE t[i - Len(s)]]
    BY <1>1, Concat
  <2> QED
    BY <1>1, <2>1
<1>3. st = [i \in 1..2 |-> st[i]]
  BY <1>1, SeqIs
<1>4. \A i \in 1..2 : st[i] = IF i <= 1 THEN s[i] ELSE t[i - 1]
  <2>1. \A i \in 1..2 : i = 1 \/ i = 2
    OBVIOUS
  <2> QED
    BY <1>1, <2>1
<1>5. s \o t = st
  BY <1>2, <1>3, <1>4
<1> QED
  BY <1>5 DEF s, t, st

LEMMA GivenIs ==
  ASSUME NEW body \in Fields
  PROVE  /\ body.url = Absent /\ body.interval = Absent => Given(body) = <<>>
         /\ body.url # Absent /\ body.interval = Absent => Given(body) = <<"url">>
         /\ body.url = Absent /\ body.interval # Absent => Given(body) = <<"interval">>
         /\ body.url # Absent /\ body.interval # Absent => Given(body) = <<"url", "interval">>
<1>1. body.url = Absent /\ body.interval = Absent => Given(body) = <<>>
  BY DEF Given
<1>2. body.url # Absent /\ body.interval = Absent => Given(body) = <<"url">>
  BY DEF Given
<1>3. body.url = Absent /\ body.interval # Absent => Given(body) = <<"interval">>
  BY DEF Given
<1>4. body.url # Absent /\ body.interval # Absent => Given(body) = <<"url", "interval">>
  <2>1. <<"url">> \o <<"interval">> = <<"url", "interval">>
    BY TwoInOne
  <2>2. body.url # Absent /\ body.interval # Absent => Given(body) = <<"url">> \o <<"interval">>
    BY DEF Given
  <2> QED
    BY <2>1, <2>2
<1> QED
  BY <1>1, <1>2, <1>3, <1>4

LEMMA GivenClauses ==
  ASSUME NEW body \in Fields
  PROVE  /\ Len(Given(body)) \in Nat
         /\ Clauses(Given(body)) = Tokens(Given(body), Len(Given(body)))
<1>1. Given(body) \in Seq(Column)
  <2>1. <<>> \in Seq(Column) /\ <<"url">> \in Seq(Column)
        /\ <<"interval">> \in Seq(Column) /\ <<"url", "interval">> \in Seq(Column)
    BY DEF Column
  <2> QED
    BY <2>1, GivenIs
<1> QED
  BY <1>1, ClausesAre

(* The columns that a body gives are those that are in it. *)
LEMMA UpdateAccepted ==
  ASSUME NEW body \in Fields
  PROVE  Accepted(Query(Given(body))) <=> body # [url |-> Absent, interval |-> Absent]
<1>1. Accepted(Query(Given(body))) <=> Len(Given(body)) # 0
  BY GivenClauses, QueryAccepted
<1>2. Len(Given(body)) = 0 <=> body.url = Absent /\ body.interval = Absent
  BY GivenIs
<1>3. body = [url |-> Absent, interval |-> Absent] <=> body.url = Absent /\ body.interval = Absent
  BY DEF Fields
<1> QED
  BY <1>1, <1>2, <1>3

(* cJSON's valueint is the closest int. *)
LEMMA ClosestInt ==
  ASSUME NEW n \in Int
  PROVE  Closest(ValueInt(n), n)
<1> DEFINE whole == IF n < 0 THEN -((-n) \div 2) ELSE n \div 2
<1>1. IntMin \in Int /\ IntMax \in Nat /\ IntMin <= -1
  BY IntBounds
<1>2. /\ whole \in Int
      /\ n >= 0 => 0 <= whole /\ 2 * whole <= n /\ n <= 2 * whole + 1
      /\ n < 0 => whole <= 0 /\ n <= 2 * whole /\ 2 * whole - 1 <= n
  OBVIOUS
<1>3. ValueInt(n) = IF whole > IntMax THEN IntMax ELSE IF whole < IntMin THEN IntMin ELSE whole
  BY DEF ValueInt
<1> HIDE DEF whole
<1> QED
  BY <1>1, <1>2, <1>3 DEF Closest, Within, Int32

LEMMA ParamIs ==
  ASSUME NEW n \in Int32
  PROVE  Param(n) = n
BY RoundTrip DEF Param

(* What a handler reads from a body is a row's, and close to what it says. *)
LEMMA ReadIs ==
  ASSUME NEW body \in Asked
  PROVE  /\ Read(body) \in Fields
         /\ Read(body).url = body.url
         /\ body.interval = Absent => Read(body).interval = Absent
         /\ body.interval # Absent =>
              /\ Read(body).interval \in Interval /\ Read(body).interval # Absent
              /\ Closest(Read(body).interval, body.interval)
<1> DEFINE n == body.interval
           i == IF n = Absent THEN Absent ELSE ValueInt(n)
<1>1. Read(body).url = body.url /\ Read(body).interval = i
  BY DEF Read
<1>2. ASSUME n # Absent PROVE n \in Int /\ i = ValueInt(n) /\ i \in Interval
  BY <1>2, RequestsAssumption DEF Asked
<1>3. ASSUME n # Absent PROVE Closest(i, n)
  BY <1>2, <1>3, ClosestInt
<1>4. body.url \in Url \cup {Absent}
  BY DEF Asked
<1>5. i \in Interval \cup {Absent} /\ (n # Absent => i # Absent)
  BY <1>2, RequestsAssumption
<1>6. Read(body) \in Fields
  BY <1>1, <1>4, <1>5 DEF Read, Fields
<1> QED
  BY <1>1, <1>2, <1>3, <1>5, <1>6

LEMMA AssignedAs ==
  ASSUME NEW body \in Fields, NEW row \in Row
  PROVE  /\ Assigned(row, body, "url") = OrKept(body.url, row.url)
         /\ Assigned(row, body, "interval") = OrKept(body.interval, row.interval)
<1> DEFINE columns == Given(body)
           Ks(c) == {k \in 1..Len(columns) : Assigns(Query(columns), c, k)}
<1>1. ASSUME NEW c PROVE Ks(c) = {k \in 1..Len(columns) : columns[k] = c}
  <2>1. ASSUME NEW k \in 1..Len(columns)
        PROVE  Assigns(Query(columns), c, k) <=> columns[k] = c
    BY GivenClauses, QueryAssigns
  <2> QED
    BY <2>1
<1>2. Param(body.interval) = body.interval \/ body.interval = Absent
  BY ParamIs, RequestsAssumption DEF Fields
<1>3. ASSUME NEW c \in Column
      PROVE  Assigned(row, body, c) =
               IF Ks(c) = {} THEN row[c]
               ELSE LET v == body[columns[CHOOSE k \in Ks(c) : TRUE]]
                    IN IF c = "interval" THEN Param(v) ELSE v
  BY DEF Assigned
<1> HIDE DEF Ks
<1>4. CASE body.url = Absent /\ body.interval = Absent
  <2>1. columns = <<>>
    BY <1>4, GivenIs
  <2>2. Ks("url") = {} /\ Ks("interval") = {}
    BY <1>1, <2>1
  <2> QED
    BY <1>3, <1>4, <2>2 DEF OrKept, Column
<1>5. CASE body.url # Absent /\ body.interval = Absent
  <2>1. columns = <<"url">>
    BY <1>5, GivenIs
  <2>2. Ks("url") = {1} /\ Ks("interval") = {}
    BY <1>1, <2>1
  <2> HIDE DEF columns
  <2> QED
    BY <1>3, <1>5, <2>1, <2>2 DEF OrKept, Column
<1>6. CASE body.url = Absent /\ body.interval # Absent
  <2>1. columns = <<"interval">>
    BY <1>6, GivenIs
  <2>2. Ks("url") = {} /\ Ks("interval") = {1}
    BY <1>1, <2>1
  <2> HIDE DEF columns
  <2> QED
    BY <1>2, <1>3, <1>6, <2>1, <2>2 DEF OrKept, Column
<1>7. CASE body.url # Absent /\ body.interval # Absent
  <2>1. columns = <<"url", "interval">>
    BY <1>7, GivenIs
  <2>2. Ks("url") = {1} /\ Ks("interval") = {2}
    BY <1>1, <2>1
  <2> HIDE DEF columns
  <2> QED
    BY <1>2, <1>3, <1>7, <2>1, <2>2 DEF OrKept, Column
<1> QED
  BY <1>4, <1>5, <1>6, <1>7

-----------------------------------------------------------------------------
(* What the model's sets hold.                                             *)

LEMMA RequestIs ==
  ASSUME NEW c \in Conn, NEW r \in Request(c)
  PROVE  /\ r.chunks \in Seq(Nat \ {0}) /\ Len(r.chunks) \in Nat
         /\ r.number \in Seq(Nat)
         /\ r.asks \in Meaning
         /\ \A k \in 1..Len(r.chunks) : r.chunks[k] \in Nat \ {0}
<1>1. /\ r.chunks \in Chunking[c] /\ r.number \in Number[c] /\ r.asks \in Meaning
  BY DEF Request
<1>2. r.chunks \in Seq(Nat \ {0}) /\ r.number \in Seq(0..Base - 1)
  BY <1>1, RequestsAssumption
<1>3. r.number \in Seq(Nat)
  BY <1>2, DigitSeq
<1>4. \A s \in Seq(Nat \ {0}) : Len(s) \in Nat /\ \A k \in 1..Len(s) : s[k] \in Nat \ {0}
  OBVIOUS
<1> QED
  BY <1>1, <1>2, <1>3, <1>4

LEMMA IdsAreInts ==
  /\ Id \subseteq Int32 /\ AnyId \subseteq Int32
  /\ \A number \in Seq(Nat) : IdsFrom(number, AnyId) \subseteq Int32
<1>1. MaxId \in Nat /\ MaxId <= IntMax
  BY TableAssumption, RequestsAssumption
<1>2. IntMin \in Int /\ IntMax \in Nat /\ IntMin <= -1
  BY IntBounds
<1>3. Id \subseteq Int32 /\ AnyId \subseteq Int32
  BY <1>1, <1>2 DEF Id, AnyId, Int32
<1>4. ASSUME NEW number \in Seq(Nat) PROVE Atoi(number) \in Int32
  <2>1. Value(number) \in Int
    BY ValueTyped
  <2> QED
    BY <2>1, AtoiNumber, WrapInt
<1> QED
  BY <1>3, <1>4 DEF IdsFrom

LEMMA RouteTyped ==
  ASSUME NEW method, NEW id
  PROVE  Route(method, id) \in Handler
BY DEF Route, Handler

LEMMA RoutedTyped ==
  ASSUME NEW c \in Conn, NEW r \in Request(c), NEW i \in Routed(r) \cup {Unmatched}
  PROVE  i \in Info /\ i.data = <<>>
<1>1. Unmatched \in Info /\ Unmatched.data = <<>>
  BY IntBounds DEF Unmatched, NewInfo, Info, Handler
<1>2. ASSUME NEW id \in Int32
      PROVE  NewInfo(Route(r.method, id), id) \in Info /\ NewInfo(Route(r.method, id), id).data = <<>>
  BY RouteTyped DEF NewInfo, Info
<1>3. CASE i \in Routed(r) /\ Matches(r.number)
  <2>1. PICK id \in IdsFrom(r.number, AnyId) : i = NewInfo(Route(r.method, id), id)
    BY <1>3 DEF Routed
  <2>2. id \in Int32
    BY <2>1, RequestIs, IdsAreInts
  <2> QED
    BY <1>2, <2>1, <2>2
<1>4. CASE ~(i \in Routed(r) /\ Matches(r.number))
  <2>1. i = Unmatched
    BY <1>4 DEF Routed
  <2> QED
    BY <1>1, <2>1
<1> QED
  BY <1>3, <1>4

-----------------------------------------------------------------------------
(* The inductive invariant: its part about the table, and its part about   *)
(* one connection, ...                                                     *)

TableInv ==
  /\ TableTypeOK
  /\ \A id \in Id : Exists(id) => id < nextId

Shape ==
  /\ stage \in [Conn -> Stage]
  /\ DOMAIN req = Conn
  /\ calls \in [Conn -> Nat]
  /\ info \in [Conn -> Info \cup {NoInfo}]
  /\ requests \in 0..MaxRequests

Outcomes ==
  /\ reply \in [Conn -> {0, 200, 400, 500}]
  /\ said \in [Conn -> Id \cup {0, 1}]
  /\ made \in [Conn -> Id \cup {0}]
  /\ ran \in [Conn -> Nat]

ConnInv(c) ==
  /\ IF stage[c] = "idle"
     THEN req[c] = NoInfo /\ calls[c] = 0
     ELSE req[c] \in Request(c) /\ calls[c] \in 0..Len(req[c].chunks)
  /\ stage[c] \in {"idle", "headers"} => info[c] = NoInfo
  /\ stage[c] \in {"upload", "received"} => info[c] \in Info /\ info[c].handle # "unset"
  /\ stage[c] = "headers" => calls[c] = 0
  /\ stage[c] = "upload" => calls[c] < Len(req[c].chunks)
  /\ stage[c] = "received" => calls[c] = Len(req[c].chunks)
  /\ stage[c] \in {"upload", "received"} => AsRouted(c) /\ BufferIsBody(c)

(* ... and all of it. *)
IndInv == TypeOK /\ RequestsInv

LEMMA InvParts ==
  IndInv <=> TableInv /\ Shape /\ Outcomes /\ \A c \in Conn : ConnInv(c)
BY DEF IndInv, RequestsInv, TypeOK, TableInv, Shape, Outcomes, ConnInv

LEMMA InvPartsNext ==
  IndInv' <=> TableInv' /\ Shape' /\ Outcomes' /\ \A c \in Conn : ConnInv(c)'
BY DEF IndInv, RequestsInv, TypeOK, TableInv, Shape, Outcomes, ConnInv

(* A connection that a step leaves alone. *)
LEMMA ElsewhereConn ==
  ASSUME NEW d \in Conn, ConnInv(d),
         stage'[d] = stage[d], req'[d] = req[d], calls'[d] = calls[d], info'[d] = info[d]
  PROVE  ConnInv(d)'
BY DEF ConnInv, AsRouted, BufferIsBody

LEMMA TableKept ==
  ASSUME TableInv, UNCHANGED tableVars
  PROVE  TableInv'
BY DEF TableInv, TableTypeOK, tableVars, Exists

LEMMA TableDelete ==
  ASSUME TableInv, NEW id \in Id, Delete(id)
  PROVE  TableInv'
BY DEF TableInv, TableTypeOK, Delete, Exists

LEMMA TablePatch ==
  ASSUME TableInv, NEW id \in Id, NEW u \in Url, NEW i \in Interval, Patch(id, u, i)
  PROVE  TableInv'
<1> DEFINE new == [rows[id] EXCEPT !.url = u, !.interval = i]
<1>1. rows[id] # NoRow => new \in Row
  BY DEF TableInv, TableTypeOK, Row
<1>2. rows' = [rows EXCEPT ![id] = IF rows[id] = NoRow THEN NoRow ELSE new] /\ nextId' = nextId
  BY DEF Patch, Update, TableInv, TableTypeOK
<1> HIDE DEF new
<1> QED
  BY <1>1, <1>2 DEF TableInv, TableTypeOK, Exists

LEMMA TableAdd ==
  ASSUME TableInv, NEW u \in Url, NEW i \in Interval, Add(u, i)
  PROVE  TableInv'
<1>1. [url |-> u, interval |-> i, up |-> TRUE] \in Row
  BY DEF Row
<1>2. MaxId \in Nat
  BY TableAssumption
<1> QED
  BY <1>1, <1>2 DEF TableInv, TableTypeOK, Exists, Add, Id

LEMMA TableAddFails ==
  ASSUME TableInv, AddFails
  PROVE  TableInv'
BY TableAssumption DEF TableInv, TableTypeOK, Exists, AddFails, Id

(* A step that ends the request of c, whatever it does to the table, is    *)
(* done with all that the invariant says of a request in progress.         *)
Ends(c) ==
  /\ TableInv'
  /\ stage' \in {Set(stage, c, "replied"), Set(stage, c, "closed")}
  /\ Outcomes'
  /\ UNCHANGED <<req, requests>>

LEMMA EndsStep ==
  ASSUME IndInv, NEW c \in Conn, Ends(c), stage[c] # "idle",
         info' \in [Conn -> Info \cup {NoInfo}],
         \A d \in Conn \ {c} : info'[d] = info[d],
         NEW n \in 0..Len(req[c].chunks), calls' = Set(calls, c, n)
  PROVE  IndInv'
<1>1. Shape /\ ConnInv(c) /\ \A d \in Conn : ConnInv(d)
  BY InvParts
<1>2. n \in Nat
  BY <1>1, RequestIs DEF ConnInv
<1>3. Shape'
  BY <1>1, <1>2 DEF Shape, Ends, Set, Stage
<1>4. ConnInv(c)'
  BY <1>1, <1>2 DEF Shape, Ends, Set, ConnInv
<1>5. ASSUME NEW d \in Conn \ {c} PROVE ConnInv(d)'
  <2>1. stage'[d] = stage[d] /\ req'[d] = req[d] /\ calls'[d] = calls[d] /\ info'[d] = info[d]
    BY <1>1 DEF Shape, Ends, Set
  <2> QED
    BY <1>1, <2>1, ElsewhereConn
<1> QED
  BY <1>3, <1>4, <1>5, InvPartsNext DEF Ends

LEMMA RespondTyped ==
  ASSUME IndInv, NEW c \in Conn, NEW status \in {200, 400, 500}, Respond(c, status)
  PROVE  /\ stage' \in {Set(stage, c, "replied"), Set(stage, c, "closed")}
         /\ reply' \in [Conn -> {0, 200, 400, 500}]
<1>1. Outcomes
  BY InvParts
<1> QED
  BY <1>1 DEF Respond, Outcomes, Set

-----------------------------------------------------------------------------
(* The handlers, called for a request that is in hand.                     *)

LEMMA DeleteEnds ==
  ASSUME IndInv, NEW c \in Conn, stage[c] \in {"upload", "received"},
         DeleteTarget(c), UNCHANGED <<req, requests>>
  PROVE  Ends(c)
<1>1. TableInv /\ Shape /\ Outcomes /\ ConnInv(c)
  BY InvParts
<1>2. PICK status \in {200, 500} : Respond(c, status)
  BY DEF DeleteTarget, Answered
<1>3. TableInv'
  <2>1. (\E id \in Id : Delete(id)) \/ UNCHANGED tableVars
    BY DEF DeleteTarget, HasRow
  <2> QED
    BY <1>1, <2>1, TableDelete, TableKept
<1>4. Outcomes'
  <2>1. ran' \in [Conn -> Nat]
    BY <1>1 DEF DeleteTarget, Ran, Set, Outcomes
  <2>2. said' = said /\ made' = made
    BY DEF DeleteTarget
  <2> QED
    BY <1>1, <1>2, <2>1, <2>2, RespondTyped DEF Outcomes
<1> QED
  BY <1>2, <1>3, <1>4, RespondTyped DEF Ends

LEMMA GetEnds ==
  ASSUME IndInv, NEW c \in Conn, stage[c] \in {"upload", "received"},
         GetTarget(c) \/ GetAllTargets(c), UNCHANGED <<req, requests>>
  PROVE  Ends(c)
<1>1. TableInv /\ Shape /\ Outcomes /\ ConnInv(c)
  BY InvParts
<1>2. PICK status \in {200, 500} : Respond(c, status)
  BY DEF GetTarget, GetAllTargets, Answered
<1>3. TableInv'
  BY <1>1, TableKept DEF GetTarget, GetAllTargets
<1>4. Outcomes'
  BY <1>1, <1>2, RespondTyped DEF Outcomes, GetTarget, GetAllTargets
<1> QED
  BY <1>2, <1>3, <1>4, RespondTyped DEF Ends

LEMMA UnderstoodTyped ==
  ASSUME NEW c \in Conn, req[c] \in Request(c), NEW body \in Understood(c)
  PROVE  body \in Meaning
BY RequestIs DEF Understood, Meaning

(* An accepted UPDATE puts what was asked for into the row, if there is one. *)
LEMMA UpdateRuns ==
  ASSUME NEW id \in Int, NEW body \in Fields, RunUpdate(id, body), TableInv
  PROVE  /\ TableInv'
         /\ \/ UNCHANGED tableVars /\ ~HasRow(id)
            \/ /\ HasRow(id)
               /\ Patch(id, OrKept(body.url, rows[id].url),
                            OrKept(body.interval, rows[id].interval))
<1>1. CASE ~HasRow(id)
  BY <1>1, TableKept DEF RunUpdate
<1>2. CASE HasRow(id)
  <2> DEFINE u == OrKept(body.url, rows[id].url)
             i == OrKept(body.interval, rows[id].interval)
  <2>1. id \in Id /\ rows[id] \in Row
    BY <1>2 DEF HasRow, Exists, TableInv, TableTypeOK
  <2>2. Patch(id, u, i)
    BY <1>2, <2>1, AssignedAs DEF RunUpdate
  <2>3. u \in Url /\ i \in Interval
    BY <2>1 DEF OrKept, Fields, Row
  <2> HIDE DEF u, i
  <2>4. TableInv'
    BY <2>1, <2>2, <2>3, TablePatch
  <2> QED
    BY <1>2, <2>2, <2>4 DEF u, i
<1> QED
  BY <1>1, <1>2

LEMMA PatchEnds ==
  ASSUME IndInv, NEW c \in Conn, stage[c] = "received",
         PatchTarget(c), UNCHANGED <<req, requests>>
  PROVE  Ends(c)
<1>1. TableInv /\ Shape /\ Outcomes /\ ConnInv(c)
  BY InvParts
<1>2. req[c] \in Request(c) /\ info[c].id \in Int
  BY <1>1, IntBounds DEF ConnInv, Info, Int32
<1>3. PICK body \in Understood(c) :
        IF body = NotJson
        THEN Respond(c, 400) /\ UNCHANGED <<tableVars, ran>>
        ELSE /\ Ran(c)
             /\ RunUpdate(info[c].id, Read(body)) \/ UNCHANGED tableVars
             /\ Respond(c, 200) \/ Respond(c, 500)
  BY DEF PatchTarget, Answered
<1>4. PICK status \in {200, 400, 500} : Respond(c, status)
  BY <1>3
<1>5. TableInv'
  <2>1. Read(body) \in Fields \/ body = NotJson
    BY <1>2, UnderstoodTyped, ReadIs DEF Meaning
  <2> QED
    BY <1>1, <1>2, <1>3, <2>1, UpdateRuns, TableKept
<1>6. ran' \in [Conn -> Nat]
  BY <1>1, <1>3 DEF Ran, Set, Outcomes
<1>7. Outcomes'
  BY <1>1, <1>4, <1>6, RespondTyped DEF Outcomes, PatchTarget
<1> QED
  BY <1>4, <1>5, <1>7, RespondTyped DEF Ends

LEMMA DefaultTyped ==
  ASSUME NEW body \in Asked
  PROVE  /\ OrDefault(Read(body).interval) \in Interval
         /\ Param(OrDefault(Read(body).interval)) = OrDefault(Read(body).interval)
         /\ TakenAs(OrDefault(Read(body).interval), body.interval, DefaultInterval)
<1>1. OrDefault(Read(body).interval) \in Interval
  BY ReadIs, RequestsAssumption DEF OrDefault
<1>2. Param(OrDefault(Read(body).interval)) = OrDefault(Read(body).interval)
  BY <1>1, ParamIs, RequestsAssumption
<1>3. TakenAs(OrDefault(Read(body).interval), body.interval, DefaultInterval)
  BY ReadIs DEF TakenAs, OrDefault
<1> QED
  BY <1>1, <1>2, <1>3

LEMMA PostEnds ==
  ASSUME IndInv, NEW c \in Conn, stage[c] = "received",
         PostTarget(c), UNCHANGED <<req, requests>>
  PROVE  Ends(c)
<1>1. TableInv /\ Shape /\ Outcomes /\ ConnInv(c)
  BY InvParts
<1>2. PICK body \in Understood(c) :
       IF body = NotJson \/ body.url = Absent
       THEN Respond(c, 400) /\ UNCHANGED <<tableVars, said, made, ran>>
       ELSE /\ Ran(c)
            /\ Respond(c, 200)
            /\ \/ /\ Add(body.url, Param(OrDefault(Read(body).interval)))
                  /\ \/ said' = Set(said, c, Atoi(Decimal(nextId)))
                     \/ said' = Set(said, c, 1)
                  /\ made' = Set(made, c, nextId)
               \/ /\ AddFails
                  /\ said' = Set(said, c, 1)
                  /\ UNCHANGED made
  BY DEF PostTarget
<1>3. body \in Asked \/ body = NotJson
  BY <1>1, UnderstoodTyped DEF ConnInv, Meaning
<1>4. PICK status \in {200, 400} : Respond(c, status)
  BY <1>2
<1>5. nextId \in Id => Atoi(Decimal(nextId)) = nextId
  BY IdsAreInts, AtoiDecimal
<1>6. CASE body = NotJson \/ body.url = Absent
  <2>1. TableInv'
    BY <1>1, <1>2, <1>6, TableKept
  <2>2. Outcomes'
    BY <1>1, <1>2, <1>4, <1>6, RespondTyped DEF Outcomes
  <2> QED
    BY <1>4, <2>1, <2>2, RespondTyped DEF Ends
<1>7. CASE ~(body = NotJson \/ body.url = Absent)
  <2> DEFINE i == Param(OrDefault(Read(body).interval))
  <2>1. body.url \in Url /\ i \in Interval
    BY <1>3, <1>7, DefaultTyped DEF Asked
  <2> HIDE DEF i
  <2>2. \/ /\ Add(body.url, i)
           /\ \/ said' = Set(said, c, Atoi(Decimal(nextId)))
              \/ said' = Set(said, c, 1)
           /\ made' = Set(made, c, nextId)
        \/ /\ AddFails
           /\ said' = Set(said, c, 1)
           /\ UNCHANGED made
    BY <1>2, <1>7 DEF i
  <2>3. TableInv'
    BY <1>1, <2>1, <2>2, TableAdd, TableAddFails
  <2>4. nextId \in Id
    BY <2>2 DEF Add, AddFails
  <2>5. ran' \in [Conn -> Nat]
    BY <1>1, <1>2, <1>7 DEF Ran, Set, Outcomes
  <2>6. said' \in [Conn -> Id \cup {0, 1}] /\ made' \in [Conn -> Id \cup {0}]
    BY <1>1, <1>5, <2>2, <2>4 DEF Set, Outcomes
  <2>7. Outcomes'
    BY <1>4, <2>5, <2>6, RespondTyped DEF Outcomes
  <2> QED
    BY <1>4, <2>3, <2>7, RespondTyped DEF Ends
<1> QED
  BY <1>6, <1>7

-----------------------------------------------------------------------------
(* The invariant, step by step.                                            *)

LEMMA InitInv == Init => IndInv
<1> SUFFICES ASSUME Init PROVE IndInv
  OBVIOUS
<1>1. TableInv /\ Shape /\ Outcomes
  BY RequestsAssumption DEF Init, TableInv, Shape, Outcomes, Stage
<1>2. ASSUME NEW c \in Conn PROVE ConnInv(c)
  BY DEF Init, ConnInv
<1> QED
  BY <1>1, <1>2, InvParts

LEMMA ArriveInv ==
  ASSUME IndInv, NEW c \in Conn, Arrive(c)
  PROVE  IndInv'
<1>1. TableInv /\ Shape /\ Outcomes /\ \A d \in Conn : ConnInv(d)
  BY InvParts
<1>2. PICK r \in Request(c) : req' = Set(req, c, r)
  BY DEF Arrive
<1>3. TableInv' /\ Outcomes'
  BY <1>1, TableKept DEF Arrive, Outcomes, outcomeVars
<1>4. Shape'
  BY <1>1, <1>2, RequestsAssumption DEF Shape, Arrive, Set, Stage
<1>5. ConnInv(c)'
  <2>1. req'[c] = r /\ stage'[c] = "headers" /\ calls'[c] = 0 /\ info'[c] = NoInfo
    BY <1>1, <1>2 DEF Arrive, Set, Shape, ConnInv
  <2>2. 0 \in 0..Len(r.chunks)
    BY RequestIs
  <2> QED
    BY <2>1, <2>2 DEF ConnInv
<1>6. ASSUME NEW d \in Conn \ {c} PROVE ConnInv(d)'
  <2>1. stage'[d] = stage[d] /\ req'[d] = req[d] /\ calls'[d] = calls[d] /\ info'[d] = info[d]
    BY <1>1, <1>2 DEF Arrive, Set, Shape
  <2> QED
    BY <1>1, <2>1, ElsewhereConn
<1> QED
  BY <1>3, <1>4, <1>5, <1>6, InvPartsNext

LEMMA AbortInv ==
  ASSUME IndInv, NEW c \in Conn, Abort(c)
  PROVE  IndInv'
<1>1. TableInv /\ Shape /\ Outcomes /\ ConnInv(c)
  BY InvParts
<1>2. Ends(c)
  BY <1>1, TableKept DEF Abort, Close, Ends, Outcomes
<1>3. stage[c] # "idle" /\ info' = info /\ calls' = Set(calls, c, calls[c])
  BY <1>1 DEF Abort, Set, Shape
<1>4. calls[c] \in 0..Len(req[c].chunks)
  BY <1>1, <1>3 DEF ConnInv
<1> QED
  BY <1>1, <1>2, <1>3, <1>4, EndsStep DEF Shape

LEMMA CompleteInv ==
  ASSUME IndInv, NEW c \in Conn, Complete(c)
  PROVE  IndInv'
<1>1. TableInv /\ Shape /\ Outcomes /\ \A d \in Conn : ConnInv(d)
  BY InvParts
<1>2. TableInv'
  BY <1>1, TableKept DEF Complete
<1>3. Outcomes'
  BY <1>1 DEF Complete, Outcomes, Set
<1>4. Shape'
  BY <1>1 DEF Complete, Shape, Set, Stage
<1>5. ConnInv(c)'
  BY <1>1 DEF Complete, Set, Shape, ConnInv
<1>6. ASSUME NEW d \in Conn \ {c} PROVE ConnInv(d)'
  <2>1. stage'[d] = stage[d] /\ req'[d] = req[d] /\ calls'[d] = calls[d] /\ info'[d] = info[d]
    BY <1>1 DEF Complete, Set, Shape
  <2> QED
    BY <1>1, <2>1, ElsewhereConn
<1> QED
  BY <1>2, <1>3, <1>4, <1>5, <1>6, InvPartsNext

LEMMA FirstCallInv ==
  ASSUME IndInv, NEW c \in Conn, FirstCall(c)
  PROVE  IndInv'
<1>1. TableInv /\ Shape /\ Outcomes /\ \A d \in Conn : ConnInv(d)
  BY InvParts
<1>2. /\ stage[c] = "headers" /\ req[c] \in Request(c) /\ calls[c] = 0
      /\ 0 \in 0..Len(req[c].chunks) /\ Len(req[c].chunks) \in Nat
      /\ calls' = Set(calls, c, 0)
  BY <1>1, RequestIs DEF FirstCall, ConnInv, Set, Shape
<1>3. TableInv'
  BY <1>1, TableKept DEF FirstCall
<1>4. UNCHANGED <<req, calls, said, made, ran, requests>>
  BY DEF FirstCall
<1>5. CASE Close(c) /\ UNCHANGED info
  <2>1. Ends(c)
    BY <1>1, <1>3, <1>4, <1>5 DEF Ends, Close, Outcomes
  <2> QED
    BY <1>1, <1>2, <1>5, <2>1, EndsStep DEF Shape
<1>6. ASSUME NEW i \in Routed(req[c]) \cup {Unmatched},
             info' = Set(info, c, i),
             IF i.handle = "unset"
             THEN Respond(c, 400)
             ELSE stage' = Set(stage, c, NextStage(c, 0)) /\ UNCHANGED reply
      PROVE  IndInv'
  <2>1. i \in Info /\ i.data = <<>>
    BY <1>2, RoutedTyped
  <2>2. /\ info' \in [Conn -> Info \cup {NoInfo}] /\ info'[c] = i
        /\ \A d \in Conn \ {c} : info'[d] = info[d]
    BY <1>1, <1>6, <2>1 DEF Set, Shape
  <2>3. CASE i.handle = "unset"
    <3>1. Ends(c)
      BY <1>1, <1>3, <1>4, <1>6, <2>3, RespondTyped DEF Ends, Outcomes
    <3> QED
      BY <1>2, <2>2, <3>1, EndsStep
  <2>4. CASE i.handle # "unset"
    <3>1. i \in Routed(req[c])
      BY <2>4 DEF Unmatched, NewInfo
    <3>2. Shape'
      BY <1>1, <1>4, <1>6, <2>2, <2>4 DEF Shape, Set, NextStage, Stage
    <3>3. Outcomes'
      BY <1>1, <1>4, <1>6, <2>4 DEF Outcomes
    <3>4. /\ stage'[c] = NextStage(c, 0) /\ req'[c] = req[c] /\ calls'[c] = 0
          /\ req' = req
      BY <1>1, <1>2, <1>4, <1>6, <2>4 DEF Shape, Set
    <3>5. AsRouted(c)'
      <4>1. info'[c] = [i EXCEPT !.data = info'[c].data]
        BY <2>1, <2>2 DEF Info
      <4> QED
        BY <3>1, <3>4, <4>1 DEF AsRouted
    <3>6. BufferIsBody(c)'
      BY <1>2, <2>1, <2>2, <3>4 DEF BufferIsBody, NextStage
    <3>7. ConnInv(c)'
      BY <1>2, <2>1, <2>2, <2>4, <3>4, <3>5, <3>6 DEF ConnInv, NextStage
    <3>8. ASSUME NEW d \in Conn \ {c} PROVE ConnInv(d)'
      <4>1. /\ stage'[d] = stage[d] /\ req'[d] = req[d]
            /\ calls'[d] = calls[d] /\ info'[d] = info[d]
        BY <1>1, <1>4, <1>6, <2>2, <2>4 DEF Set, Shape
      <4> QED
        BY <1>1, <4>1, ElsewhereConn
    <3> QED
      BY <1>3, <3>2, <3>3, <3>7, <3>8, InvPartsNext
  <2> QED
    BY <2>3, <2>4
<1> QED
  BY <1>5, <1>6 DEF FirstCall

(* What the buffer holds after a chunk: for a chunk that is put into an    *)
(* empty one, the chunk.                                                   *)
LEMMA UploadTyped ==
  ASSUME NEW data \in Seq(Nat), NEW n \in Nat
  PROVE  LET chunk == [k \in 1..n |-> Len(data) + k]
         IN /\ Upload(data, chunk) \in Seq(Nat)
            /\ data = <<>> => Upload(data, chunk) = [k \in 1..n |-> k]
<1> DEFINE chunk == [k \in 1..n |-> Len(data) + k]
           m == Len(data)
<1>1. m \in Nat /\ Len(chunk) = n /\ \A k \in 1..n : chunk[k] = m + k /\ chunk[k] \in Nat
  OBVIOUS
<1>2. \A k \in 1..m : data[k] \in Nat
  OBVIOUS
<1>3. Upload(data, chunk) =
        [k \in 1..m + n |-> IF k <= n THEN chunk[k] ELSE IF k <= m THEN data[k] ELSE 0]
  BY <1>1 DEF Upload
<1>4. data = <<>> => m = 0
  OBVIOUS
<1> HIDE DEF chunk, m
<1>5. Upload(data, chunk) \in Seq(Nat)
  <2> DEFINE v(k) == IF k <= n THEN chunk[k] ELSE IF k <= m THEN data[k] ELSE 0
  <2>1. ASSUME NEW k \in 1..m + n PROVE v(k) \in Nat
    BY <1>1, <1>2
  <2>2. m + n \in Nat
    BY <1>1
  <2>3. Upload(data, chunk) = [k \in 1..m + n |-> v(k)]
    BY <1>3
  <2> HIDE DEF v
  <2> QED
    BY <2>1, <2>2, <2>3
<1>6. ASSUME data = <<>> PROVE Upload(data, chunk) = [k \in 1..n |-> k]
  <2>1. m = 0
    BY <1>4, <1>6
  <2>2. \A k \in 1..n : (IF k <= n THEN chunk[k] ELSE IF k <= m THEN data[k] ELSE 0) = k
    BY <1>1, <2>1
  <2>3. m + n = n
    BY <2>1
  <2> QED
    BY <1>3, <2>2, <2>3
<1> QED
  BY <1>5, <1>6 DEF chunk

LEMMA UploadInv ==
  ASSUME IndInv, NEW c \in Conn, UploadCall(c)
  PROVE  IndInv'
<1>1. TableInv /\ Shape /\ Outcomes /\ \A d \in Conn : ConnInv(d)
  BY InvParts
<1> DEFINE L == Len(req[c].chunks)
           n == calls[c] + 1
<1>2. /\ stage[c] = "upload" /\ req[c] \in Request(c)
      /\ L \in Nat /\ calls[c] \in Nat /\ calls[c] < L
      /\ calls' = Set(calls, c, n) /\ UNCHANGED <<req, requests>>
  BY <1>1, RequestIs DEF UploadCall, ConnInv, Shape
<1>3. n \in 0..L /\ n \in 1..L
  BY <1>2
<1> HIDE DEF L, n
<1>4. CASE (DeleteTarget(c) \/ GetTarget(c) \/ GetAllTargets(c)) /\ UNCHANGED info
  <2>1. Ends(c)
    BY <1>2, <1>4, DeleteEnds, GetEnds
  <2> QED
    BY <1>1, <1>2, <1>3, <1>4, <2>1, EndsStep DEF Shape, L
<1>5. CASE StoreChunk(c)
  <2> DEFINE data == info[c].data
             chunk == [k \in 1..req[c].chunks[n] |-> Len(data) + k]
             new == Upload(data, chunk)
  <2>1. /\ info[c] \in Info /\ data \in Seq(Nat) /\ info[c].handle # "unset"
        /\ AsRouted(c) /\ BufferIsBody(c)
    BY <1>1, <1>2 DEF ConnInv, Info
  <2>2. req[c].chunks[n] \in Nat
    BY <1>2, <1>3, RequestIs DEF L
  <2>3. new \in Seq(Nat) /\ (data = <<>> => new = [k \in 1..req[c].chunks[n] |-> k])
    BY <2>1, <2>2, UploadTyped
  <2>4. /\ UNCHANGED <<tableVars, said, made, ran>>
        /\ \/ Close(c) /\ UNCHANGED info
           \/ /\ info' = [info EXCEPT ![c].data = new]
              /\ stage' = Set(stage, c, NextStage(c, n))
              /\ UNCHANGED reply
    BY <1>5 DEF StoreChunk, n
  <2> HIDE DEF data, chunk, new
  <2>5. TableInv'
    BY <1>1, <2>4, TableKept
  <2>6. CASE Close(c) /\ UNCHANGED info
    <3>1. Ends(c)
      BY <1>1, <1>2, <2>4, <2>5, <2>6 DEF Ends, Close, Outcomes
    <3> QED
      BY <1>1, <1>2, <1>3, <2>6, <3>1, EndsStep DEF Shape, L
  <2>7. CASE /\ info' = [info EXCEPT ![c].data = new]
             /\ stage' = Set(stage, c, NextStage(c, n))
             /\ UNCHANGED reply
    <3>1. [info[c] EXCEPT !.data = new] \in Info
      BY <2>1, <2>3 DEF Info
    <3>2. /\ info' \in [Conn -> Info \cup {NoInfo}]
          /\ info'[c] = [info[c] EXCEPT !.data = new]
          /\ info'[c].handle = info[c].handle /\ info'[c].data = new
          /\ \A d \in Conn \ {c} : info'[d] = info[d]
      BY <1>1, <2>1, <2>7, <3>1 DEF Shape, Info
    <3>3. /\ stage'[c] = NextStage(c, n) /\ req'[c] = req[c] /\ calls'[c] = n
          /\ calls' \in [Conn -> Nat] /\ stage' \in [Conn -> Stage]
      BY <1>1, <1>2, <1>3, <2>7 DEF Shape, Set, NextStage, Stage
    <3>4. Shape'
      BY <1>1, <1>2, <3>2, <3>3 DEF Shape
    <3>5. Outcomes'
      BY <1>1, <2>4, <2>7 DEF Outcomes
    <3>6. AsRouted(c)'
      <4>1. PICK i \in Routed(req[c]) : info[c] = [i EXCEPT !.data = info[c].data]
        BY <2>1 DEF AsRouted
      <4>2. i \in Info
        BY <1>2, <4>1, RoutedTyped
      <4>3. info'[c] = [i EXCEPT !.data = info'[c].data]
        BY <3>2, <4>1, <4>2 DEF Info
      <4> QED
        BY <3>3, <4>1, <4>3 DEF AsRouted
    <3>7. BufferIsBody(c)'
      <4>1. ASSUME stage'[c] = "received", L = 1 PROVE new = [k \in 1..req[c].chunks[1] |-> k]
        <5>1. n = 1 /\ calls[c] = 0
          BY <1>2, <1>3, <4>1 DEF n
        <5>2. data = <<>>
          BY <1>2, <2>1, <5>1 DEF BufferIsBody, data
        <5> QED
          BY <2>3, <5>1, <5>2
      <4>2. calls'[c] # 0
        BY <1>3, <3>3
      <4> QED
        BY <3>2, <3>3, <4>1, <4>2 DEF BufferIsBody, L
    <3>8. ConnInv(c)'
      <4>1. stage'[c] = "upload" => n < L
        BY <3>3 DEF NextStage, L
      <4>2. stage'[c] = "received" => n = L
        BY <1>2, <1>3, <3>3 DEF NextStage, L
      <4>3. stage'[c] \in {"upload", "received"}
        BY <3>3 DEF NextStage
      <4> QED
        BY <1>2, <1>3, <2>1, <3>1, <3>2, <3>3, <3>6, <3>7, <4>1, <4>2, <4>3 DEF ConnInv, L
    <3>9. ASSUME NEW d \in Conn \ {c} PROVE ConnInv(d)'
      <4>1. /\ stage'[d] = stage[d] /\ req'[d] = req[d]
            /\ calls'[d] = calls[d] /\ info'[d] = info[d]
        BY <1>1, <1>2, <2>7, <3>2 DEF Set, Shape
      <4> QED
        BY <1>1, <4>1, ElsewhereConn
    <3> QED
      BY <2>5, <3>4, <3>5, <3>8, <3>9, InvPartsNext
  <2> QED
    BY <2>4, <2>6, <2>7
<1> QED
  BY <1>4, <1>5 DEF UploadCall

LEMMA LastCallInv ==
  ASSUME IndInv, NEW c \in Conn, LastCall(c)
  PROVE  IndInv'
<1>1. Shape /\ ConnInv(c)
  BY InvParts
<1>2. /\ stage[c] = "received" /\ UNCHANGED <<req, calls, info, requests>>
      /\ calls' = Set(calls, c, calls[c]) /\ calls[c] \in 0..Len(req[c].chunks)
  BY <1>1 DEF LastCall, ConnInv, Set, Shape
<1>3. Ends(c)
  BY <1>2, DeleteEnds, GetEnds, PatchEnds, PostEnds DEF LastCall
<1> QED
  BY <1>1, <1>2, <1>3, EndsStep DEF Shape

LEMMA StepInv == IndInv /\ [Next]_vars => IndInv'
<1> SUFFICES ASSUME IndInv, [Next]_vars PROVE IndInv'
  OBVIOUS
<1>1. CASE UNCHANGED vars
  <2>1. TableInv /\ Shape /\ Outcomes /\ \A c \in Conn : ConnInv(c)
    BY InvParts
  <2>2. TableInv' /\ Shape' /\ Outcomes'
    BY <1>1, <2>1, TableKept DEF vars, outcomeVars, Shape, Outcomes
  <2>3. \A c \in Conn : ConnInv(c)'
    BY <1>1, <2>1, ElsewhereConn DEF vars
  <2> QED
    BY <2>2, <2>3, InvPartsNext
<1>2. CASE Next
  BY <1>2, ArriveInv, AbortInv, CompleteInv, FirstCallInv, UploadInv, LastCallInv DEF Next
<1> QED
  BY <1>1, <1>2

LEMMA AlwaysIndInv == Spec => []IndInv
BY InitInv, StepInv, PTL DEF Spec

(* What a request in progress has in its struct (handle.h:34-39, between   *)
(* the calls of handle.c:134-158) holds in every state, for any            *)
(* connections, any bodies however they are cut, any table and any URLs.   *)
THEOREM Invariant == Spec => []RequestsInv
BY AlwaysIndInv, PTL DEF IndInv

(* Type correctness, as a part of the invariant: every id is an int, and   *)
(* every id that a reply names is one the table may have, or the 1 of a    *)
(* failed INSERT.                                                          *)
THEOREM TypeCorrect == Spec => []TypeOK
BY AlwaysIndInv, PTL DEF IndInv

-----------------------------------------------------------------------------
(* What a request does to the table.                                       *)

(* The handler of a request in hand is the one for its method, and its id  *)
(* is the one that its URL spells.                                         *)
LEMMA InHand ==
  ASSUME IndInv, NEW c \in Conn, stage[c] \in {"upload", "received"}
  PROVE  /\ info[c].handle = Route(req[c].method, info[c].id)
         /\ info[c].id \in Int32 /\ Param(info[c].id) = info[c].id
         /\ Names(req[c], info[c].id)
<1>1. ConnInv(c)
  BY InvParts
<1>2. /\ req[c] \in Request(c) /\ info[c] \in Info /\ info[c].handle # "unset"
      /\ info[c].id \in Int32
  BY <1>1 DEF ConnInv, Info
<1>3. PICK i \in Routed(req[c]) : info[c] = [i EXCEPT !.data = info[c].data]
  BY <1>1 DEF ConnInv, AsRouted
<1>4. i \in Info
  BY <1>2, <1>3, RoutedTyped
<1>5. info[c].handle = i.handle /\ info[c].id = i.id
  BY <1>3, <1>4 DEF Info
<1>6. Matches(req[c].number)
  BY <1>2, <1>3, <1>5 DEF Routed, Unmatched, NewInfo
<1>7. PICK id \in IdsFrom(req[c].number, AnyId) : i = NewInfo(Route(req[c].method, id), id)
  BY <1>3, <1>6 DEF Routed
<1>8. info[c].id = id /\ info[c].handle = Route(req[c].method, id)
  BY <1>5, <1>7 DEF NewInfo
<1>9. Names(req[c], id)
  <2> SUFFICES ASSUME Value(req[c].number) \in Int32, Len(req[c].number) < IntStrLen
               PROVE  Value(req[c].number) = id
    BY DEF Names
  <2>1. id = Atoi(req[c].number)
    BY <1>7 DEF IdsFrom
  <2>2. req[c].number \in Seq(Nat)
    BY <1>2, RequestIs
  <2> QED
    BY <2>1, <2>2, AtoiNumber, WrapInt
<1> QED
  BY <1>2, <1>8, <1>9, ParamIs

LEMMA Methods ==
  ASSUME NEW method, NEW id
  PROVE  /\ Route(method, id) = "delete" => method = "DELETE"
         /\ Route(method, id) \in {"get", "get_all"} => method = "GET"
         /\ Route(method, id) = "patch" => method = "PATCH"
         /\ Route(method, id) = "post" => method = "POST"
         /\ method = "PATCH" => Route(method, id) \in {"patch", "unset"}
BY DEF Route

(* A body that came in one chunk is understood as it was sent. *)
LEMMA WholeUnderstood ==
  ASSUME IndInv, NEW c \in Conn, stage[c] = "received",
         info[c].handle \in {"patch", "post"}, Len(req[c].chunks) = 1,
         NEW body \in Understood(c)
  PROVE  body = req[c].asks
<1> DEFINE n == req[c].chunks[1]
<1>1. ConnInv(c) /\ req[c] \in Request(c)
  BY InvParts DEF ConnInv
<1>2. info[c].data = [k \in 1..n |-> k]
  BY <1>1 DEF ConnInv, BufferIsBody
<1>3. n \in Nat /\ req[c].chunks # <<>>
  <2>1. 1 \in 1..Len(req[c].chunks)
    OBVIOUS
  <2>2. n \in Nat
    BY <1>1, <2>1, RequestIs
  <2>3. Len(<<>>) # 1
    OBVIOUS
  <2> QED
    BY <2>2, <2>3
<1>4. Len(info[c].data) = n
  BY <1>2, <1>3
<1>5. Intact(c)
  BY <1>2, <1>4 DEF Intact
<1> QED
  BY <1>3, <1>5 DEF Understood

LEMMA RanMore ==
  ASSUME IndInv, NEW c \in Conn, Ran(c)
  PROVE  ran'[c] > ran[c]
<1>1. Outcomes
  BY InvParts
<1> QED
  BY <1>1 DEF Outcomes, Ran, Set

LEMMA DeleteDone ==
  ASSUME IndInv, NEW c \in Conn, stage[c] \in {"upload", "received"}, DeleteTarget(c),
         NEW id \in Id, rows'[id] # rows[id]
  PROVE  DoneAsAsked(c, id)
<1>1. TableInv
  BY InvParts
<1>2. info[c].handle = "delete" /\ Ran(c)
  BY DEF DeleteTarget
<1>3. info[c].id \in Id /\ Delete(info[c].id)
  BY InHand DEF DeleteTarget, HasRow, tableVars
<1>4. id = info[c].id /\ ~Exists(id)'
  BY <1>1, <1>3 DEF Delete, TableInv, TableTypeOK, Exists
<1>5. req[c].method = "DELETE" /\ Names(req[c], id)
  BY <1>2, <1>4, InHand, Methods
<1> QED
  BY <1>2, <1>4, <1>5, RanMore DEF DoneAsAsked

(* The row after an UPDATE is the one that the body asks for. *)
PatchedTo(row, old, body) ==
  row = [url |-> OrKept(body.url, old.url), up |-> old.up,
         interval |-> OrKept(body.interval, old.interval)]

LEMMA PatchedToAs ==
  ASSUME NEW row, NEW old, NEW asks \in Asked, PatchedTo(row, old, Read(asks))
  PROVE  PatchedAs(row, old, asks)
<1>1. /\ row.url = OrKept(Read(asks).url, old.url) /\ row.up = old.up
      /\ row.interval = OrKept(Read(asks).interval, old.interval)
  BY DEF PatchedTo
<1>2. row.url = OrKept(asks.url, old.url)
  BY <1>1, ReadIs
<1>3. TakenAs(row.interval, asks.interval, old.interval)
  BY <1>1, ReadIs DEF TakenAs, OrKept
<1> QED
  BY <1>1, <1>2, <1>3 DEF PatchedAs

LEMMA PatchedRow ==
  ASSUME TableInv, NEW id \in Id, Exists(id), NEW body \in Fields,
         Patch(id, OrKept(body.url, rows[id].url), OrKept(body.interval, rows[id].interval))
  PROVE  /\ PatchedTo(rows'[id], rows[id], body) /\ Exists(id)'
         /\ \A other \in Id \ {id} : rows'[other] = rows[other]
<1> DEFINE u == OrKept(body.url, rows[id].url)
           i == OrKept(body.interval, rows[id].interval)
           new == [rows[id] EXCEPT !.url = u, !.interval = i]
<1>1. rows \in [Id -> Row \cup {NoRow}] /\ rows[id] \in Row /\ rows[id] # NoRow
  BY DEF TableInv, TableTypeOK, Exists
<1>2. u \in Url /\ i \in Interval
  BY <1>1 DEF OrKept, Fields, Row
<1>3. rows' = [rows EXCEPT ![id] = new]
  BY <1>1 DEF Patch, Update
<1> HIDE DEF u, i
<1>4. new \in Row /\ new = [url |-> u, up |-> rows[id].up, interval |-> i]
  <2> DEFINE old == rows[id]
  <2>1. old \in Row
    BY <1>1
  <2> HIDE DEF old
  <2>2. new \in Row /\ new.url = u /\ new.interval = i /\ new.up = old.up
    BY <1>2, <2>1 DEF Row, old
  <2> HIDE DEF new
  <2>3. new = [url |-> new.url, up |-> new.up, interval |-> new.interval]
    BY <2>2 DEF Row
  <2> QED
    BY <2>2, <2>3 DEF old
<1>5. new # NoRow
  BY <1>4, TableAssumption
<1> HIDE DEF new
<1>6. rows'[id] = new /\ \A other \in Id \ {id} : rows'[other] = rows[other]
  BY <1>1, <1>3
<1> QED
  BY <1>4, <1>5, <1>6 DEF PatchedTo, Exists, u, i

LEMMA PatchDone ==
  ASSUME IndInv, NEW c \in Conn, stage[c] = "received", PatchTarget(c),
         NEW id \in Id, rows'[id] # rows[id]
  PROVE  DoneAsAsked(c, id)
<1>1. TableInv /\ ConnInv(c)
  BY InvParts
<1>2. info[c].handle = "patch"
  BY DEF PatchTarget
<1>3. PICK asked \in Understood(c) :
        asked # NotJson /\ Ran(c) /\ RunUpdate(info[c].id, Read(asked))
  BY DEF PatchTarget, tableVars
<1> DEFINE body == Read(asked)
<1>4. asked \in Asked /\ body \in Fields
  BY <1>1, <1>3, UnderstoodTyped, ReadIs DEF ConnInv, Meaning
<1>a. RunUpdate(info[c].id, body)
  BY <1>3
<1> HIDE DEF body
<1> DEFINE row == info[c].id
<1>5. row \in Int /\ req[c].method = "PATCH" /\ Names(req[c], row)
  BY <1>2, InHand, Methods, IntBounds DEF Int32
<1> HIDE DEF row
<1>6. /\ row \in Id /\ Exists(row)
      /\ Patch(row, OrKept(body.url, rows[row].url), OrKept(body.interval, rows[row].interval))
  BY <1>1, <1>a, <1>4, <1>5, UpdateRuns DEF row, HasRow, tableVars
<1>7. id = row
  BY <1>1, <1>4, <1>6, PatchedRow
<1>8. PatchedTo(rows'[id], rows[id], body) /\ Exists(id) /\ Exists(id)'
  BY <1>1, <1>4, <1>6, <1>7, PatchedRow
<1>b. PatchedAs(rows'[id], rows[id], asked)
  BY <1>4, <1>8, PatchedToAs DEF body
<1>9. Len(req[c].chunks) = 1 => asked = req[c].asks
  BY <1>2, <1>3, WholeUnderstood
<1>10. ran'[c] > ran[c]
  BY <1>3, RanMore
<1> QED
  BY <1>3, <1>5, <1>7, <1>8, <1>9, <1>10, <1>b DEF DoneAsAsked

LEMMA PostDone ==
  ASSUME IndInv, NEW c \in Conn, stage[c] = "received", PostTarget(c),
         NEW id \in Id, rows'[id] # rows[id]
  PROVE  DoneAsAsked(c, id)
<1>1. TableInv /\ ConnInv(c) /\ Outcomes
  BY InvParts
<1>2. info[c].handle = "post" /\ req[c].method = "POST"
  BY InHand, Methods DEF PostTarget
<1>3. PICK body \in Understood(c) :
        /\ ~(body = NotJson \/ body.url = Absent)
        /\ Ran(c)
        /\ Add(body.url, Param(OrDefault(Read(body).interval)))
        /\ \/ said' = Set(said, c, Atoi(Decimal(nextId)))
           \/ Faults /\ said' = Set(said, c, 1)
  BY DEF PostTarget, tableVars, AddFails
<1>4. body \in Asked
  BY <1>1, <1>3, UnderstoodTyped DEF ConnInv, Meaning
<1>5. Param(OrDefault(Read(body).interval)) = OrDefault(Read(body).interval)
  BY <1>4, DefaultTyped
<1> DEFINE new == [url |-> body.url, interval |-> OrDefault(Read(body).interval), up |-> TRUE]
<1>6. nextId \in Id /\ rows' = [rows EXCEPT ![nextId] = new]
  BY <1>3, <1>5 DEF Add
<1>7. body.url \in Url
  BY <1>3, <1>4 DEF Asked
<1>8. new \in Row
  BY <1>4, <1>7, DefaultTyped DEF Row
<1>9. new # NoRow
  BY <1>8, TableAssumption
<1>10. PostedAs(new, body)
  BY <1>4, DefaultTyped DEF PostedAs
<1> HIDE DEF new
<1>11. id = nextId /\ rows'[id] = new
  BY <1>1, <1>6 DEF TableInv, TableTypeOK
<1>12. ~Exists(id) /\ Exists(id)'
  <2>1. ~(nextId < nextId)
    BY <1>6 DEF Id
  <2> QED
    BY <1>1, <1>9, <1>11, <2>1 DEF TableInv, Exists
<1>13. said'[c] = id \/ (Faults /\ said'[c] = 1)
  BY <1>1, <1>3, <1>6, <1>11, IdsAreInts, AtoiDecimal DEF Outcomes, Set
<1>14. Len(req[c].chunks) = 1 => body = req[c].asks
  BY <1>2, <1>3, WholeUnderstood
<1>15. ran'[c] > ran[c]
  BY <1>3, RanMore
<1> QED
  BY <1>2, <1>3, <1>10, <1>11, <1>12, <1>13, <1>14, <1>15 DEF DoneAsAsked

(* The only calls that touch the table are those of these three handlers.  *)
LEMMA ChangesStep ==
  ASSUME IndInv, Next, NEW id \in Id, rows'[id] # rows[id]
  PROVE  \E c \in Conn : DoneAsAsked(c, id)
<1>1. PICK c \in Conn :
        \/ Arrive(c) \/ Abort(c) \/ Complete(c)
        \/ FirstCall(c) \/ UploadCall(c) \/ LastCall(c)
  BY DEF Next
<1>2. ~UNCHANGED tableVars
  BY DEF tableVars
<1>3. UploadCall(c) \/ LastCall(c)
  BY <1>1, <1>2 DEF Arrive, Abort, Complete, FirstCall
<1>4. CASE UploadCall(c)
  <2>1. stage[c] = "upload" /\ DeleteTarget(c)
    BY <1>2, <1>4 DEF UploadCall, StoreChunk, GetTarget, GetAllTargets
  <2> QED
    BY <2>1, DeleteDone
<1>5. CASE LastCall(c)
  <2>1. stage[c] = "received" /\ (DeleteTarget(c) \/ PatchTarget(c) \/ PostTarget(c))
    BY <1>2, <1>5 DEF LastCall, GetTarget, GetAllTargets
  <2> QED
    BY <2>1, DeleteDone, PatchDone, PostDone
<1> QED
  BY <1>3, <1>4, <1>5

(* A row changes only on behalf of a request that asks for the change, and *)
(* as it asks: a DELETE or PATCH of the row that its URL spells, leading   *)
(* zeros or not; a POST of a row that was not there, under the id that it  *)
(* is told; and the numbers survive their way through texts and buffers.   *)
THEOREM ChangesOnlyAsAsked == Spec => ChangesAsAsked
<1>1. IndInv /\ [Next]_vars =>
        [\A id \in Id : rows'[id] # rows[id] => \E c \in Conn : DoneAsAsked(c, id)]_vars
  BY ChangesStep
<1> QED
  BY <1>1, AlwaysIndInv, PTL DEF Spec, ChangesAsAsked

-----------------------------------------------------------------------------
(* What an answer to a PATCH promises.                                     *)

(* A step replies to the request of one connection only. *)
LEMMA RepliesToOne ==
  ASSUME IndInv, NEW d \in Conn,
         \/ Arrive(d) \/ Abort(d) \/ Complete(d)
         \/ FirstCall(d) \/ UploadCall(d) \/ LastCall(d),
         NEW c \in Conn \ {d}
  PROVE  reply'[c] = reply[c]
<1>1. Outcomes
  BY InvParts
<1>2. ASSUME NEW status, Respond(d, status) PROVE reply'[c] = reply[c]
  BY <1>1, <1>2 DEF Respond, Outcomes, Set
<1>3. CASE Arrive(d) \/ Abort(d)
  BY <1>3 DEF Arrive, Abort, Close, outcomeVars
<1>4. CASE Complete(d)
  BY <1>1, <1>4 DEF Complete, Outcomes, Set
<1>5. CASE FirstCall(d)
  BY <1>2, <1>5 DEF FirstCall, Close
<1>6. ASSUME DeleteTarget(d) \/ GetTarget(d) \/ GetAllTargets(d) PROVE reply'[c] = reply[c]
  BY <1>2, <1>6 DEF DeleteTarget, GetTarget, GetAllTargets, Answered
<1>7. CASE UploadCall(d)
  BY <1>6, <1>7 DEF UploadCall, StoreChunk, Close
<1>8. CASE LastCall(d)
  <2>1. ASSUME PatchTarget(d) PROVE reply'[c] = reply[c]
    BY <1>2, <2>1 DEF PatchTarget, Answered
  <2>2. ASSUME PostTarget(d) PROVE reply'[c] = reply[c]
    BY <1>2, <2>2 DEF PostTarget
  <2> QED
    BY <1>6, <1>8, <2>1, <2>2 DEF LastCall
<1> QED
  BY <1>3, <1>4, <1>5, <1>7, <1>8

LEMMA RepliedWith ==
  ASSUME IndInv, NEW c \in Conn, NEW status \in Nat, Respond(c, status),
         Answers(c, 200)
  PROVE  status = 200
<1>1. Outcomes
  BY InvParts
<1> QED
  BY <1>1 DEF Respond, Outcomes, Set, Answers

(* The answer 200 to a PATCH comes from its handler, in the last call.     *)
LEMMA AnsweredByHandler ==
  ASSUME IndInv, Next, NEW c \in Conn, Answers(c, 200), req[c].method = "PATCH"
  PROVE  stage[c] = "received" /\ PatchTarget(c)
<1>1. Outcomes
  BY InvParts
<1>2. \/ Arrive(c) \/ Abort(c) \/ Complete(c)
      \/ FirstCall(c) \/ UploadCall(c) \/ LastCall(c)
  <2>1. PICK d \in Conn :
          \/ Arrive(d) \/ Abort(d) \/ Complete(d)
          \/ FirstCall(d) \/ UploadCall(d) \/ LastCall(d)
    BY DEF Next
  <2>2. d = c
    BY <2>1, RepliesToOne DEF Answers
  <2> QED
    BY <2>1, <2>2
<1>3. UploadCall(c) \/ LastCall(c)
  <2>1. ~Arrive(c) /\ ~Abort(c)
    BY DEF Arrive, Abort, Close, outcomeVars, Answers
  <2>2. ~Complete(c)
    BY <1>1 DEF Complete, Outcomes, Set, Answers
  <2>3. ~FirstCall(c)
    BY RepliedWith DEF FirstCall, Close, Answers
  <2> QED
    BY <1>2, <2>1, <2>2, <2>3
<1>4. stage[c] \in {"upload", "received"}
  BY <1>3 DEF UploadCall, LastCall
<1>5. info[c].handle \in {"patch", "unset"}
  BY <1>4, InHand, Methods
<1>6. ~DeleteTarget(c) /\ ~GetTarget(c) /\ ~GetAllTargets(c) /\ ~PostTarget(c)
  BY <1>5 DEF DeleteTarget, GetTarget, GetAllTargets, PostTarget
<1>7. ~StoreChunk(c)
  BY DEF StoreChunk, Close, Answers
<1> QED
  BY <1>3, <1>6, <1>7 DEF UploadCall, LastCall

LEMMA MadeStep ==
  ASSUME IndInv, Next, NEW c \in Conn
  PROVE  MadeAsAsked(c)
<1> SUFFICES ASSUME Answers(c, 200), req[c].method = "PATCH", Len(req[c].chunks) = 1
             PROVE  /\ req[c].asks \notin {NotJson, [url |-> Absent, interval |-> Absent]}
                    /\ \A id \in Id :
                         /\ Exists(id)
                         /\ Len(req[c].number) < IntStrLen /\ Value(req[c].number) = id
                         => PatchedAs(rows'[id], rows[id], req[c].asks)
  BY DEF MadeAsAsked
<1>1. TableInv /\ ConnInv(c)
  BY InvParts
<1>2. stage[c] = "received" /\ PatchTarget(c)
  BY AnsweredByHandler
<1>3. info[c].handle = "patch"
  BY <1>2 DEF PatchTarget
<1>4. PICK asked \in Understood(c) : asked # NotJson /\ RunUpdate(info[c].id, Read(asked))
  BY <1>2, RepliedWith DEF PatchTarget, Answered
<1> DEFINE body == Read(asked)
<1>5. asked = req[c].asks /\ asked \in Asked /\ body \in Fields
  BY <1>1, <1>2, <1>3, <1>4, WholeUnderstood, UnderstoodTyped, ReadIs DEF ConnInv, Meaning
<1>a. RunUpdate(info[c].id, body)
  BY <1>4
<1>6. asked # [url |-> Absent, interval |-> Absent]
  <2>1. body # [url |-> Absent, interval |-> Absent]
    BY <1>5, <1>a, UpdateAccepted DEF RunUpdate
  <2> QED
    BY <2>1 DEF Read
<1> HIDE DEF body
<1>7. ASSUME NEW id \in Id, Exists(id),
             Len(req[c].number) < IntStrLen, Value(req[c].number) = id
      PROVE  PatchedAs(rows'[id], rows[id], asked)
  <2>1. info[c].id = id
    BY <1>2, <1>7, InHand, IdsAreInts DEF Names
  <2>2. id \in Int /\ HasRow(id)
    BY <1>7 DEF Id, HasRow
  <2>3. Patch(id, OrKept(body.url, rows[id].url), OrKept(body.interval, rows[id].interval))
    BY <1>1, <1>5, <1>a, <2>1, <2>2, UpdateRuns
  <2>4. PatchedTo(rows'[id], rows[id], body)
    BY <1>1, <1>5, <1>7, <2>3, PatchedRow
  <2> QED
    BY <1>5, <2>4, PatchedToAs DEF body
<1> QED
  BY <1>4, <1>5, <1>6, <1>7

(* A PATCH in one chunk that is answered with 200 named a field, and the   *)
(* row that its URL spells has what it asked for: the query that is put    *)
(* together for the fields is one that PostgreSQL accepts, and says that.  *)
THEOREM PatchIsAlwaysMade == Spec => PatchIsMade
<1>1. IndInv /\ [Next]_vars => [\A c \in Conn : MadeAsAsked(c)]_vars
  BY MadeStep
<1> QED
  BY <1>1, AlwaysIndInv, PTL DEF Spec, PatchIsMade

=============================================================================
