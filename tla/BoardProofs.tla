---------------------------- MODULE BoardProofs ----------------------------
(***************************************************************************)
(* The monitor implements the status board, for every value of the         *)
(* constants: Watcher's initial states are initial states of StatusBoard   *)
(* under the refinement mapping, and each of its steps is a step of        *)
(* StatusBoard or leaves the board as it is.                               *)
(***************************************************************************)
EXTENDS WatcherProofs

-----------------------------------------------------------------------------
(* The refinement mapping, slot by slot.                                   *)

Asking(s, u) == Live(s) /\ transfer[s].answer = NoAnswer /\ transfer[s].url = u

Hearing(s, o) == Answered(s) /\ transfer[s].answer = o

LEMMA AskedBySlots ==
  ASSUME NEW id \in Id, NEW u
  PROVE  u \in Asked[id] <=> \E s \in Slot : s[1] = id /\ Asking(s, u)
BY DEF Asked, SlotsOf, Answered, Asking

LEMMA AskedBySlotsNext ==
  ASSUME NEW id \in Id, NEW u
  PROVE  u \in Asked'[id] <=> \E s \in Slot : s[1] = id /\ Asking(s, u)'
BY DEF Asked, SlotsOf, Answered, Asking, Live

LEMMA HeardBySlots ==
  ASSUME NEW id \in Id, NEW o
  PROVE  o \in Heard[id] <=> \E s \in Slot : s[1] = id /\ Hearing(s, o)
BY DEF Heard, SlotsOf, Hearing

LEMMA HeardBySlotsNext ==
  ASSUME NEW id \in Id, NEW o
  PROVE  o \in Heard'[id] <=> \E s \in Slot : s[1] = id /\ Hearing(s, o)'
BY DEF Heard, SlotsOf, Hearing, Answered, Live

LEMMA AskedTyped == TypeOK => Asked \in [Id -> SUBSET Url]
<1> SUFFICES ASSUME TypeOK, NEW id \in Id, NEW u, u \in Asked[id] PROVE u \in Url
  BY DEF Asked
<1> QED
  BY AskedBySlots DEF Asking, Live, TypeOK, Transfer

LEMMA AskedTypedNext == TypeOK' => Asked' \in [Id -> SUBSET Url]
<1> SUFFICES ASSUME TypeOK', NEW id \in Id, NEW u, u \in Asked'[id] PROVE u \in Url
  BY DEF Asked
<1> QED
  BY AskedBySlotsNext DEF Asking, Live, TypeOK, Transfer

LEMMA HeardTypedNext == TypeOK' => Heard' \in [Id -> SUBSET Outcome]
<1> SUFFICES ASSUME TypeOK', NEW id \in Id, NEW o, o \in Heard'[id] PROVE o \in Outcome
  BY DEF Heard
<1> QED
  BY HeardBySlotsNext DEF Hearing, Answered, Live, TypeOK, Transfer

(* The board does not see what neither asks nor hears. *)
LEMMA Unseen ==
  ASSUME \A s \in Slot : \A u : Asking(s, u)' <=> Asking(s, u),
         \A s \in Slot : \A o : Hearing(s, o)' <=> Hearing(s, o)
  PROVE  UNCHANGED <<Asked, Heard>>
<1>1. ASSUME NEW id \in Id PROVE Asked'[id] = Asked[id] /\ Heard'[id] = Heard[id]
  <2>1. \A u : u \in Asked'[id] <=> u \in Asked[id]
    BY AskedBySlots, AskedBySlotsNext, Zenon
  <2>2. \A o : o \in Heard'[id] <=> o \in Heard[id]
    BY HeardBySlots, HeardBySlotsNext, Zenon
  <2> QED
    BY <2>1, <2>2
<1> QED
  BY <1>1 DEF Asked, Heard

LEMMA SameTransfers == UNCHANGED transfer => UNCHANGED <<Asked, Heard>>
BY Unseen DEF Asking, Hearing, Answered, Live

(* A step of one transfer changes the board for one target, and there for  *)
(* what that transfer asks or hears.                                       *)
OnlySlot(s) == \A t \in Slot \ {s} : \A v :
  (Asking(t, v)' <=> Asking(t, v)) /\ (Hearing(t, v)' <=> Hearing(t, v))

LEMMA AskedElsewhere ==
  ASSUME NEW s \in Slot, OnlySlot(s), NEW id \in Id, NEW v,
         id = s[1] => (Asking(s, v)' <=> Asking(s, v))
  PROVE  v \in Asked'[id] <=> v \in Asked[id]
<1>1. \A t \in Slot : t[1] = id => (Asking(t, v)' <=> Asking(t, v))
  BY DEF OnlySlot
<1> QED
  BY <1>1, AskedBySlots, AskedBySlotsNext

LEMMA HeardElsewhere ==
  ASSUME NEW s \in Slot, OnlySlot(s), NEW id \in Id, NEW v,
         id = s[1] => (Hearing(s, v)' <=> Hearing(s, v))
  PROVE  v \in Heard'[id] <=> v \in Heard[id]
<1>1. \A t \in Slot : t[1] = id => (Hearing(t, v)' <=> Hearing(t, v))
  BY DEF OnlySlot
<1> QED
  BY <1>1, HeardBySlots, HeardBySlotsNext

-----------------------------------------------------------------------------
(* The steps of Watcher, as steps of the board.                            *)

LEMMA PostIsCreate == Post => Board!Create
BY SameTransfers DEF Post, clientVars, Board!Create, Board!Add, Board!AddFails,
   Board!Id, Add, AddFails, Id

LEMMA PatchIsEdit == ASSUME NEW id \in Id, PatchRow(id) PROVE Board!Edit
BY SameTransfers DEF PatchRow, clientVars, Board!Edit, Board!Patch, Board!Update,
   Board!Id, Patch, Update, Id

LEMMA DeleteIsRemove == ASSUME NEW id \in Id, DeleteRow(id) PROVE Board!Remove
BY SameTransfers DEF DeleteRow, clientVars, Board!Remove, Board!Delete, Board!Id, Delete, Id

LEMMA FlipIsChange == ASSUME TypeOK, NEW u \in Url, Flip(u) PROVE Board!Change
BY SameTransfers DEF Flip, clientVars, Board!Change, TypeOK

LEMMA AllButOne ==
  ASSUME NEW A, NEW B, NEW e, e \in A, \A v : v # e => (v \in B <=> v \in A)
  PROVE  B \in {A, A \ {e}}
<1>1. CASE e \in B
  BY <1>1
<1>2. CASE e \notin B
  BY <1>2
<1> QED
  BY <1>1, <1>2

(* The answer to a question is heard; the question stays open if the same  *)
(* URL was asked by another transfer of the target.                        *)
LEMMA AnswerIsHear ==
  ASSUME TypeOK, NEW s \in Slot, Answer(s)
  PROVE  Board!Hear(s[1])
<1> DEFINE id == s[1]
           u == transfer[s].url
           o == reach[u]
<1> USE DEF Answer, TypeOK
<1>1. id \in Id /\ u \in Url /\ o \in Outcome /\ o # NoAnswer
  BY WatcherAssumption DEF Slot, Live, Transfer
<1>2. Asking(s, u)
  BY DEF Asking
<1>3. u \in Asked[id]
  BY <1>1, <1>2, AskedBySlots
<1>4. Live(s)' /\ transfer'[s].answer = o
  BY WatcherAssumption DEF Live, Transfer
<1>5. \A t \in Slot \ {s} : transfer'[t] = transfer[t]
  OBVIOUS
<1> HIDE DEF u, o, Answer
<1>6. \A v : ~Asking(s, v)' /\ (Asking(s, v) => v = u)
  BY <1>1, <1>4 DEF Asking, u
<1>7. \A v : Hearing(s, v)' <=> v = o
  BY <1>1, <1>4 DEF Hearing, Answered
<1>8. \A v : ~Hearing(s, v)
  BY <1>2 DEF Hearing, Answered, Asking
<1>9. OnlySlot(s)
  BY <1>5 DEF OnlySlot, Asking, Hearing, Answered, Live
<1>10. Heard' = [Heard EXCEPT ![id] = @ \cup {o}]
  <2>1. ASSUME NEW j \in Id
        PROVE  Heard'[j] = IF j = id THEN Heard[j] \cup {o} ELSE Heard[j]
    <3>1. ASSUME NEW v, j # id \/ v # o PROVE v \in Heard'[j] <=> v \in Heard[j]
      BY <1>7, <1>8, <1>9, <3>1, HeardElsewhere
    <3>2. o \in Heard'[id]
      BY <1>1, <1>7, HeardBySlotsNext
    <3> QED
      BY <3>1, <3>2
  <2> QED
    BY <1>1, <2>1 DEF Heard
<1>11. Asked' \in {Asked, [Asked EXCEPT ![id] = @ \ {u}]}
  <2>1. ASSUME NEW j \in Id, NEW v, j # id \/ v # u
        PROVE  v \in Asked'[j] <=> v \in Asked[j]
    BY <1>6, <1>9, <2>1, AskedElsewhere
  <2>2. \A j \in Id \ {id} : Asked'[j] = Asked[j]
    BY <2>1
  <2>3. Asked'[id] \in {Asked[id], Asked[id] \ {u}}
    <3>1. \A v : v # u => (v \in Asked'[id] <=> v \in Asked[id])
      BY <1>1, <2>1
    <3> QED
      BY <1>3, <3>1, AllButOne
  <2> QED
    BY <1>1, <2>2, <2>3 DEF Asked
<1>12. UNCHANGED <<rows, nextId, reach>>
  BY DEF Answer
<1> QED
  BY <1>3, <1>10, <1>11, <1>12 DEF Board!Hear, o

(* A check asks the URL that its SELECT has found in the row. *)
LEMMA StartIsAsk ==
  ASSUME TypeOK, NEW id \in Id, NEW k \in Lane, StartTransfer(id, k),
         UNCHANGED <<rows, nextId, reach>>
  PROVE  Board!Ask(id)
<1> DEFINE s == <<id, k>>
           u == rows[id].url
<1>1. s \in Slot /\ ~Live(s) /\ Exists(id)
  BY DEF StartTransfer, Slot
<1>2. u \in Url
  BY <1>1 DEF Exists, TypeOK, TableTypeOK, Row
<1>3. transfer' = [transfer EXCEPT ![s] = [url |-> u, answer |-> NoAnswer, done |-> FALSE]]
  BY DEF StartTransfer
<1>4. [url |-> u, answer |-> NoAnswer, done |-> FALSE] \in Transfer
  BY <1>2 DEF Transfer
<1> HIDE DEF s, u
<1>5. \A v : (Asking(s, v)' <=> v = u) /\ ~Asking(s, v) /\ ~Hearing(s, v)' /\ ~Hearing(s, v)
  BY <1>1, <1>3, <1>4, WatcherAssumption DEF Asking, Hearing, Answered, Live, TypeOK
<1>6. OnlySlot(s)
  BY <1>3 DEF OnlySlot, Asking, Hearing, Answered, Live, TypeOK
<1>7. Heard' = Heard
  <2>1. ASSUME NEW j \in Id, NEW v PROVE v \in Heard'[j] <=> v \in Heard[j]
    BY <1>1, <1>5, <1>6, HeardElsewhere
  <2>2. \A j \in Id : Heard'[j] = Heard[j]
    BY <2>1
  <2> QED
    BY <2>2 DEF Heard
<1>8. Asked' = [Asked EXCEPT ![id] = @ \cup {u}]
  <2>1. ASSUME NEW j \in Id
        PROVE  Asked'[j] = IF j = id THEN Asked[j] \cup {u} ELSE Asked[j]
    <3>1. ASSUME NEW v, j # id \/ v # u PROVE v \in Asked'[j] <=> v \in Asked[j]
      BY <1>1, <1>5, <1>6, <3>1, AskedElsewhere DEF s
    <3>2. s[1] = id /\ u \in Asked'[id]
      BY <1>1, <1>5, AskedBySlotsNext DEF s
    <3> QED
      BY <3>1, <3>2
  <2> QED
    BY <2>1 DEF Asked
<1> QED
  BY <1>1, <1>7, <1>8 DEF Board!Ask, Board!Exists, Exists, u

(* What is no longer attached to the multi handle is dropped. *)
LEMMA FewerIsForget ==
  ASSUME TypeOK', UNCHANGED <<rows, nextId, reach>>,
         \A s \in Slot : transfer'[s] \in {transfer[s], NoTransfer}
  PROVE  Board!Forget
<1>1. \A s \in Slot : \A v : (Asking(s, v)' => Asking(s, v)) /\ (Hearing(s, v)' => Hearing(s, v))
  BY DEF Asking, Hearing, Answered, Live
<1>2. ASSUME NEW id \in Id PROVE Asked'[id] \subseteq Asked[id]
  <2> SUFFICES ASSUME NEW v, v \in Asked'[id] PROVE v \in Asked[id]
    OBVIOUS
  <2> QED
    BY <1>1, AskedBySlots, AskedBySlotsNext
<1>3. ASSUME NEW id \in Id PROVE Heard'[id] \subseteq Heard[id]
  <2> SUFFICES ASSUME NEW v, v \in Heard'[id] PROVE v \in Heard[id]
    OBVIOUS
  <2> QED
    BY <1>1, HeardBySlots, HeardBySlotsNext
<1> QED
  BY <1>2, <1>3, AskedTypedNext, HeardTypedNext
     DEF Board!Forget, Board!DropAll, Board!Drop, Board!Id, Id

(* A finished transfer publishes its answer, if the cached status differs  *)
(* and the UPDATE does not fail; and is forgotten.                         *)
LEMMA CompletedIsPublish ==
  ASSUME TypeOK, TypeOK', DoneIsAnswered, NEW s \in Slot, CheckCompleted(s)
  PROVE  Board!Publish(s[1]) \/ Board!Forget
<1> DEFINE id == s[1]
           o == transfer[s].answer
<1> USE DEF CheckCompleted
<1>1. transfer' = [transfer EXCEPT ![s] = NoTransfer] /\ UNCHANGED <<nextId, reach>>
  OBVIOUS
<1>2. CASE UNCHANGED rows
  <2>1. \A t \in Slot : transfer'[t] \in {transfer[t], NoTransfer}
    BY <1>1 DEF TypeOK
  <2> QED
    BY <1>1, <1>2, <2>1, FewerIsForget
<1>3. CASE SetUp(id, IsUp(o))
  <2>1. Hearing(s, o) /\ id \in Id
    BY DEF DoneIsAnswered, Hearing, Slot
  <2>2. \A v : (Hearing(s, v) => v = o) /\ ~Hearing(s, v)' /\ ~Asking(s, v) /\ ~Asking(s, v)'
    BY <1>1, <2>1 DEF Asking, Hearing, Answered, Live, TypeOK
  <2>3. OnlySlot(s)
    BY <1>1 DEF OnlySlot, Asking, Hearing, Answered, Live, TypeOK
  <2> HIDE DEF o, CheckCompleted
  <2>4. o \in Heard[id]
    BY <2>1, HeardBySlots
  <2>5. Asked' = Asked
    <3>1. ASSUME NEW j \in Id, NEW v PROVE v \in Asked'[j] <=> v \in Asked[j]
      BY <2>2, <2>3, AskedElsewhere
    <3>2. \A j \in Id : Asked'[j] = Asked[j]
      BY <3>1
    <3> QED
      BY <3>2 DEF Asked
  <2>6. Heard' \in {Heard, [Heard EXCEPT ![id] = @ \ {o}]}
    <3>1. ASSUME NEW j \in Id, NEW v, j # id \/ v # o
          PROVE  v \in Heard'[j] <=> v \in Heard[j]
      BY <2>2, <2>3, <3>1, HeardElsewhere
    <3>2. \A j \in Id \ {id} : Heard'[j] = Heard[j]
      BY <3>1
    <3>3. Heard'[id] \in {Heard[id], Heard[id] \ {o}}
      <4>1. \A v : v # o => (v \in Heard'[id] <=> v \in Heard[id])
        BY <2>1, <3>1
      <4> QED
        BY <2>4, <4>1, AllButOne
    <3> QED
      BY <2>1, <3>2, <3>3 DEF Heard
  <2>7. Board!SetUp(id, Board!IsUp(o))
    BY <1>3 DEF Board!SetUp, Board!Update, Board!IsUp, SetUp, Update, IsUp
  <2> QED
    BY <1>1, <2>4, <2>5, <2>6, <2>7 DEF Board!Publish
<1> QED
  BY <1>2, <1>3 DEF StoreUp

-----------------------------------------------------------------------------
(* The refinement.                                                         *)

LEMMA InitRefines == Init => Board!BoardInit
<1> SUFFICES ASSUME Init PROVE Board!BoardInit
  OBVIOUS
<1>1. \A s \in Slot : ~Live(s)
  BY DEF Init, Live
<1>2. Asked = [id \in Id |-> {}] /\ Heard = [id \in Id |-> {}]
  <2>1. ASSUME NEW id \in Id, NEW v PROVE v \notin Asked[id] /\ v \notin Heard[id]
    BY <1>1, AskedBySlots, HeardBySlots DEF Asking, Hearing, Answered
  <2>2. \A id \in Id : Asked[id] = {} /\ Heard[id] = {}
    BY <2>1
  <2> QED
    BY <2>2 DEF Asked, Heard
<1> QED
  BY <1>2 DEF Init, TableInit, Id, Board!BoardInit, Board!TableInit, Board!Id

(* What the board does not have leaves it alone: the loop, the timers, the *)
(* hash table, and the order in which curl reports what it has finished.   *)
LEMMA StepRefines ==
  ASSUME IInv, TypeOK', [Next]_vars
  PROVE  [Board!BoardNext]_(Board!boardVars)
<1> USE DEF IInv, clientVars, boundVars
<1>1. ASSUME UNCHANGED <<rows, nextId, reach, transfer>>
      PROVE  UNCHANGED Board!boardVars
  BY <1>1, SameTransfers DEF Board!boardVars
<1>2. CASE Server
  BY <1>2, PostIsCreate, PatchIsEdit, DeleteIsRemove DEF Server, Board!BoardNext
<1>3. ASSUME NEW u \in Url, Flip(u) PROVE Board!BoardNext
  BY <1>3, FlipIsChange DEF Board!BoardNext
<1>4. ASSUME NEW s \in Slot, Answer(s) PROVE Board!BoardNext
  <2>1. s[1] \in Board!Id
    BY DEF Slot, Id, Board!Id
  <2> QED
    BY <1>4, <2>1, AnswerIsHear DEF Board!BoardNext
<1>5. CASE Boot \/ WatcherStart \/ LoopEnds \/ Exit
  BY <1>1, <1>5 DEF Boot, WatcherStart, LoopEnds, Exit
<1>6. CASE Stop \/ Crash
  <2>1. \A s \in Slot : transfer'[s] \in {transfer[s], NoTransfer}
    BY <1>6 DEF Stop, Crash
  <2> QED
    BY <1>6, <2>1, FewerIsForget DEF Stop, Crash, Board!BoardNext
<1>7. ASSUME NEW id \in Id, TargetCheck(id)
      PROVE  Board!BoardNext \/ UNCHANGED Board!boardVars
  <2>1. UNCHANGED <<rows, nextId, reach>>
    BY <1>7 DEF TargetCheck
  <2>2. CASE GiveUp(id)
    BY <1>1, <2>1, <2>2 DEF GiveUp
  <2>3. ASSUME NEW k \in Lane, StartTransfer(id, k) PROVE Board!BoardNext
    BY <2>1, <2>3, StartIsAsk DEF Board!BoardNext, Board!Id, Id
  <2> QED
    BY <1>7, <2>2, <2>3 DEF TargetCheck
<1>8. ASSUME NEW id \in Id, CloseCallback(id) PROVE UNCHANGED Board!boardVars
  BY <1>1, <1>8 DEF CloseCallback
<1>9. ASSUME NEW finished \in SUBSET Slot, SocketAction(finished)
      PROVE  UNCHANGED Board!boardVars
  <2>1. \A s \in Slot : /\ Live(s)' <=> Live(s)
                        /\ Live(s) => /\ transfer'[s].url = transfer[s].url
                                      /\ transfer'[s].answer = transfer[s].answer
    BY <1>9, WatcherAssumption DEF SocketAction, Answered, Live, TypeOK, Transfer
  <2>2. UNCHANGED <<Asked, Heard>>
    BY <2>1, Unseen DEF Asking, Hearing, Answered
  <2> QED
    BY <1>9, <2>2 DEF SocketAction, Board!boardVars
<1>10. ASSUME NEW s \in Slot, CheckCompleted(s) PROVE Board!BoardNext
  <2>1. s[1] \in Board!Id
    BY DEF Slot, Id, Board!Id
  <2> QED
    BY <1>10, <2>1, CompletedIsPublish DEF Board!BoardNext
<1>11. CASE UNCHANGED vars
  BY <1>1, <1>11 DEF vars
<1> QED
  BY <1>2, <1>3, <1>4, <1>5, <1>6, <1>7, <1>8, <1>9, <1>10, <1>11
     DEF Next, Network, Client

(* What the table shows, through overlapping checks, late answers, edits,  *)
(* failed statements and restarts, is what the status board shows: a       *)
(* status is published only if a URL of the target gave it after it was    *)
(* asked for the target (client/targets.c:38-72, 106-112), an edit touches *)
(* no status, and nothing that was removed comes back.                     *)
THEOREM Refinement == Spec => ImplementsBoard
<1>1. Init => Board!BoardInit
  BY InitRefines
<1>2. IInv /\ IInv' /\ [Next]_vars => [Board!BoardNext]_(Board!boardVars)
  BY StepRefines DEF IInv
<1> QED
  BY <1>1, <1>2, Invariant, PTL DEF Spec, ImplementsBoard, Board!BoardSpec

=============================================================================
