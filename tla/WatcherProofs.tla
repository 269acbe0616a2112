--------------------------- MODULE WatcherProofs ---------------------------
(***************************************************************************)
(* Theorems about Watcher, for every value of its constants.               *)
(***************************************************************************)
EXTENDS Watcher, TLAPS

-----------------------------------------------------------------------------
(* The table is well typed after every statement. *)

LEMMA AddTyped ==
  ASSUME TableTypeOK, NEW u \in Url, NEW i \in Interval, Add(u, i)
  PROVE  TableTypeOK'
BY TableAssumption DEF TableTypeOK, Add, Id, Row

LEMMA AddFailsTyped ==
  ASSUME TableTypeOK, AddFails
  PROVE  TableTypeOK'
BY TableAssumption DEF TableTypeOK, AddFails, Id

LEMMA DeleteTyped ==
  ASSUME TableTypeOK, NEW id \in Id, Delete(id)
  PROVE  TableTypeOK'
BY DEF TableTypeOK, Delete

LEMMA PatchTyped ==
  ASSUME TableTypeOK, NEW id \in Id, NEW u \in Url, NEW i \in Interval,
         Patch(id, u, i)
  PROVE  TableTypeOK'
BY DEF TableTypeOK, Patch, Update, Row

LEMMA SetUpTyped ==
  ASSUME TableTypeOK, NEW id \in Id, NEW up \in BOOLEAN, SetUp(id, up)
  PROVE  rows' \in [Id -> Row \cup {NoRow}]
BY DEF TableTypeOK, SetUp, Update, Row

LEMMA IsUpBoolean == ASSUME NEW o PROVE IsUp(o) \in BOOLEAN
BY DEF IsUp

-----------------------------------------------------------------------------
(* The invariant holds initially. *)

LEMMA InitInv == Init => IInv
<1> SUFFICES ASSUME Init PROVE IInv
  OBVIOUS
<1>1. TypeOK
  BY TableAssumption, WatcherAssumption
     DEF Init, TableInit, TypeOK, TableTypeOK, Id, Slot
<1>2. SerialFresh /\ Coherent
  BY DEF Init, TableInit, SerialFresh, Coherent, Exists, Watched
<1>3. DoneIsAnswered /\ TransferTargetAlive
  BY DEF Init, DoneIsAnswered, TransferTargetAlive, Live
<1>4. QED
  BY <1>1, <1>2, <1>3 DEF IInv

(* Every variable keeps its type.  A completed transfer writes through its *)
(* pointer to the target, so this needs the target to be alive.            *)
LEMMA TypeStep ==
  ASSUME TypeOK, TransferTargetAlive, [Next]_vars
  PROVE  TypeOK'
<1> USE WatcherAssumption DEF TypeOK, clientVars, boundVars
<1>1. CASE Post
  BY <1>1, AddTyped, AddFailsTyped DEF Post
<1>2. ASSUME NEW id \in Id, PatchRow(id) PROVE TypeOK'
  BY <1>2, PatchTyped DEF PatchRow
<1>3. ASSUME NEW id \in Id, DeleteRow(id) PROVE TypeOK'
  BY <1>3, DeleteTyped DEF DeleteRow
<1>4. ASSUME NEW u \in Url, Flip(u) PROVE TypeOK'
  BY <1>4 DEF Flip, TableTypeOK
<1>5. ASSUME NEW s \in Slot, Answer(s) PROVE TypeOK'
  BY <1>5 DEF Answer, Live, Transfer, TableTypeOK
<1>6. CASE Boot
  BY <1>6 DEF Boot, TableTypeOK
<1>7. CASE WatcherStart
  BY <1>7 DEF WatcherStart, NewTarget, AfterRing, Target, Again, Exists, Row, TableTypeOK
<1>8. ASSUME NEW id \in Id, TargetCheck(id) PROVE TypeOK'
  <2>1. target' \in [Id -> Target \cup {NoTarget}]
    BY <1>8 DEF TargetCheck, Ring, Watched, Target, Again
  <2>2. transfer' \in [Slot -> Transfer \cup {NoTransfer}]
    <3>1. CASE GiveUp(id)
      BY <3>1 DEF GiveUp
    <3>2. ASSUME NEW k \in Lane, StartTransfer(id, k)
          PROVE  transfer' \in [Slot -> Transfer \cup {NoTransfer}]
      <4>1. rows[id].url \in Url
        BY <3>2 DEF StartTransfer, Exists, TableTypeOK, Row
      <4>2. QED
        BY <3>2, <4>1 DEF StartTransfer, Transfer, Slot
    <3>3. QED
      BY <1>8, <3>1, <3>2 DEF TargetCheck
  <2>3. QED
    BY <1>8, <2>1, <2>2 DEF TargetCheck, TableTypeOK
<1>9. ASSUME NEW finished \in SUBSET Slot, SocketAction(finished) PROVE TypeOK'
  BY <1>9 DEF SocketAction, Answered, Live, Transfer, TableTypeOK
<1>10. ASSUME NEW s \in Slot, CheckCompleted(s) PROVE TypeOK'
  <2> DEFINE up == IsUp(transfer[s].answer)
  <2>1. s[1] \in Id /\ up \in BOOLEAN
    BY IsUpBoolean DEF Slot
  <2>2. rows' \in [Id -> Row \cup {NoRow}]
    BY <1>10, <2>1, SetUpTyped DEF CheckCompleted, StoreUp, TableTypeOK
  <2>3. target[s[1]] \in Target
    BY <1>10, <2>1 DEF CheckCompleted, TransferTargetAlive, Watched
  <2>4. [target[s[1]] EXCEPT !.up = up] \in Target
    BY <2>1, <2>3 DEF Target
  <2>5. target' = [target EXCEPT ![s[1]] = [target[s[1]] EXCEPT !.up = up]]
    BY <1>10, <2>1 DEF CheckCompleted
  <2> HIDE DEF up
  <2>6. target' \in [Id -> Target \cup {NoTarget}]
    BY <2>1, <2>4, <2>5
  <2>7. QED
    BY <1>10, <2>2, <2>6 DEF CheckCompleted, TableTypeOK
<1>11. CASE LoopEnds
  BY <1>11 DEF LoopEnds, TableTypeOK
<1>12. CASE Stop
  BY <1>12 DEF Stop, Closing, Watched, Target, TableTypeOK
<1>13. ASSUME NEW id \in Id, CloseCallback(id) PROVE TypeOK'
  BY <1>13 DEF CloseCallback, TableTypeOK
<1>14. CASE Exit
  BY <1>14 DEF Exit, TableTypeOK
<1>15. CASE Crash
  BY <1>15 DEF Crash, TableTypeOK
<1>16. CASE UNCHANGED vars
  BY <1>16 DEF vars, TableTypeOK
<1>17. QED
  BY <1>1, <1>2, <1>3, <1>4, <1>5, <1>6, <1>7, <1>8, <1>9, <1>10, <1>11,
     <1>12, <1>13, <1>14, <1>15, <1>16 DEF Next, Server, Network, Client

(* No transfer outlives the target it points at. *)
LEMMA AliveStep ==
  ASSUME TypeOK, TransferTargetAlive, [Next]_vars
  PROVE  TransferTargetAlive'
<1> USE WatcherAssumption DEF TransferTargetAlive, Live, Watched, clientVars
<1>1. ASSUME UNCHANGED clientVars PROVE TransferTargetAlive'
  BY <1>1
<1>2. ASSUME NEW s \in Slot, Answer(s) PROVE TransferTargetAlive'
  BY <1>2 DEF Answer, TypeOK
<1>3. CASE Boot
  BY <1>3 DEF Boot
<1>4. CASE WatcherStart
  BY <1>4 DEF WatcherStart
<1>5. ASSUME NEW id \in Id, TargetCheck(id) PROVE TransferTargetAlive'
  <2>1. phase' = "running"
    BY <1>5 DEF TargetCheck, Ring
  <2>2. ASSUME NEW j \in Id, Watched(j), target[j].timer # "closing"
        PROVE  Watched(j)' /\ target'[j].timer # "closing"
    BY <1>5, <2>2 DEF TargetCheck, Ring, TypeOK, Target, Again
  <2>3. ASSUME NEW s \in Slot, Live(s)'
        PROVE  Watched(s[1]) /\ target[s[1]].timer # "closing"
    <3>1. CASE Live(s)
      BY <3>1
    <3>2. CASE ~Live(s)
      <4>1. PICK k \in Lane : StartTransfer(id, k)
        BY <1>5, <2>3, <3>2 DEF TargetCheck, GiveUp
      <4>2. s = <<id, k>>
        BY <2>3, <3>2, <4>1 DEF StartTransfer, TypeOK, Slot
      <4>3. QED
        BY <1>5, <4>2 DEF TargetCheck, Ring
    <3>3. QED
      BY <3>1, <3>2
  <2>4. QED
    BY <2>1, <2>2, <2>3 DEF Slot
<1>6. ASSUME NEW finished \in SUBSET Slot, SocketAction(finished)
      PROVE  TransferTargetAlive'
  BY <1>6 DEF SocketAction, Answered, TypeOK, Transfer
<1>7. ASSUME NEW s \in Slot, CheckCompleted(s) PROVE TransferTargetAlive'
  <2>1. \A t \in Slot : Live(t)' => Live(t)
    BY <1>7 DEF CheckCompleted, TypeOK
  <2>2. ASSUME NEW j \in Id, Watched(j), target[j].timer # "closing"
        PROVE  Watched(j)' /\ target'[j].timer # "closing"
    <3> DEFINE id == s[1]
               new == [target[id] EXCEPT !.up = IsUp(transfer[s].answer)]
    <3>1. id \in Id /\ target[id] \in Target
      BY <1>7 DEF CheckCompleted, TypeOK, Slot
    <3>2. new \in Target /\ new.timer = target[id].timer
      BY <3>1, IsUpBoolean DEF Target
    <3>3. target' = [target EXCEPT ![id] = new]
      BY <1>7, <3>1 DEF CheckCompleted
    <3> HIDE DEF id, new
    <3>4. QED
      BY <2>2, <3>1, <3>2, <3>3 DEF TypeOK
  <2>3. QED
    BY <1>7, <2>1, <2>2 DEF CheckCompleted, Slot
<1>8. CASE LoopEnds
  BY <1>8 DEF LoopEnds, LoopAlive
<1>9. CASE Stop
  BY <1>9 DEF Stop
<1>10. ASSUME NEW id \in Id, CloseCallback(id) PROVE TransferTargetAlive'
  BY <1>10 DEF CloseCallback
<1>11. CASE Exit
  BY <1>11 DEF Exit
<1>12. CASE Crash
  BY <1>12 DEF Crash
<1>13. QED
  BY <1>1, <1>2, <1>3, <1>4, <1>5, <1>6, <1>7, <1>8, <1>9, <1>10, <1>11, <1>12
     DEF Next, Server, Network, Client, vars, Post, PatchRow, DeleteRow, Flip

(* Ids that were never handed out stay unused. *)
LEMMA FreshStep ==
  ASSUME TypeOK, TransferTargetAlive, SerialFresh, [Next]_vars
  PROVE  SerialFresh'
<1> USE TableAssumption, WatcherAssumption
        DEF SerialFresh, Exists, Watched, clientVars, TypeOK, TableTypeOK
<1>1. CASE Post
  BY <1>1 DEF Post, Add, AddFails, Id
<1>2. ASSUME NEW id \in Id, PatchRow(id) PROVE SerialFresh'
  BY <1>2 DEF PatchRow, Patch, Update
<1>3. ASSUME NEW id \in Id, DeleteRow(id) PROVE SerialFresh'
  BY <1>3 DEF DeleteRow, Delete
<1>4. CASE WatcherStart
  BY <1>4 DEF WatcherStart
<1>5. ASSUME NEW id \in Id, TargetCheck(id) PROVE SerialFresh'
  BY <1>5 DEF TargetCheck, Ring
<1>6. ASSUME NEW s \in Slot, CheckCompleted(s) PROVE SerialFresh'
  <2>1. UNCHANGED nextId
    BY <1>6 DEF CheckCompleted
  <2>2. Watched(s[1]) /\ s[1] \in Id
    BY <1>6 DEF CheckCompleted, TransferTargetAlive, Slot
  <2>3. ASSUME NEW j \in Id, ~Exists(j) PROVE ~Exists(j)'
    BY <1>6, <2>2, <2>3 DEF CheckCompleted, StoreUp, SetUp, Update
  <2>4. ASSUME NEW j \in Id, ~Watched(j) PROVE ~Watched(j)'
    BY <1>6, <2>2, <2>4 DEF CheckCompleted
  <2>5. QED
    BY <2>1, <2>3, <2>4
<1>7. CASE Stop
  BY <1>7 DEF Stop, Closing
<1>8. ASSUME NEW id \in Id, CloseCallback(id) PROVE SerialFresh'
  BY <1>8 DEF CloseCallback
<1>9. CASE Crash
  BY <1>9 DEF Crash
<1>10. ASSUME UNCHANGED <<rows, nextId, target>> PROVE SerialFresh'
  BY <1>10
<1>11. QED
  BY <1>1, <1>2, <1>3, <1>4, <1>5, <1>6, <1>7, <1>8, <1>9, <1>10
     DEF Next, Server, Network, Client, vars, Flip, Answer, Boot, SocketAction,
         LoopEnds, Exit

(* curl reports nothing it has no answer for. *)
LEMMA DoneStep ==
  ASSUME TypeOK, DoneIsAnswered, [Next]_vars
  PROVE  DoneIsAnswered'
<1> USE WatcherAssumption DEF DoneIsAnswered, Answered, Live, clientVars, TypeOK
<1>1. ASSUME UNCHANGED transfer PROVE DoneIsAnswered'
  BY <1>1
<1>2. ASSUME NEW s \in Slot, Answer(s) PROVE DoneIsAnswered'
  BY <1>2 DEF Answer, Transfer
<1>3. ASSUME NEW id \in Id, TargetCheck(id) PROVE DoneIsAnswered'
  <2>1. CASE GiveUp(id)
    BY <1>1, <2>1 DEF GiveUp
  <2>2. ASSUME NEW k \in Lane, StartTransfer(id, k) PROVE DoneIsAnswered'
    <3> DEFINE new == [url |-> rows[id].url, answer |-> NoAnswer, done |-> FALSE]
    <3>1. <<id, k>> \in Slot /\ ~new.done
      BY DEF Slot
    <3>2. transfer' = [transfer EXCEPT ![<<id, k>>] = new]
      BY <2>2 DEF StartTransfer
    <3> HIDE DEF new
    <3>3. QED
      BY <3>1, <3>2
  <2>3. QED
    BY <1>3, <2>1, <2>2 DEF TargetCheck
<1>4. ASSUME NEW finished \in SUBSET Slot, SocketAction(finished)
      PROVE  DoneIsAnswered'
  BY <1>4 DEF SocketAction, Transfer
<1>5. ASSUME NEW s \in Slot, CheckCompleted(s) PROVE DoneIsAnswered'
  BY <1>5 DEF CheckCompleted
<1>6. CASE Stop \/ Crash
  BY <1>6 DEF Stop, Crash
<1>7. QED
  BY <1>1, <1>2, <1>3, <1>4, <1>5, <1>6
     DEF Next, Server, Network, Client, vars, Post, PatchRow, DeleteRow, Flip,
         Boot, WatcherStart, LoopEnds, CloseCallback, Exit

(* The cached status and the row move together: a row is inserted only     *)
(* under an id that nobody watches, PATCH leaves `up` alone, and a change  *)
(* of the cache is written in the step that makes it.                      *)
LEMMA CoherentStep ==
  ASSUME TypeOK, SerialFresh, TransferTargetAlive, Coherent, [Next]_vars
  PROVE  Coherent'
<1> USE TableAssumption, WatcherAssumption
        DEF Coherent, Exists, Watched, clientVars, TypeOK, TableTypeOK
<1>1. CASE Post
  BY <1>1 DEF Post, Add, AddFails, SerialFresh, Id
<1>2. ASSUME NEW id \in Id, PatchRow(id) PROVE Coherent'
  BY <1>2 DEF PatchRow, Patch, Update, Row
<1>3. ASSUME NEW id \in Id, DeleteRow(id) PROVE Coherent'
  BY <1>3 DEF DeleteRow, Delete
<1>4. CASE WatcherStart
  BY <1>4 DEF WatcherStart, NewTarget
<1>5. ASSUME NEW id \in Id, TargetCheck(id) PROVE Coherent'
  BY <1>5 DEF TargetCheck, Ring, Target
<1>6. ASSUME NEW s \in Slot, CheckCompleted(s) PROVE Coherent'
  <2> DEFINE id == s[1]
             up == IsUp(transfer[s].answer)
             new == [target[id] EXCEPT !.up = up]
  <2>1. id \in Id /\ target[id] \in Target /\ up \in BOOLEAN
    BY <1>6, IsUpBoolean DEF CheckCompleted, TransferTargetAlive, Slot
  <2>2. new \in Target /\ new.up = up
    BY <2>1 DEF Target
  <2>3. target' = [target EXCEPT ![id] = new]
    BY <1>6, <2>1 DEF CheckCompleted
  <2>4. IF up # target[id].up THEN StoreUp(id, up) ELSE UNCHANGED rows
    BY <1>6 DEF CheckCompleted
  <2> HIDE DEF id, up, new
  <2>5. ASSUME ~Faults, NEW j \in Id, Watched(j)', Exists(j)'
        PROVE  rows'[j].up = target'[j].up
    <3>1. CASE up = target[id].up
      BY <2>1, <2>2, <2>3, <2>4, <2>5, <3>1
    <3>2. CASE up # target[id].up
      <4>1. SetUp(id, up)
        BY <2>4, <2>5, <3>2 DEF StoreUp
      <4>2. CASE j # id
        BY <2>1, <2>3, <2>5, <4>1, <4>2 DEF SetUp, Update
      <4>3. CASE j = id
        BY <2>1, <2>2, <2>3, <2>5, <4>1, <4>3 DEF SetUp, Update, Row
      <4>4. QED
        BY <4>2, <4>3
    <3>3. QED
      BY <3>1, <3>2
  <2>6. QED
    BY <2>5
<1>7. CASE Stop
  BY <1>7 DEF Stop, Closing, Target
<1>8. ASSUME NEW id \in Id, CloseCallback(id) PROVE Coherent'
  BY <1>8 DEF CloseCallback
<1>9. CASE Crash
  BY <1>9 DEF Crash
<1>10. ASSUME UNCHANGED <<rows, target>> PROVE Coherent'
  BY <1>10
<1>11. QED
  BY <1>1, <1>2, <1>3, <1>4, <1>5, <1>6, <1>7, <1>8, <1>9, <1>10
     DEF Next, Server, Network, Client, vars, Flip, Answer, Boot, SocketAction,
         LoopEnds, Exit

-----------------------------------------------------------------------------
(* Theorems of the specification.                                          *)

(* IInv is an inductive invariant of the client thread. *)
THEOREM Invariant == Spec => []IInv
<1>1. Init => IInv
  BY InitInv
<1>2. IInv /\ [Next]_vars => IInv'
  BY TypeStep, AliveStep, FreshStep, DoneStep, CoherentStep DEF IInv
<1>3. QED
  BY <1>1, <1>2, PTL DEF Spec

(* Every variable keeps its type, in particular the cached status that a   *)
(* completed transfer writes through its pointer (client/targets.c:64).    *)
THEOREM TypeCorrect == Spec => []TypeOK
BY Invariant, PTL DEF IInv

(* As long as no statement fails, the cached status of a watched target    *)
(* and the column `up` of its row agree at every instant                   *)
(* (client/targets.c:62-72).                                               *)
THEOREM CacheCoherent == Spec => []Coherent
BY Invariant, PTL DEF IInv

(* The pointer transfer->data that transfer_complete follows               *)
(* (client/targets.c:38) always leads to a target that is allocated and    *)
(* not being closed.                                                       *)
THEOREM NoDanglingTarget == Spec => []TransferTargetAlive
BY Invariant, PTL DEF IInv

(* A step of the watched system re-creates no deleted row.                 *)
LEMMA NoResurrectionStep ==
  ASSUME TypeOK, [Next]_vars, NEW id \in Id, id < nextId, ~Exists(id)
  PROVE  ~Exists(id)'
<1> USE DEF Exists, clientVars, TypeOK, TableTypeOK
<1>1. CASE Post
  BY <1>1, TableAssumption DEF Post, Add, AddFails, Id
<1>2. ASSUME NEW j \in Id, PatchRow(j) PROVE ~Exists(id)'
  BY <1>2 DEF PatchRow, Patch, Update
<1>3. ASSUME NEW j \in Id, DeleteRow(j) PROVE ~Exists(id)'
  BY <1>3 DEF DeleteRow, Delete
<1>4. ASSUME NEW s \in Slot, CheckCompleted(s) PROVE ~Exists(id)'
  BY <1>4 DEF CheckCompleted, StoreUp, SetUp, Update, Slot
<1>5. ASSUME UNCHANGED rows PROVE ~Exists(id)'
  BY <1>5
<1>6. QED
  BY <1>1, <1>2, <1>3, <1>4, <1>5
     DEF Next, Server, Network, Client, vars, Flip, Answer, Boot, WatcherStart,
         TargetCheck, SocketAction, LoopEnds, Stop, CloseCallback, Exit, Crash

(* DELETE is final: neither the UPDATE of a check that was under way       *)
(* (client/targets.c:66-69) nor a restart brings a row back.               *)
THEOREM DeleteIsFinal == Spec => NoResurrection
<1>1. TypeOK /\ [Next]_vars
        => [\A id \in Id : id < nextId /\ ~Exists(id) => ~Exists(id)']_vars
  BY NoResurrectionStep
<1>2. QED
  BY <1>1, TypeCorrect, PTL DEF Spec, NoResurrection

(* Only two steps change the cached status of a target that is and stays   *)
(* watched.  WatcherStart copies it from the row.  A completed transfer    *)
(* toggles it, so that a row that was wrong is right already, whatever     *)
(* becomes of the UPDATE.                                                  *)
LEMMA HealStep ==
  ASSUME TypeOK, TransferTargetAlive, [Next]_vars, NEW id \in Id,
         StaleRow(id), Watched(id)', target'[id].up # target[id].up
  PROVE  ~StaleRow(id)'
<1> USE DEF StaleRow, Exists, Watched, clientVars, TypeOK, TableTypeOK
<1>1. CASE WatcherStart
  BY <1>1 DEF WatcherStart, NewTarget
<1>2. ASSUME NEW j \in Id, TargetCheck(j) PROVE FALSE
  BY <1>2 DEF TargetCheck, Ring, Target
<1>3. ASSUME NEW s \in Slot, CheckCompleted(s) PROVE ~StaleRow(id)'
  <2> DEFINE up == IsUp(transfer[s].answer)
             new == [target[s[1]] EXCEPT !.up = up]
  <2>1. s[1] \in Id /\ up \in BOOLEAN
    BY <1>3, IsUpBoolean DEF Slot
  <2>2. target' = [target EXCEPT ![s[1]] = new]
    BY <1>3, <2>1 DEF CheckCompleted
  <2>3. s[1] = id
    BY <2>1, <2>2
  <2>4. rows[id] \in Row /\ target[id] \in Target
    OBVIOUS
  <2>5. new.up = up
    BY <2>3, <2>4 DEF Target
  <2>6. target'[id].up = up
    BY <2>2, <2>3, <2>5
  <2>7. up # target[id].up /\ rows[id].up = up
    BY <2>1, <2>4, <2>6 DEF Row, Target
  <2>8. StoreUp(id, up)
    BY <1>3, <2>3, <2>7 DEF CheckCompleted
  <2> HIDE DEF up, new
  <2>9. CASE SetUp(id, up)
    BY <2>1, <2>4, <2>6, <2>9 DEF SetUp, Update, Row
  <2>10. CASE UNCHANGED rows
    BY <2>6, <2>7, <2>10
  <2>11. QED
    BY <2>8, <2>9, <2>10 DEF StoreUp
<1>4. CASE Stop
  BY <1>4 DEF Stop, Closing, Target
<1>5. ASSUME NEW j \in Id, CloseCallback(j) PROVE FALSE
  BY <1>5 DEF CloseCallback
<1>6. CASE Crash
  BY <1>6 DEF Crash
<1>7. CASE UNCHANGED target
  BY <1>7
<1>8. QED
  BY <1>1, <1>2, <1>3, <1>4, <1>5, <1>6, <1>7
     DEF Next, Server, Network, Client, vars, Post, PatchRow, DeleteRow, Flip,
         Answer, Boot, SocketAction, LoopEnds, Exit

(* A row left wrong by a failed UPDATE (client/targets.c:67-71, never      *)
(* retried) is put right by the next change of its target's status.        *)
THEOREM NextChangeHeals == Spec => HealsOnNextChange
<1>1. IInv /\ [Next]_vars
        => [\A id \in Id :
              StaleRow(id) /\ Watched(id)' /\ target'[id].up # target[id].up
                => ~StaleRow(id)']_vars
  BY HealStep DEF IInv
<1>2. QED
  BY <1>1, Invariant, PTL DEF Spec, HealsOnNextChange

=============================================================================
