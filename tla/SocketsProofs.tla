--------------------------- MODULE SocketsProofs ---------------------------
(* Proofs about Sockets, for any number of descriptors and blocks.         *)
EXTENDS Sockets, TLAPS

USE SocketsAssumption DEF Event, Socket

LEMMA InitInv == Init => SocketsInv
BY DEF Init, SocketsInv, TypeOK, Faithful, PointerTrue, Watched, Open, Allocated

(* The pointer of a watched socket is to an open baton of its own.         *)
LEMMA PointerOpen ==
  ASSUME SocketsInv, NEW g \in Fd, socketp[g] # Null
  PROVE  /\ Watched(g)
         /\ socketp[g] \in Baton
         /\ baton[socketp[g]] \in Socket
         /\ Open(socketp[g])
         /\ baton[socketp[g]].s = g
<1>1. PointerTrue(g) /\ Watched(g)
  BY DEF SocketsInv, Faithful, PointerTrue
<1>2. socketp[g] \in Baton /\ want[g] \in SUBSET Event
  BY DEF SocketsInv, TypeOK
<1>3. PICK poll \in SUBSET Event :
        baton[socketp[g]] = [s |-> g, closing |-> FALSE, poll |-> poll]
  BY <1>1, <1>2 DEF PointerTrue
<1>4. /\ baton[socketp[g]] \in Socket
      /\ baton[socketp[g]].s = g
      /\ baton[socketp[g]].closing = FALSE
  BY <1>3
<1>5. Open(socketp[g])
  BY <1>4 DEF Open, Allocated
<1> QED
  BY <1>1, <1>2, <1>4, <1>5

(* What is said of the batons depends on four variables only. *)
LEMMA SameBatons ==
  ASSUME SocketsInv, UNCHANGED <<want, socketp, baton, failed>>
  PROVE  /\ \A g \in Fd : PointerTrue(g)' /\ (Watched(g)' <=> Watched(g))
         /\ \A b \in Baton : Open(b)' => socketp'[baton'[b].s] = b
<1>1. \A g \in Fd : PointerTrue(g) /\ (Watched(g)' <=> Watched(g))
  BY DEF SocketsInv, Faithful, Watched
<1>2. \A g \in Fd : PointerTrue(g)'
  BY <1>1 DEF PointerTrue
<1>3. \A b \in Baton : Open(b)' => socketp'[baton'[b].s] = b
  BY DEF SocketsInv, Faithful, Open, Allocated
<1> QED
  BY <1>1, <1>2, <1>3

(* The block that socket_function writes to is the open baton of the       *)
(* socket, if it is watched, and a free one if it is not.                  *)
LEMMA TheBlock ==
  ASSUME SocketsInv, NEW fd \in Fd, socketp[fd] # Null \/ CanAllocate
  PROVE  /\ BatonOf(fd) \in Baton
         /\ Watched(fd) => BatonOf(fd) = socketp[fd]
         /\ ~Watched(fd) => ~Allocated(BatonOf(fd))
         /\ \A g \in Fd \ {fd} : socketp[g] # BatonOf(fd)
         /\ \A b \in Baton \ {BatonOf(fd)} : Open(b) => baton[b].s # fd
<1>1. PointerTrue(fd)
  BY DEF SocketsInv, Faithful
<1>2. CASE Watched(fd)
  <2>1. /\ socketp[fd] \in Baton /\ BatonOf(fd) = socketp[fd]
        /\ baton[socketp[fd]].s = fd
    BY <1>1, <1>2 DEF PointerTrue, BatonOf, SocketsInv, TypeOK
  <2>2. \A g \in Fd \ {fd} : socketp[g] # socketp[fd]
    BY <2>1, PointerOpen
  <2>3. \A b \in Baton : Open(b) /\ baton[b].s = fd => b = socketp[fd]
    BY DEF SocketsInv, Faithful
  <2> QED
    BY <1>2, <2>1, <2>2, <2>3
<1>3. CASE ~Watched(fd)
  <2>1. socketp[fd] = Null /\ BatonOf(fd) = Malloc
    BY <1>1, <1>3 DEF PointerTrue, BatonOf
  <2>2. Malloc \in Baton /\ ~Allocated(Malloc)
    BY <2>1 DEF CanAllocate, Malloc
  <2>3. \A g \in Fd \ {fd} : socketp[g] # Malloc
    <3> SUFFICES ASSUME NEW g \in Fd \ {fd}, socketp[g] = Malloc PROVE FALSE
      OBVIOUS
    <3>1. socketp[g] # Null
      BY <2>2
    <3> QED
      BY <2>2, <3>1, PointerOpen DEF Open
  <2>4. \A b \in Baton : Open(b) => baton[b].s # fd
    BY <2>1 DEF SocketsInv, Faithful
  <2> QED
    BY <1>3, <2>1, <2>2, <2>3, <2>4
<1> QED
  BY <1>2, <1>3

(* In particular, no other handle polls the socket, so that libuv takes it. *)
LEMMA NotTaken ==
  ASSUME SocketsInv, NEW fd \in Fd, NEW what, socketp[fd] # Null \/ CanAllocate
  PROVE  Started(fd, what) = what
BY TheBlock DEF Started, Taken

(* A call of socket_function leaves what libcurl asked for.                *)
LEMMA SocketFunctionStep ==
  ASSUME SocketsInv, NEW fd \in Fd, NEW what \in SUBSET Event,
         SocketFunction(fd, what),
         want' = [want EXCEPT ![fd] = what],
         failed' = IF failed = fd THEN Null ELSE failed
  PROVE  /\ socketp' \in [Fd -> Baton \cup {Null}]
         /\ baton' \in [Baton -> Socket \cup {Freed}]
         /\ want' \in [Fd -> SUBSET Event]
         /\ ready' \in [Fd -> SUBSET (Event \cup {"err"})]
         /\ failed' \in Fd \cup {Null}
         /\ \A g \in Fd : PointerTrue(g)'
         /\ \A b \in Baton : Open(b)' => socketp'[baton'[b].s] = b
         /\ \A g \in Fd : ready'[g] # {} => Watched(g)'
<1> DEFINE b0 == BatonOf(fd)
<1>1. /\ baton' = [baton EXCEPT ![b0] = After(fd, what)]
      /\ socketp' = [socketp EXCEPT ![fd] = IF what = {} THEN Null ELSE b0]
      /\ ready' = [ready EXCEPT ![fd] = {}]
      /\ socketp[fd] # Null \/ CanAllocate
  BY DEF SocketFunction, REMOVE
<1>2. /\ b0 \in Baton
      /\ \A g \in Fd \ {fd} : socketp[g] # b0
      /\ \A b \in Baton \ {b0} : Open(b) => baton[b].s # fd
  BY <1>1, TheBlock
<1>3. /\ After(fd, what) = [s |-> fd, poll |-> what, closing |-> what = {}]
      /\ After(fd, what) \in Socket /\ After(fd, what) # Freed
      /\ After(fd, what).s = fd
      /\ After(fd, what).closing = FALSE => what # {}
  <2>1. Started(fd, what) = what
    BY <1>1, NotTaken
  <2>2. After(fd, what) = [s |-> fd, poll |-> what, closing |-> what = {}]
    BY <2>1 DEF After, REMOVE
  <2>3. PICK closing \in BOOLEAN :
          /\ After(fd, what) = [s |-> fd, poll |-> what, closing |-> closing]
          /\ closing = FALSE => what # {}
    <3>1. CASE what = {}
      BY <2>2, <3>1
    <3>2. CASE what # {}
      BY <2>2, <3>2
    <3> QED
      BY <3>1, <3>2
  <2>4. After(fd, what) \in Socket
    BY <2>3
  <2>5. After(fd, what).s = fd /\ (After(fd, what).closing = FALSE => what # {})
    BY <2>3
  <2> QED
    BY <2>4, <2>5, <2>2
<1>4. TypeOK /\ Faithful /\ \A g \in Fd : ready[g] # {} => Watched(g)
  BY DEF SocketsInv
<1> HIDE DEF b0
<1>5. /\ socketp' \in [Fd -> Baton \cup {Null}]
      /\ baton' \in [Baton -> Socket \cup {Freed}]
      /\ want' \in [Fd -> SUBSET Event]
      /\ ready' \in [Fd -> SUBSET (Event \cup {"err"})]
      /\ failed' \in Fd \cup {Null}
  BY <1>1, <1>2, <1>3, <1>4 DEF TypeOK
<1>6. ASSUME NEW g \in Fd PROVE PointerTrue(g)'
  <2>1. CASE g = fd
    BY <1>1, <1>2, <1>3, <1>4, <2>1 DEF TypeOK, PointerTrue, Watched
  <2>2. CASE g # fd
    <3>1. /\ want'[g] = want[g] /\ socketp'[g] = socketp[g]
          /\ (failed' = g) <=> (failed = g)
      BY <1>1, <1>4, <2>2 DEF TypeOK
    <3>2. socketp[g] # Null => baton'[socketp[g]] = baton[socketp[g]]
      BY <1>1, <1>2, <1>4, <2>2 DEF TypeOK
    <3> QED
      BY <1>4, <3>1, <3>2 DEF Faithful, PointerTrue, Watched
  <2> QED
    BY <2>1, <2>2
<1>7. ASSUME NEW b \in Baton, Open(b)' PROVE socketp'[baton'[b].s] = b
  <2>1. CASE b = b0
    <3>1. baton'[b] = After(fd, what)
      BY <1>1, <1>2, <1>4, <2>1 DEF TypeOK
    <3>2. baton'[b].closing = FALSE
      BY <1>3, <1>7, <3>1 DEF Open
    <3>4. what # {} /\ baton'[b].s = fd
      BY <1>3, <3>1, <3>2
    <3>3. socketp'[fd] = b0
      BY <1>1, <1>4, <3>4 DEF TypeOK
    <3> QED
      BY <2>1, <3>4, <3>3
  <2>2. CASE b # b0
    <3>1. baton'[b] = baton[b]
      BY <1>1, <1>4, <2>2 DEF TypeOK
    <3>2. Open(b) /\ baton[b] \in Socket
      BY <1>4, <1>7, <3>1 DEF Open, Allocated, TypeOK
    <3>3. baton[b].s \in Fd \ {fd}
      BY <1>2, <2>2, <3>2
    <3>4. socketp[baton[b].s] = b
      BY <1>4, <3>2 DEF Faithful
    <3> QED
      BY <1>1, <1>4, <3>1, <3>3, <3>4 DEF TypeOK
  <2> QED
    BY <2>1, <2>2
<1>8. ASSUME NEW g \in Fd, ready'[g] # {} PROVE Watched(g)'
  <2>1. g # fd /\ ready[g] # {}
    BY <1>1, <1>4, <1>8 DEF TypeOK
  <2> QED
    BY <1>4, <2>1 DEF Watched, TypeOK
<1> QED
  BY <1>5, <1>6, <1>7, <1>8

LEMMA InvStep == SocketsInv /\ [Next]_vars => SocketsInv'
<1> SUFFICES ASSUME SocketsInv, [Next]_vars PROVE SocketsInv'
  OBVIOUS
<1> USE DEF Resting
<1>1. CASE UNCHANGED vars
  BY <1>1 DEF vars, curlVars, heapVars, loopVars, SocketsInv, TypeOK, Faithful,
              PointerTrue, Watched, Open, Allocated
<1>2. ASSUME NEW fd \in Fd, NEW what \in SUBSET Event, Watch(fd, what)
      PROVE  SocketsInv'
  <2>1. /\ SocketFunction(fd, what)
        /\ want' = [want EXCEPT ![fd] = what]
        /\ failed' = IF failed = fd THEN Null ELSE failed
        /\ multi = "up" /\ inside = "action"
        /\ UNCHANGED <<deadline, multi, timer, phase, inside, activity>>
    BY <1>2 DEF Watch
  <2> QED
    BY <2>1, SocketFunctionStep DEF SocketsInv, TypeOK, Faithful
<1>3. ASSUME NEW fd \in Fd, Remove(fd) PROVE SocketsInv'
  <2>1. /\ SocketFunction(fd, {})
        /\ want' = [want EXCEPT ![fd] = {}]
        /\ failed' = IF failed = fd THEN Null ELSE failed
        /\ inside # "nothing"
        /\ activity' = [activity EXCEPT ![fd] = {}]
        /\ UNCHANGED <<deadline, multi, timer, phase, inside>>
    BY <1>3 DEF Remove, REMOVE
  <2>2. {} \in SUBSET Event
    OBVIOUS
  <2>3. activity' \in [Fd -> SUBSET (Event \cup {"err"})]
    BY <2>1 DEF SocketsInv, TypeOK
  <2> QED
    BY <2>1, <2>2, <2>3, SocketFunctionStep DEF SocketsInv, TypeOK, Faithful
<1>4. ASSUME NEW fd \in Fd, WatchFails(fd) PROVE SocketsInv'
  BY <1>4 DEF WatchFails, heapVars, loopVars, SocketsInv, TypeOK, Faithful,
              PointerTrue, Watched, Open, Allocated
<1>5. CASE SetTimeout \/ AddHandle
  <2>1. /\ UNCHANGED <<want, socketp, baton, failed, phase, ready, inside, activity>>
        /\ multi # "gone" /\ multi' \in {"up", "dead"}
        /\ deadline' \in BOOLEAN /\ timer' \in {"idle", "armed", "closing", "closed"}
        /\ deadline' => timer' = "armed"
    <3>1. CASE SetTimeout
      <4>1. PICK timeout_ms \in {-1, 0, 1} :
              TimerFunction(timeout_ms) /\ deadline' = (timeout_ms >= 0)
        BY <3>1 DEF SetTimeout
      <4>2. CASE timeout_ms >= 0
        BY <3>1, <4>1, <4>2 DEF SetTimeout, TimerFunction, heapVars, loopVars
      <4>3. CASE ~(timeout_ms >= 0)
        <5>1. (timeout_ms >= 0) = FALSE
          BY <4>3
        <5>2. ~deadline' /\ deadline' = FALSE
          BY <4>1, <5>1, Zenon
        <5>3. timer' = "idle"
          BY <4>1, <4>3 DEF TimerFunction
        <5> QED
          BY <3>1, <5>2, <5>3 DEF SetTimeout, heapVars, loopVars
      <4> QED
        BY <4>2, <4>3
    <3>2. CASE AddHandle
      <4>1. \/ multi' = "up" /\ deadline' = TRUE /\ timer' = "armed"
            \/ multi = "dead" /\ UNCHANGED <<multi, deadline, timer>>
        BY <3>2 DEF AddHandle, TimerFunction
      <4>2. CASE multi' = "up" /\ deadline' = TRUE /\ timer' = "armed"
        BY <3>2, <4>2 DEF AddHandle, heapVars, loopVars
      <4>3. CASE multi = "dead" /\ UNCHANGED <<multi, deadline, timer>>
        BY <3>2, <4>3 DEF AddHandle, heapVars, loopVars, SocketsInv, TypeOK, Faithful
      <4> QED
        BY <4>1, <4>2, <4>3
    <3> QED
      BY <1>5, <3>1, <3>2
  <2> QED
    BY <2>1, SameBatons DEF SocketsInv, TypeOK, Faithful
<1>6. CASE Return
  <2>1. /\ UNCHANGED <<want, socketp, baton, failed, phase, ready, multi, activity,
                       deadline, timer>>
        /\ failed = Null /\ inside' = "nothing"
    BY <1>6 DEF Return, curlVars, heapVars, loopVars
  <2> QED
    BY <2>1, SameBatons DEF SocketsInv, TypeOK, Faithful
<1>14. CASE OnTimeout
  <2>1. /\ UNCHANGED <<want, socketp, baton, failed, phase, ready, multi, activity>>
        /\ deadline' = FALSE /\ timer' = "idle"
        /\ inside' = "action" /\ multi # "gone"
    BY <1>14 DEF OnTimeout, heapVars, loopVars, SocketsInv
  <2> QED
    BY <2>1, SameBatons DEF SocketsInv, TypeOK, Faithful
<1>7. CASE Poll
  <2>1. ASSUME NEW fd \in Fd, Polled(fd) # {} PROVE Watched(fd)
    <3>1. PICK b \in Baton : Open(b) /\ baton[b].s = fd
      BY <2>1 DEF Polled
    <3>2. socketp[fd] = b
      BY <3>1 DEF SocketsInv, Faithful
    <3> QED
      BY <3>2 DEF SocketsInv, Faithful, PointerTrue
  <2>2. ready' = [fd \in Fd |->
          IF Polled(fd) = {} THEN {} ELSE activity[fd] \cap (Polled(fd) \cup {"err"})]
    BY <1>7 DEF Poll
  <2>3. /\ \A fd \in Fd : ready'[fd] # {} => Watched(fd)
        /\ ready' \in [Fd -> SUBSET (Event \cup {"err"})]
    BY <2>1, <2>2 DEF SocketsInv, TypeOK
  <2> QED
    BY <1>7, <2>3 DEF Poll, curlVars, heapVars, SocketsInv, TypeOK, Faithful,
                      PointerTrue, Watched, Open, Allocated
<1>8. ASSUME NEW fd \in Fd, OnPoll(fd) PROVE SocketsInv'
  <2>1. /\ Watched(fd) /\ multi # "gone" /\ failed = Null
    BY <1>8 DEF OnPoll, SocketsInv
  <2>2. /\ ready' = [ready EXCEPT ![fd] = {}]
        /\ activity' = [activity EXCEPT ![fd] = @ \ ready[fd]]
        /\ inside' = "action"
        /\ UNCHANGED <<want, deadline, multi, socketp, timer, phase>>
    BY <1>8 DEF OnPoll, curlVars
  <2>3. /\ ready' \in [Fd -> SUBSET (Event \cup {"err"})]
        /\ activity' \in [Fd -> SUBSET (Event \cup {"err"})]
        /\ \A g \in Fd : ready'[g] # {} => ready[g] # {}
    BY <2>2 DEF SocketsInv, TypeOK
  <2>4. CASE "err" \notin ready[fd]
    <3>1. UNCHANGED <<failed, baton>>
      BY <1>8, <2>4 DEF OnPoll
    <3> QED
      BY <2>1, <2>2, <2>3, <3>1 DEF SocketsInv, TypeOK, Faithful, PointerTrue,
                                    Watched, Open, Allocated
  <2>5. CASE "err" \in ready[fd]
    <3>1. /\ failed' = fd
          /\ baton' = [b \in Baton |->
               IF Open(b) /\ baton[b].s = fd
               THEN [s |-> fd, poll |-> {}, closing |-> FALSE] ELSE baton[b]]
      BY <1>8, <2>5 DEF OnPoll
    <3>2. ASSUME NEW b \in Baton
          PROVE  /\ baton'[b] \in Socket \cup {Freed}
                 /\ Open(b)' <=> Open(b)
                 /\ Open(b) => baton'[b].s = baton[b].s
      <4>1. CASE Open(b) /\ baton[b].s = fd
        <5>1. baton'[b] = [s |-> fd, poll |-> {}, closing |-> FALSE]
          BY <3>1, <4>1
        <5>2. baton'[b] \in Socket /\ baton'[b].s = fd /\ baton'[b].closing = FALSE
          BY <5>1
        <5>3. Open(b)'
          BY <5>2 DEF Open, Allocated
        <5> QED
          BY <4>1, <5>2, <5>3
      <4>2. CASE ~(Open(b) /\ baton[b].s = fd)
        <5>1. baton'[b] = baton[b] /\ baton[b] \in Socket \cup {Freed}
          BY <3>1, <4>2 DEF SocketsInv, TypeOK
        <5> QED
          BY <5>1 DEF Open, Allocated
      <4> QED
        BY <4>1, <4>2
    <3>3. baton' \in [Baton -> Socket \cup {Freed}]
      BY <3>1, <3>2
    <3>4. ASSUME NEW g \in Fd PROVE PointerTrue(g)'
      <4>1. PointerTrue(g) /\ socketp[g] \in Baton \cup {Null}
        BY DEF SocketsInv, Faithful, TypeOK
      <4>2. CASE ~Watched(g)
        BY <2>2, <4>1, <4>2 DEF PointerTrue, Watched
      <4>3. CASE Watched(g)
        <5>1. /\ socketp[g] \in Baton
              /\ baton[socketp[g]] = [s |-> g, closing |-> FALSE, poll |-> want[g]]
          BY <2>1, <4>1, <4>3 DEF PointerTrue
        <5>2. Open(socketp[g])
          BY <4>1, <4>3, PointerOpen DEF PointerTrue
        <5>3. baton[socketp[g]].s = g
          BY <4>1, <4>3, PointerOpen DEF PointerTrue
        <5>4. CASE g = fd
          <6>1. baton'[socketp[g]] = [s |-> g, closing |-> FALSE, poll |-> {}]
            BY <3>1, <5>1, <5>2, <5>3, <5>4
          <6> QED
            BY <2>2, <3>1, <4>3, <5>1, <5>4, <6>1 DEF PointerTrue, Watched
        <5>5. CASE g # fd
          <6>1. baton'[socketp[g]] = baton[socketp[g]]
            BY <3>1, <5>1, <5>3, <5>5
          <6> QED
            BY <2>1, <2>2, <3>1, <4>3, <5>1, <5>5, <6>1 DEF PointerTrue, Watched
        <5> QED
          BY <5>4, <5>5
      <4> QED
        BY <4>2, <4>3
    <3>5. \A b \in Baton : Open(b)' => socketp'[baton'[b].s] = b
      BY <2>2, <3>2 DEF SocketsInv, Faithful
    <3> QED
      BY <2>1, <2>2, <2>3, <3>1, <3>3, <3>4, <3>5
      DEF SocketsInv, TypeOK, Faithful, Watched
  <2> QED
    BY <2>4, <2>5
<1>9. CASE StateClear
  <2>1. /\ UNCHANGED <<want, socketp, baton, failed, phase, ready, multi, activity,
                       deadline, timer>>
        /\ failed = Null /\ inside' = "clear" /\ multi # "gone"
    BY <1>9 DEF StateClear, curlVars, heapVars, loopVars, SocketsInv
  <2> QED
    BY <2>1, SameBatons DEF SocketsInv, TypeOK, Faithful
<1>13. CASE StateCleared
  <2>1. /\ UNCHANGED <<want, socketp, baton, failed, phase, ready, activity>>
        /\ failed = Null /\ inside' = "nothing" /\ multi' = "gone"
        /\ timer' = "closing" /\ deadline' = FALSE
        /\ \A fd \in Fd : ~Watched(fd)
    BY <1>13 DEF StateCleared, heapVars, loopVars, SocketsInv
  <2> QED
    BY <2>1, SameBatons DEF SocketsInv, TypeOK, Faithful
<1>10. CASE EndPoll \/ TimerClosed \/ EndIteration
  BY <1>10 DEF EndPoll, TimerClosed, EndIteration, curlVars, heapVars, loopVars,
               SocketsInv, TypeOK, Faithful, PointerTrue, Watched, Open, Allocated
<1>11. ASSUME NEW b \in Baton, SocketDeinit(b) PROVE SocketsInv'
  <2>1. /\ baton' = [baton EXCEPT ![b] = Freed]
        /\ Allocated(b) /\ baton[b].closing
        /\ UNCHANGED <<curlVars, socketp, timer, loopVars, inside, failed, activity>>
    BY <1>11 DEF SocketDeinit
  <2>2. baton' \in [Baton -> Socket \cup {Freed}]
    BY <2>1 DEF SocketsInv, TypeOK
  <2>3. ASSUME NEW fd \in Fd PROVE PointerTrue(fd)'
    <3>1. PointerTrue(fd) /\ socketp[fd] \in Baton \cup {Null}
      BY DEF SocketsInv, Faithful, TypeOK
    <3>2. Watched(fd) => socketp[fd] # b
      BY <2>1, <3>1 DEF PointerTrue
    <3>3. Watched(fd) => baton'[socketp[fd]] = baton[socketp[fd]]
      BY <2>1, <3>1, <3>2 DEF PointerTrue, SocketsInv, TypeOK
    <3> QED
      BY <2>1, <3>1, <3>3 DEF PointerTrue, Watched, curlVars
  <2>4. \A c \in Baton : Open(c)' => socketp'[baton'[c].s] = c
    BY <2>1 DEF Open, Allocated, SocketsInv, TypeOK, Faithful
  <2> QED
    BY <2>1, <2>2, <2>3, <2>4 DEF SocketsInv, TypeOK, Faithful, Watched, curlVars, loopVars
<1>12. ASSUME NEW fd \in Fd, Happen(fd) PROVE SocketsInv'
  <2>1. activity' \in [Fd -> SUBSET (Event \cup {"err"})]
    BY <1>12 DEF Happen, SocketsInv, TypeOK
  <2> QED
    BY <1>12, <2>1 DEF Happen, curlVars, heapVars, loopVars, SocketsInv, TypeOK, Faithful,
                PointerTrue, Watched, Open, Allocated
<1> QED
  BY <1>1, <1>2, <1>3, <1>4, <1>5, <1>6, <1>7, <1>8, <1>9, <1>10, <1>11, <1>12, <1>13, <1>14
  DEF Next, Libcurl, Loop

(* The inductive invariant of the glue, for any number of descriptors and  *)
(* blocks of memory, and with allocations that fail.                       *)
THEOREM Invariant == Spec => []SocketsInv
<1> QED
  BY InitInv, InvStep, PTL DEF Spec

(* libuv watches what libcurl asked for, no more and no less, whatever the *)
(* order of the calls and however descriptors are used again.              *)
THEOREM AlwaysFaithful == Spec => []Faithful
<1>1. SocketsInv => Faithful
  BY DEF SocketsInv
<1> QED
  BY <1>1, Invariant, PTL

(* No callback reaches for the multi handle once it has been cleaned up.   *)
THEOREM MultiOutlivesCallbacks == Spec => []CallbackFindsMulti
<1>1. SocketsInv => CallbackFindsMulti
  BY DEF SocketsInv, CallbackFindsMulti
<1> QED
  BY <1>1, Invariant, PTL

=============================================================================
