-------------------------- MODULE LifecycleProofs --------------------------
(* Proofs about Lifecycle, for any targets and any number of signals.      *)
EXTENDS Lifecycle, TLAPS

USE LifecycleAssumption

LEMMA InitInv == Init => LifecycleInv
<1> SUFFICES ASSUME Init PROVE LifecycleInv
  OBVIOUS
<1>1. TypeOK
  <2>1. pc \in MainPC /\ failed \subseteq MainPC
    BY DEF Init, MainPC
  <2>2. /\ conn \in [Owner -> Owner \cup {"unset"}] /\ opened \subseteq Owner
        /\ finished \in [Owner -> Nat]
    BY DEF Init
  <2>3. handled \subseteq Signal /\ signals \in 0..MaxSignals
    BY DEF Init
  <2>4. /\ announced \in BOOLEAN /\ busy \in BOOLEAN
        /\ closing \in BOOLEAN /\ sawAlive \in BOOLEAN
    BY DEF Init
  <2>5. /\ at \in [Thread -> {"out", "created", "prepared", "check", "callback", "left"}]
        /\ at["main"] \notin {"check", "callback"} /\ toAdd = {}
    BY DEF Init, Thread
  <2>6. /\ toAdd \subseteq Timer /\ watched \subseteq Timer /\ armed \subseteq Timer
        /\ multi \in {"none", "up", "gone"}
        /\ async \in {"none", "idle", "sent", "closed"}
        /\ stoppedBy \in Thread \cup {"nobody"}
    BY DEF Init
  <2> QED
    BY <2>1, <2>2, <2>3, <2>4, <2>5, <2>6 DEF TypeOK
<1>2. ThreadInv /\ NoFinishUnderClient /\ LoopInv
  BY DEF Init, ThreadInv, NoFinishUnderClient, LoopInv, Owner, Thread
<1>3. ConnInv
  BY DEF Init, ConnInv, Clean, Done, Owner
<1> QED
  BY <1>1, <1>2, <1>3 DEF LifecycleInv

-----------------------------------------------------------------------------
(* The steps of main that leave the connections and the loop as they are.  *)
MainQuiet ==
  EnvInit \/ DbMigrate \/ ServerStart \/ (\E sig \in Signal : Handle(sig)) \/ Pause \/ ServerStop

(* Its steps that open connections, that stop the client, that finish      *)
(* connections.                                                            *)
MainOpens == Connect \/ ClientInit \/ ServerInit
MainStops == ClientStart \/ StopCheck \/ StopInit \/ StopSend \/ Join
MainFinishes == ServerDeinit \/ ClientDeinit \/ DbDeinit

LEMMA MainSplits == Main <=> MainQuiet \/ MainOpens \/ MainStops \/ MainFinishes
BY DEF Main, MainQuiet, MainOpens, MainStops, MainFinishes

LEMMA NextSplits ==
  ASSUME [Next]_vars
  PROVE  \/ MainQuiet \/ MainOpens \/ MainStops \/ MainFinishes
         \/ UNCHANGED vars \/ Client
         \/ \E t \in Thread : Loop(t)
         \/ \E sig \in Signal : Interrupt(sig)
BY MainSplits DEF Next

(* The type invariant, a group of variables at a time. *)
TypeMain ==
  /\ pc \in MainPC
  /\ failed \subseteq MainPC

TypeConn ==
  /\ conn \in [Owner -> Owner \cup {"unset"}]
  /\ opened \subseteq Owner
  /\ finished \in [Owner -> Nat]

TypeSignal ==
  /\ handled \subseteq Signal
  /\ signals \in 0..MaxSignals

TypeFlags ==
  /\ announced \in BOOLEAN /\ busy \in BOOLEAN
  /\ closing \in BOOLEAN /\ sawAlive \in BOOLEAN

TypeThread ==
  /\ at \in [Thread -> {"out", "created", "prepared", "check", "callback", "left"}]
  /\ at["main"] \in {"check", "callback"} => pc \in {"run", "killed"}
  /\ toAdd # {} => at["client"] = "prepared"

TypeLoop ==
  /\ toAdd \subseteq Timer /\ watched \subseteq Timer /\ armed \subseteq Timer
  /\ multi \in {"none", "up", "gone"}
  /\ async \in {"none", "idle", "sent", "closed"}
  /\ stoppedBy \in Thread \cup {"nobody"}

LEMMA TypeSplits == TypeOK <=> TypeMain /\ TypeConn /\ TypeSignal
                          /\ TypeFlags /\ TypeThread /\ TypeLoop
BY DEF TypeOK, TypeMain, TypeConn, TypeSignal, TypeFlags, TypeThread, TypeLoop

LEMMA TypeMainStep == TypeOK /\ [Next]_vars => TypeMain'
<1> SUFFICES ASSUME TypeOK, [Next]_vars PROVE TypeMain'
  OBVIOUS
<1>0. TypeMain
  BY TypeSplits
<1> USE <1>0 DEF TypeMain, MainPC
<1>1. CASE MainQuiet
  BY <1>1 DEF MainQuiet, EnvInit, DbMigrate, ServerStart, Handle, Pause, ServerStop, Go, Fail,
              connVars, signalVars, loopVars, handleVars
<1>2. CASE MainOpens
  BY <1>2 DEF MainOpens, Connect, ClientInit, ServerInit, Open, CopiesMain, Go, Fail,
              connVars, signalVars, loopVars, handleVars
<1>3. CASE MainStops
  BY <1>3 DEF MainStops, ClientStart, StopCheck, StopInit, StopSend, Join, Go, Fail,
              connVars, signalVars, loopVars, handleVars
<1>4. CASE MainFinishes
  BY <1>4 DEF MainFinishes, ServerDeinit, ClientDeinit, DbDeinit, Deinit,
              connVars, signalVars, loopVars, handleVars
<1>5. CASE UNCHANGED vars
  BY <1>5 DEF vars,
              connVars, signalVars, loopVars, handleVars
<1>6. CASE Client
  BY <1>6 DEF Client, Prepare, AddTarget, StartRun, MainStays,
              connVars, signalVars, loopVars, handleVars
<1>7. ASSUME NEW t \in Thread, Loop(t) PROVE TypeMain'
  BY <1>7 DEF Loop, RunTimer, EndCallback, TransfersEnd, RunStop, EndClosing, Leave, Turn,
              Undefined, MainStays, Go, connVars, signalVars, loopVars, handleVars
<1>8. ASSUME NEW sig \in Signal, Interrupt(sig) PROVE TypeMain'
  BY <1>8 DEF Interrupt, connVars, signalVars, loopVars, handleVars
<1> QED
  BY <1>1, <1>2, <1>3, <1>4, <1>5, <1>6, <1>7, <1>8, NextSplits

LEMMA TypeConnStep == TypeOK /\ [Next]_vars => TypeConn'
<1> SUFFICES ASSUME TypeOK, [Next]_vars PROVE TypeConn'
  OBVIOUS
<1>0. TypeConn
  BY TypeSplits
<1> USE <1>0 DEF TypeConn, Owner
<1>1. CASE MainQuiet
  BY <1>1 DEF MainQuiet, EnvInit, DbMigrate, ServerStart, Handle, Pause, ServerStop, Go, Fail,
              connVars, signalVars, loopVars, handleVars
<1>2. CASE MainOpens
  <2>1. (\E o \in Owner : Open(o) \/ CopiesMain(o)) \/ UNCHANGED connVars
    BY <1>2 DEF MainOpens, Connect, ClientInit, ServerInit
  <2>2. ASSUME NEW o \in Owner, Open(o) PROVE TypeConn'
    BY <2>2 DEF Open
  <2>3. ASSUME NEW o \in Owner, CopiesMain(o) PROVE TypeConn'
    BY <2>3 DEF CopiesMain
  <2> QED
    BY <2>1, <2>2, <2>3 DEF connVars
<1>3. CASE MainStops
  BY <1>3 DEF MainStops, ClientStart, StopCheck, StopInit, StopSend, Join, Go, Fail,
              connVars, signalVars, loopVars, handleVars
<1>4. CASE MainFinishes
  <2>1. PICK o \in Owner : \E here, there \in MainPC : Deinit(o, here, there)
    BY <1>4 DEF MainFinishes, ServerDeinit, ClientDeinit, DbDeinit, MainPC
  <2>2. UNCHANGED <<conn, opened>> /\ conn[o] \in Owner \cup {"unset"}
    BY <2>1 DEF Deinit
  <2>3. finished' = finished \/ (conn[o] \in Owner /\ finished' = [finished EXCEPT ![conn[o]] = @ + 1])
    BY <2>1, <2>2 DEF Deinit
  <2>4. finished' \in [Owner -> Nat]
    BY <2>3
  <2> QED
    BY <2>2, <2>4
<1>5. CASE UNCHANGED vars
  BY <1>5 DEF vars,
              connVars, signalVars, loopVars, handleVars
<1>6. CASE Client
  BY <1>6 DEF Client, Prepare, AddTarget, StartRun, MainStays,
              connVars, signalVars, loopVars, handleVars
<1>7. ASSUME NEW t \in Thread, Loop(t) PROVE TypeConn'
  BY <1>7 DEF Loop, RunTimer, EndCallback, TransfersEnd, RunStop, EndClosing, Leave, Turn,
              Undefined, MainStays, Go, connVars, signalVars, loopVars, handleVars
<1>8. ASSUME NEW sig \in Signal, Interrupt(sig) PROVE TypeConn'
  BY <1>8 DEF Interrupt, connVars, signalVars, loopVars, handleVars
<1> QED
  BY <1>1, <1>2, <1>3, <1>4, <1>5, <1>6, <1>7, <1>8, NextSplits

LEMMA TypeSignalStep == TypeOK /\ [Next]_vars => TypeSignal'
<1> SUFFICES ASSUME TypeOK, [Next]_vars PROVE TypeSignal'
  OBVIOUS
<1>0. TypeSignal
  BY TypeSplits
<1> USE <1>0 DEF TypeSignal, Signal
<1>1. CASE MainQuiet
  BY <1>1 DEF MainQuiet, EnvInit, DbMigrate, ServerStart, Handle, Pause, ServerStop, Go, Fail,
              connVars, signalVars, loopVars, handleVars
<1>2. CASE MainOpens
  BY <1>2 DEF MainOpens, Connect, ClientInit, ServerInit, Open, CopiesMain, Go, Fail,
              connVars, signalVars, loopVars, handleVars
<1>3. CASE MainStops
  BY <1>3 DEF MainStops, ClientStart, StopCheck, StopInit, StopSend, Join, Go, Fail,
              connVars, signalVars, loopVars, handleVars
<1>4. CASE MainFinishes
  BY <1>4 DEF MainFinishes, ServerDeinit, ClientDeinit, DbDeinit, Deinit,
              connVars, signalVars, loopVars, handleVars
<1>5. CASE UNCHANGED vars
  BY <1>5 DEF vars,
              connVars, signalVars, loopVars, handleVars
<1>6. CASE Client
  BY <1>6 DEF Client, Prepare, AddTarget, StartRun, MainStays,
              connVars, signalVars, loopVars, handleVars
<1>7. ASSUME NEW t \in Thread, Loop(t) PROVE TypeSignal'
  BY <1>7 DEF Loop, RunTimer, EndCallback, TransfersEnd, RunStop, EndClosing, Leave, Turn,
              Undefined, MainStays, Go, connVars, signalVars, loopVars, handleVars
<1>8. ASSUME NEW sig \in Signal, Interrupt(sig) PROVE TypeSignal'
  BY <1>8 DEF Interrupt, connVars, signalVars, loopVars, handleVars
<1> QED
  BY <1>1, <1>2, <1>3, <1>4, <1>5, <1>6, <1>7, <1>8, NextSplits

LEMMA TypeFlagsStep == TypeOK /\ [Next]_vars => TypeFlags'
<1> SUFFICES ASSUME TypeOK, [Next]_vars PROVE TypeFlags'
  OBVIOUS
<1>0. TypeFlags
  BY TypeSplits
<1> USE <1>0 DEF TypeFlags, LoopAlive
<1>1. CASE MainQuiet
  BY <1>1 DEF MainQuiet, EnvInit, DbMigrate, ServerStart, Handle, Pause, ServerStop, Go, Fail,
              connVars, signalVars, loopVars, handleVars
<1>2. CASE MainOpens
  BY <1>2 DEF MainOpens, Connect, ClientInit, ServerInit, Open, CopiesMain, Go, Fail,
              connVars, signalVars, loopVars, handleVars
<1>3. CASE MainStops
  BY <1>3 DEF MainStops, ClientStart, StopCheck, StopInit, StopSend, Join, Go, Fail,
              connVars, signalVars, loopVars, handleVars
<1>4. CASE MainFinishes
  BY <1>4 DEF MainFinishes, ServerDeinit, ClientDeinit, DbDeinit, Deinit,
              connVars, signalVars, loopVars, handleVars
<1>5. CASE UNCHANGED vars
  BY <1>5 DEF vars,
              connVars, signalVars, loopVars, handleVars
<1>6. CASE Client
  BY <1>6 DEF Client, Prepare, AddTarget, StartRun, MainStays,
              connVars, signalVars, loopVars, handleVars
<1>7. ASSUME NEW t \in Thread, Loop(t) PROVE TypeFlags'
  BY <1>7 DEF Loop, RunTimer, EndCallback, TransfersEnd, RunStop, EndClosing, Leave, Turn,
              Undefined, MainStays, Go, connVars, signalVars, loopVars, handleVars
<1>8. ASSUME NEW sig \in Signal, Interrupt(sig) PROVE TypeFlags'
  BY <1>8 DEF Interrupt, connVars, signalVars, loopVars, handleVars
<1> QED
  BY <1>1, <1>2, <1>3, <1>4, <1>5, <1>6, <1>7, <1>8, NextSplits

LEMMA TypeThreadStep == TypeOK /\ ThreadInv /\ [Next]_vars => TypeThread'
<1> SUFFICES ASSUME TypeOK, ThreadInv, [Next]_vars PROVE TypeThread'
  OBVIOUS
<1>0. TypeThread /\ TypeMain
  BY TypeSplits
<1> USE <1>0 DEF TypeThread, Thread
<1>1. CASE MainQuiet
  BY <1>1 DEF MainQuiet, EnvInit, DbMigrate, ServerStart, Handle, Pause, ServerStop, Go, Fail,
              connVars, signalVars, loopVars, handleVars
<1>2. CASE MainOpens
  BY <1>2 DEF MainOpens, Connect, ClientInit, ServerInit, Open, CopiesMain, Go, Fail,
              connVars, signalVars, loopVars, handleVars
<1>3. CASE MainStops
  <2>1. CASE ClientStart
    <3>1. pc # "run" /\ at["client"] = "out" /\ toAdd' = toAdd
      BY <2>1 DEF ClientStart, Go, Fail, ThreadInv, handleVars
    <3>2. /\ at' \in {at, [at EXCEPT !["client"] = "created"]}
          /\ at["main"] \notin {"check", "callback"}
      BY <2>1 DEF ClientStart, Go, Fail
    <3> QED
      BY <3>1, <3>2
  <2>2. CASE StopCheck \/ StopInit \/ StopSend \/ Join
    BY <2>2 DEF StopCheck, StopInit, StopSend, Join, Go, loopVars, handleVars
  <2> QED
    BY <1>3, <2>1, <2>2 DEF MainStops
<1>4. CASE MainFinishes
  BY <1>4 DEF MainFinishes, ServerDeinit, ClientDeinit, DbDeinit, Deinit,
              connVars, signalVars, loopVars, handleVars
<1>5. CASE UNCHANGED vars
  BY <1>5 DEF vars,
              connVars, signalVars, loopVars, handleVars
<1>6. CASE Client
  BY <1>6 DEF Client, Prepare, AddTarget, StartRun, MainStays,
              connVars, signalVars, loopVars, handleVars
<1>7. ASSUME NEW t \in Thread, Loop(t) PROVE TypeThread'
  BY <1>7 DEF Loop, RunTimer, EndCallback, TransfersEnd, RunStop, EndClosing, Leave, Turn,
              Undefined, MainStays, Go, connVars, signalVars, loopVars, handleVars
<1>8. ASSUME NEW sig \in Signal, Interrupt(sig) PROVE TypeThread'
  BY <1>8 DEF Interrupt, connVars, signalVars, loopVars, handleVars
<1> QED
  BY <1>1, <1>2, <1>3, <1>4, <1>5, <1>6, <1>7, <1>8, NextSplits

LEMMA TypeLoopStep == TypeOK /\ [Next]_vars => TypeLoop'
<1> SUFFICES ASSUME TypeOK, [Next]_vars PROVE TypeLoop'
  OBVIOUS
<1>0. TypeLoop
  BY TypeSplits
<1> USE <1>0 DEF TypeLoop, Thread
<1>1. CASE MainQuiet
  BY <1>1 DEF MainQuiet, EnvInit, DbMigrate, ServerStart, Handle, Pause, ServerStop, Go, Fail,
              connVars, signalVars, loopVars, handleVars
<1>2. CASE MainOpens
  BY <1>2 DEF MainOpens, Connect, ClientInit, ServerInit, Open, CopiesMain, Go, Fail,
              connVars, signalVars, loopVars, handleVars
<1>3. CASE MainStops
  BY <1>3 DEF MainStops, ClientStart, StopCheck, StopInit, StopSend, Join, Go, Fail,
              connVars, signalVars, loopVars, handleVars
<1>4. CASE MainFinishes
  BY <1>4 DEF MainFinishes, ServerDeinit, ClientDeinit, DbDeinit, Deinit,
              connVars, signalVars, loopVars, handleVars
<1>5. CASE UNCHANGED vars
  BY <1>5 DEF vars,
              connVars, signalVars, loopVars, handleVars
<1>6. CASE Client
  BY <1>6 DEF Client, Prepare, AddTarget, StartRun, MainStays,
              connVars, signalVars, loopVars, handleVars
<1>7. ASSUME NEW t \in Thread, Loop(t) PROVE TypeLoop'
  BY <1>7 DEF Loop, RunTimer, EndCallback, TransfersEnd, RunStop, EndClosing, Leave, Turn,
              Undefined, MainStays, Go, connVars, signalVars, loopVars, handleVars
<1>8. ASSUME NEW sig \in Signal, Interrupt(sig) PROVE TypeLoop'
  BY <1>8 DEF Interrupt, connVars, signalVars, loopVars, handleVars
<1> QED
  BY <1>1, <1>2, <1>3, <1>4, <1>5, <1>6, <1>7, <1>8, NextSplits

LEMMA TypeStep == TypeOK /\ ThreadInv /\ [Next]_vars => TypeOK'
<1>1. (TypeMain /\ TypeConn /\ TypeSignal /\ TypeFlags /\ TypeThread /\ TypeLoop)' => TypeOK'
  BY DEF TypeOK, TypeMain, TypeConn, TypeSignal, TypeFlags, TypeThread, TypeLoop
<1> QED
  BY <1>1, TypeMainStep, TypeConnStep, TypeSignalStep, TypeFlagsStep, TypeThreadStep, TypeLoopStep

-----------------------------------------------------------------------------
(* What everybody but main does to main: nothing, or it dies or is woken.  *)
LEMMA OthersAndMain ==
  ASSUME TypeOK,
         \/ UNCHANGED vars
         \/ Client
         \/ \E t \in Thread : Loop(t)
         \/ \E sig \in Signal : Interrupt(sig)
  PROVE  /\ UNCHANGED <<failed, conn, opened, finished>>
         /\ \/ pc' = pc
            \/ pc' = "killed"
            \/ pc = "run" /\ pc' = "join"
            \/ pc = "pause" /\ pc' = "serverStop"
<1>1. CASE UNCHANGED vars
  BY <1>1 DEF vars, connVars
<1>2. CASE Client
  BY <1>2 DEF Client, Prepare, AddTarget, StartRun, MainStays, connVars
<1>3. ASSUME NEW t \in Thread, Loop(t)
      PROVE  /\ UNCHANGED <<failed, conn, opened, finished>>
             /\ pc' = pc \/ pc' = "killed" \/ (pc = "run" /\ pc' = "join")
  BY <1>3 DEF Loop, RunTimer, EndCallback, TransfersEnd, RunStop, EndClosing, Leave,
              Undefined, MainStays, Go, connVars
<1>4. ASSUME NEW sig \in Signal, Interrupt(sig)
      PROVE  /\ UNCHANGED <<failed, conn, opened, finished>>
             /\ pc' = pc \/ pc' = "killed" \/ (pc = "pause" /\ pc' = "serverStop")
  BY <1>4 DEF Interrupt, connVars
<1> QED
  BY <1>1, <1>2, <1>3, <1>4

(* A thread that has not begun, or that has left, is not moved by others.  *)
LEMMA OthersAndThread ==
  ASSUME TypeOK,
         \/ UNCHANGED vars
         \/ Client
         \/ \E t \in Thread : Loop(t)
         \/ \E sig \in Signal : Interrupt(sig)
  PROVE  at["client"] \in {"out", "left"} => at'["client"] = at["client"]
<1>1. CASE UNCHANGED vars
  BY <1>1 DEF vars, loopVars
<1>2. CASE Client
  BY <1>2 DEF Client, Prepare, AddTarget, StartRun
<1>3. ASSUME NEW t \in Thread, Loop(t), at["client"] \in {"out", "left"}
      PROVE  at'["client"] = at["client"]
  BY <1>3 DEF Loop, RunTimer, EndCallback, TransfersEnd, RunStop, EndClosing, Leave, Turn,
              TypeOK, Thread
<1>4. ASSUME NEW sig \in Signal, Interrupt(sig) PROVE at' = at
  BY <1>4 DEF Interrupt, loopVars
<1> QED
  BY <1>1, <1>2, <1>3, <1>4

LEMMA ThreadStep == LifecycleInv /\ [Next]_vars => (ThreadInv /\ NoFinishUnderClient)'
<1> SUFFICES ASSUME LifecycleInv, [Next]_vars PROVE (ThreadInv /\ NoFinishUnderClient)'
  OBVIOUS
<1>0. /\ TypeOK /\ ThreadInv /\ NoFinishUnderClient
      /\ pc \notin {"clientDeinit", "dbDeinit", "returned", "killed"}
           => \A o \in Owner : finished[o] = 0
  BY DEF LifecycleInv, ConnInv
<1> USE <1>0 DEF ThreadInv, NoFinishUnderClient
<1>1. CASE MainQuiet
  BY <1>1 DEF MainQuiet, EnvInit, DbMigrate, ServerStart, Handle, Pause, ServerStop, Go, Fail,
              connVars, loopVars
<1>2. CASE MainOpens
  BY <1>2 DEF MainOpens, Connect, ClientInit, ServerInit, Open, CopiesMain, Go, Fail,
              connVars, loopVars
<1>3. CASE MainStops
  BY <1>3 DEF MainStops, ClientStart, StopCheck, StopInit, StopSend, Join, Go, Fail,
              connVars, loopVars, TypeOK, Thread
<1>4. CASE MainFinishes
  <2>1. /\ pc \in {"serverDeinit", "clientDeinit", "dbDeinit"}
        /\ pc' \in {"clientDeinit", "dbDeinit", "returned", "killed"}
        /\ UNCHANGED <<failed, at>>
    BY <1>4 DEF MainFinishes, ServerDeinit, ClientDeinit, DbDeinit, Deinit, loopVars
  <2> QED
    BY <2>1
<1>5. CASE \/ UNCHANGED vars
           \/ Client
           \/ \E t \in Thread : Loop(t)
           \/ \E sig \in Signal : Interrupt(sig)
  <2>1. /\ UNCHANGED <<failed, conn, opened, finished>>
        /\ \/ pc' = pc
           \/ pc' = "killed"
           \/ pc = "run" /\ pc' = "join"
           \/ pc = "pause" /\ pc' = "serverStop"
    BY <1>5, OthersAndMain
  <2>2. at["client"] \in {"out", "left"} => at'["client"] = at["client"]
    BY <1>5, OthersAndThread
  <2> QED
    BY <2>1, <2>2
<1> QED
  BY <1>1, <1>2, <1>3, <1>4, <1>5, NextSplits

-----------------------------------------------------------------------------
LEMMA ConnStep == LifecycleInv /\ [Next]_vars => ConnInv'
<1> SUFFICES ASSUME LifecycleInv, [Next]_vars PROVE ConnInv'
  OBVIOUS
<1>0. TypeOK /\ ConnInv
  BY DEF LifecycleInv
<1> USE <1>0 DEF ConnInv, Clean, Done
<1>1. CASE MainQuiet
  BY <1>1 DEF MainQuiet, EnvInit, DbMigrate, ServerStart, Handle, Pause, ServerStop, Go, Fail,
              connVars
<1>2. CASE Connect
  BY <1>2 DEF Connect, Open, Go, Fail, connVars, TypeOK, Owner
<1>3. CASE ClientInit
  BY <1>3 DEF ClientInit, Open, CopiesMain, Go, Fail, connVars, TypeOK, Owner
<1>4. CASE ServerInit
  BY <1>4 DEF ServerInit, Open, CopiesMain, Go, Fail, connVars, TypeOK, Owner
<1>5. CASE MainStops
  BY <1>5 DEF MainStops, ClientStart, StopCheck, StopInit, StopSend, Join, Go, Fail,
              connVars
<1>6. CASE ServerDeinit
  BY <1>6 DEF ServerDeinit, Deinit, TypeOK, Owner
<1>7. CASE ClientDeinit
  BY <1>7 DEF ClientDeinit, Deinit, TypeOK, Owner
<1>8. CASE DbDeinit
  BY <1>8 DEF DbDeinit, Deinit, TypeOK, Owner
<1>9. CASE \/ UNCHANGED vars
           \/ Client
           \/ \E t \in Thread : Loop(t)
           \/ \E sig \in Signal : Interrupt(sig)
  <2>1. /\ UNCHANGED <<failed, conn, opened, finished>>
        /\ \/ pc' = pc
           \/ pc' = "killed"
           \/ pc = "run" /\ pc' = "join"
           \/ pc = "pause" /\ pc' = "serverStop"
    BY <1>9, OthersAndMain
  <2> QED
    BY <2>1 DEF Owner, TypeOK
<1> QED
  BY <1>1, <1>2, <1>3, <1>4, <1>5, <1>6, <1>7, <1>8, <1>9, NextSplits
  DEF MainOpens, MainFinishes

-----------------------------------------------------------------------------
LEMMA LoopStep == LifecycleInv /\ [Next]_vars => LoopInv'
<1> SUFFICES ASSUME LifecycleInv, [Next]_vars PROVE LoopInv'
  OBVIOUS
<1>0. TypeOK /\ ThreadInv /\ LoopInv
  BY DEF LifecycleInv
<1> USE <1>0 DEF LoopInv
<1>1. CASE UNCHANGED <<at, armed, watched, multi>>
  BY <1>1
<1>2. CASE MainStops
  <2>1. UNCHANGED <<armed, watched, multi>>
    BY <1>2 DEF MainStops, ClientStart, StopCheck, StopInit, StopSend, Join, loopVars,
                handleVars
  <2>2. CASE ClientStart
    <3>1. at["client"] = "out"
      BY <2>2 DEF ClientStart, Go, Fail, ThreadInv
    <3>2. at' = at \/ (at'["client"] = "created" /\ at'["main"] = at["main"])
      BY <2>2 DEF ClientStart, TypeOK, Thread
    <3> QED
      BY <2>1, <3>1, <3>2
  <2>3. CASE StopCheck \/ StopInit \/ StopSend \/ Join
    <3>1. at' = at \/ at'["main"] = "check"
      BY <2>3 DEF StopCheck, StopInit, StopSend, Join, loopVars, TypeOK, Thread
    <3> QED
      BY <2>1, <3>1
  <2> QED
    BY <1>2, <2>2, <2>3 DEF MainStops
<1>3. CASE Client
  BY <1>3 DEF Client, Prepare, AddTarget, StartRun, TypeOK, Thread
<1>4. CASE Loop("client")
  <2>1. at["client"] \in {"check", "callback"} /\ at'["main"] = at["main"]
    BY <1>4 DEF Loop, RunTimer, EndCallback, TransfersEnd, RunStop, EndClosing, Leave, Turn,
                TypeOK, Thread
  <2>2. CASE RunTimer("client")
    <3>1. /\ at["client"] = "check" /\ at'["client"] = "callback"
          /\ armed # {} /\ armed' \subseteq armed /\ UNCHANGED <<watched, multi>>
      BY <2>2 DEF RunTimer, Turn, TypeOK, Thread
    <3> QED
      BY <2>1, <3>1
  <2>3. CASE RunStop("client")
    <3>1. /\ at["client"] = "check" /\ at' = at /\ multi' = "gone"
          /\ armed' = {} /\ watched' = {}
      BY <2>3 DEF RunStop, Turn
    <3> QED
      BY <3>1
  <2>4. CASE EndCallback("client")
    <3>1. /\ at["client"] = "callback" /\ at'["client"] = "check"
          /\ UNCHANGED <<armed, watched, multi>>
      BY <2>4 DEF EndCallback, TypeOK, Thread
    <3> QED
      BY <2>1, <3>1
  <2>5. CASE TransfersEnd("client") \/ EndClosing("client")
    BY <2>5 DEF TransfersEnd, EndClosing
  <2>6. CASE Leave("client")
    <3>1. /\ at["client"] = "check" /\ at'["client"] = "left"
          /\ UNCHANGED <<armed, watched, multi>>
      BY <2>6 DEF Leave, Turn, handleVars, TypeOK, Thread
    <3> QED
      BY <2>1, <3>1
  <2> QED
    BY <1>4, <2>2, <2>3, <2>4, <2>5, <2>6 DEF Loop
<1>5. CASE Loop("main")
  <2>1. at'["main"] # "out" /\ armed' \subseteq watched'
    BY <1>5 DEF Loop, RunTimer, EndCallback, TransfersEnd, RunStop, EndClosing, Leave, Turn,
                handleVars, TypeOK, Thread
  <2> QED
    BY <2>1
<1> QED
  <2>1. CASE MainQuiet
    BY <1>1, <2>1 DEF MainQuiet, EnvInit, DbMigrate, ServerStart, Handle, Pause, ServerStop,
                      loopVars, handleVars
  <2>2. CASE MainOpens
    BY <1>1, <2>2 DEF MainOpens, Connect, ClientInit, ServerInit, loopVars, handleVars
  <2>3. CASE MainFinishes
    BY <1>1, <2>3 DEF MainFinishes, ServerDeinit, ClientDeinit, DbDeinit, Deinit,
                      loopVars, handleVars
  <2>4. CASE UNCHANGED vars
    BY <1>1, <2>4 DEF vars, loopVars, handleVars
  <2>5. ASSUME NEW sig \in Signal, Interrupt(sig) PROVE LoopInv'
    BY <1>1, <2>5 DEF Interrupt, loopVars, handleVars
  <2>6. ASSUME NEW t \in Thread, Loop(t) PROVE LoopInv'
    BY <1>4, <1>5, <2>6 DEF Thread
  <2> QED
    BY <1>2, <1>3, <2>1, <2>2, <2>3, <2>4, <2>5, <2>6, NextSplits

-----------------------------------------------------------------------------
(* The inductive invariant of the process, for any targets and signals.    *)
THEOREM Invariant == Spec => []LifecycleInv
<1>1. LifecycleInv /\ [Next]_vars => LifecycleInv'
  BY TypeStep, ThreadStep, ConnStep, LoopStep DEF LifecycleInv
<1> QED
  BY InitInv, <1>1, PTL DEF Spec

(* On every way out of main on which no init function failed half-way,     *)
(* each connection is finished exactly once.                               *)
THEOREM EachFinishedOnce == Spec => []FinishedOnce
<1>1. LifecycleInv => FinishedOnce
  <2> SUFFICES ASSUME LifecycleInv, failed \cap {"clientInit", "serverInit"} = {}
               PROVE  /\ \A o \in Owner : finished[o] <= 1
                      /\ pc = "returned" => \A o \in opened : finished[o] = 1
    BY DEF FinishedOnce
  <2>1. ConnInv /\ Clean /\ opened \subseteq Owner
    BY DEF LifecycleInv, Clean, TypeOK
  <2>2. \A o \in Owner : finished[o] \in {0, 1}
    BY <2>1 DEF ConnInv
  <2>3. pc = "returned" => \A o \in opened : finished[o] = 1
    BY <2>1 DEF ConnInv, Done
  <2> QED
    BY <2>2, <2>3
<1> QED
  BY <1>1, Invariant, PTL

(* No connection is finished while the client's thread may use one, unless *)
(* the server did not start.                                               *)
THEOREM ThreadGoneFirst == Spec => []NoFinishUnderClient
<1>1. LifecycleInv => NoFinishUnderClient
  BY DEF LifecycleInv
<1> QED
  BY <1>1, Invariant, PTL

(* A callback finds the multi handle alive as long as main keeps out of    *)
(* the loop.                                                               *)
THEOREM CallbackFindsMultiAlive == Spec => []MultiAlive
<1>1. LifecycleInv => MultiAlive
  BY DEF LifecycleInv, LoopInv, MultiAlive, TypeOK, Thread
<1> QED
  BY <1>1, Invariant, PTL

=============================================================================
