----------------------------- MODULE Lifecycle -----------------------------
(***************************************************************************)
(* How the process starts, is interrupted and ends: src/main.c,            *)
(* src/client/client.c, the parts of watcher.c and state.c that they call, *)
(* and the connections that database.c, state.c and server.c open.         *)
(*                                                                         *)
(* Three threads live in the process: main, the client's, and the one the  *)
(* HTTP daemon keeps to itself, of which only the connection matters here. *)
(* Main and the client's thread may both end up inside uv_run on the same  *)
(* loop; the callbacks are therefore actions of the thread that runs them. *)
(* A target is reduced to its timer, the checks to one flag.               *)
(*                                                                         *)
(* Out of the model: uv_async_init itself is not thread-safe, and the      *)
(* insertion of the handle into a running loop's queues is taken as atomic.*)
(***************************************************************************)
EXTENDS Integers

CONSTANTS Recurring,   \* targets whose timers repeat
          Once,        \* targets whose timers ring once (interval 0)
          MaxSignals   \* bound: SIGINTs and SIGTERMs sent

ASSUME LifecycleAssumption == MaxSignals \in Nat /\ Recurring \cap Once = {}

Timer == Recurring \cup Once
Thread == {"main", "client"}
Owner == {"main", "client", "server"}   \* of a struct reachard_db
Signal == {"INT", "TERM"}

VARIABLES pc,         \* where main is
          failed,     \* the steps of main that failed
          conn,       \* conn[o]: whose connection o's db.conn points at
          opened,     \* the connections that were made
          finished,   \* finished[o]: calls of PQfinish on o's connection
          handled,    \* the signals with a handler
          signals,    \* signals sent so far
          announced,  \* the handler has said "Shutting down!"
          at,         \* at[t]: where thread t is with respect to the loop
          toAdd,      \* rows read by watcher_start and not yet in the table
          watched,    \* the hash table
          armed,      \* active timers
          busy,       \* curl has transfers under way
          multi,      \* the multi handle
          async,      \* the handle in reachard_client_stop's frame
          closing,    \* there are handles whose close callback is due
          sawAlive,   \* loop_alive in reachard_client_stop
          stoppedBy   \* the thread that ran stop

connVars == <<conn, opened, finished>>
signalVars == <<handled, signals, announced>>
handleVars == <<toAdd, watched, armed, busy, multi, async, closing, stoppedBy>>
loopVars == <<at, handleVars>>
vars == <<pc, failed, sawAlive, connVars, signalVars, loopVars>>

MainPC == {"env", "connect", "migrate", "clientInit", "serverInit", "clientStart",
           "serverStart", "handlers", "beforePause", "pause", "serverStop",
           "stopCheck", "stopInit", "stopSend", "run", "join", "serverDeinit",
           "clientDeinit", "dbDeinit", "returned", "killed"}

TypeOK ==
  /\ pc \in MainPC
  /\ failed \subseteq MainPC
  /\ conn \in [Owner -> Owner \cup {"unset"}]
  /\ opened \subseteq Owner
  /\ finished \in [Owner -> Nat]
  /\ handled \subseteq Signal
  /\ signals \in 0..MaxSignals
  /\ announced \in BOOLEAN /\ busy \in BOOLEAN
  /\ closing \in BOOLEAN /\ sawAlive \in BOOLEAN
  /\ at \in [Thread -> {"out", "created", "prepared", "check", "callback", "left"}]
  /\ toAdd \subseteq Timer /\ watched \subseteq Timer /\ armed \subseteq Timer
  /\ multi \in {"none", "up", "gone"}
  /\ async \in {"none", "idle", "sent", "closed"}
  /\ stoppedBy \in Thread \cup {"nobody"}
  /\ at["main"] \in {"check", "callback"} => pc \in {"run", "killed"}
  /\ toAdd # {} => at["client"] = "prepared"   \* the rows are freed

Init ==
  /\ pc = "env"
  /\ failed = {}
  /\ conn = [o \in Owner |-> "unset"]
  /\ opened = {}
  /\ finished = [o \in Owner |-> 0]
  /\ handled = {}
  /\ signals = 0
  /\ announced = FALSE
  /\ at = [t \in Thread |-> "out"]
  /\ toAdd = {} /\ watched = {} /\ armed = {}
  /\ busy = FALSE
  /\ multi = "none"
  /\ async = "none"
  /\ closing = FALSE
  /\ sawAlive = FALSE
  /\ stoppedBy = "nobody"

Alive == pc \notin {"returned", "killed"}

-----------------------------------------------------------------------------
(* Main, up to the point where it waits for a signal.                      *)

Go(here, there) == pc = here /\ pc' = there

Fail(here, there) == Go(here, there) /\ failed' = failed \cup {here}

Open(o) ==
  /\ conn' = [conn EXCEPT ![o] = o]
  /\ opened' = opened \cup {o}
  /\ UNCHANGED finished

(* reachard_env_init.  It fails for a port that is not a number, and main  *)
(* goes on all the same, with a port and a db_url that were never written. *)
EnvInit ==
  /\ \/ Go("env", "connect") /\ UNCHANGED failed
     \/ Fail("env", "connect")
  /\ UNCHANGED <<sawAlive, connVars, signalVars, loopVars>>

(* reachard_db_connect, on the struct that main keeps, with what happens   *)
(* to be in db_url.                                                        *)
Connect ==
  /\ \/ Go("connect", "migrate") /\ Open("main") /\ UNCHANGED failed
     \/ Fail("connect", "returned") /\ UNCHANGED connVars
     \/ "env" \in failed /\ Go("connect", "killed") /\ UNCHANGED <<failed, connVars>>
  /\ UNCHANGED <<sawAlive, signalVars, loopVars>>

DbMigrate ==
  /\ \/ Go("migrate", "clientInit") /\ UNCHANGED failed
     \/ Fail("migrate", "dbDeinit")
  /\ UNCHANGED <<sawAlive, connVars, signalVars, loopVars>>

(* The struct is copied from main's, its connection included, and then     *)
(* connected; if that fails, the copy still points at main's connection.   *)
CopiesMain(o) ==
  /\ conn' = [conn EXCEPT ![o] = conn["main"]]
  /\ UNCHANGED <<opened, finished>>

(* If the loop cannot be initialised, the struct is not even written.      *)
ClientInit ==
  /\ \/ Go("clientInit", "serverInit") /\ Open("client") /\ UNCHANGED failed
     \/ Fail("clientInit", "clientDeinit") /\ CopiesMain("client")
     \/ Fail("clientInit", "clientDeinit") /\ UNCHANGED connVars
  /\ UNCHANGED <<sawAlive, signalVars, loopVars>>

ServerInit ==
  /\ \/ Go("serverInit", "clientStart") /\ Open("server") /\ UNCHANGED failed
     \/ Fail("serverInit", "serverDeinit") /\ CopiesMain("server")
  /\ UNCHANGED <<sawAlive, signalVars, loopVars>>

ClientStart ==
  /\ \/ /\ Go("clientStart", "serverStart")
        /\ at' = [at EXCEPT !["client"] = "created"]
        /\ UNCHANGED failed
     \/ Fail("clientStart", "serverDeinit") /\ UNCHANGED at
  /\ UNCHANGED <<sawAlive, connVars, signalVars, handleVars>>

ServerStart ==
  /\ \/ Go("serverStart", "handlers") /\ UNCHANGED failed
     \/ Fail("serverStart", "serverDeinit")
  /\ UNCHANGED <<sawAlive, connVars, signalVars, loopVars>>

(* reachard_pause: first SIGINT, then SIGTERM gets the handler. *)
Handle(sig) ==
  /\ pc = "handlers"
  /\ sig = (IF "INT" \in handled THEN "TERM" ELSE "INT")
  /\ handled' = handled \cup {sig}
  /\ pc' = IF sig = "TERM" THEN "beforePause" ELSE "handlers"
  /\ UNCHANGED <<failed, sawAlive, signals, announced, connVars, loopVars>>

Pause ==
  /\ Go("beforePause", "pause")
  /\ UNCHANGED <<failed, sawAlive, connVars, signalVars, loopVars>>

(* A signal for the process.  Without a handler it is fatal; with one, the *)
(* handler prints its line, and pause returns if main is in it.  Linux     *)
(* hands the signal to the main thread, which never blocks it.             *)
Interrupt(sig) ==
  /\ Alive
  /\ signals < MaxSignals
  /\ signals' = signals + 1
  /\ IF sig \in handled
     THEN /\ announced' = TRUE
          /\ pc' = IF pc = "pause" THEN "serverStop" ELSE pc
     ELSE pc' = "killed" /\ UNCHANGED announced
  /\ UNCHANGED <<failed, sawAlive, handled, connVars, loopVars>>

-----------------------------------------------------------------------------
(* The client's thread before uv_run: reachard_client_watcher_start.       *)

MainStays == UNCHANGED <<pc, failed, sawAlive, connVars, signalVars>>

(* reachard_client_state_prepare, then the SELECT of all rows, which may   *)
(* fail: start goes on to run the loop regardless.                         *)
Prepare ==
  /\ Alive
  /\ at["client"] = "created"
  /\ at' = [at EXCEPT !["client"] = "prepared"]
  /\ multi' = "up"
  /\ toAdd' \in SUBSET Timer
  /\ MainStays
  /\ UNCHANGED <<watched, armed, busy, async, closing, stoppedBy>>

AddTarget(t) ==
  /\ Alive
  /\ at["client"] = "prepared"
  /\ t \in toAdd
  /\ toAdd' = toAdd \ {t}
  /\ armed' = armed \cup {t}
  /\ watched' = watched \cup {t}
  /\ MainStays
  /\ UNCHANGED <<at, busy, multi, async, closing, stoppedBy>>

(* Rows that are not freed when an allocation fails. *)
StartRunLeaks ==
  /\ Alive
  /\ at["client"] = "prepared"
  /\ at' = [at EXCEPT !["client"] = "check"]
  /\ MainStays
  /\ UNCHANGED <<toAdd, watched, armed, busy, multi, async, closing, stoppedBy>>

(* All rows are in the table, or an allocation failed. *)
StartRun ==
  /\ Alive
  /\ at["client"] = "prepared"
  /\ at' = [at EXCEPT !["client"] = "check"]
  /\ toAdd' = {}
  /\ MainStays
  /\ UNCHANGED <<watched, armed, busy, multi, async, closing, stoppedBy>>

-----------------------------------------------------------------------------
(* The loop, run by thread t.                                              *)

LoopAlive ==
  armed # {} \/ busy \/ async \in {"idle", "sent"} \/ closing

Turn(t) == Alive /\ at[t] = "check"

(* A timer rings.  One that does not repeat is stopped before its callback *)
(* runs: until the callback has started a transfer, the loop may have      *)
(* nothing active in it.                                                   *)
RunTimer(t) ==
  /\ Turn(t)
  /\ \E timer \in armed : armed' = armed \ ({timer} \cap Once)
  /\ at' = [at EXCEPT ![t] = "callback"]
  /\ MainStays
  /\ UNCHANGED <<toAdd, watched, busy, multi, async, closing, stoppedBy>>

(* Undefined behaviour: the process dies, or nothing comes of it. *)
Undefined == pc' \in {"killed", pc} /\ UNCHANGED <<failed, sawAlive, connVars, signalVars>>

(* target_check adds a transfer to the multi handle, or gives up before.   *)
EndCallback(t) ==
  /\ Alive
  /\ at[t] = "callback"
  /\ at' = [at EXCEPT ![t] = "check"]
  /\ \/ multi = "up" /\ busy' = TRUE /\ MainStays
     \/ UNCHANGED busy /\ MainStays
     \/ multi # "up" /\ UNCHANGED busy /\ Undefined
  /\ UNCHANGED <<toAdd, watched, armed, multi, async, closing, stoppedBy>>

(* The last of the transfers under way completes. *)
TransfersEnd(t) ==
  /\ Turn(t)
  /\ busy
  /\ busy' = FALSE
  /\ MainStays
  /\ UNCHANGED <<at, toAdd, watched, armed, multi, async, closing, stoppedBy>>

(* watcher_stop that clears the state and forgets the targets. *)
StopKeepsTargets(t) ==
  /\ Turn(t)
  /\ async = "sent"
  /\ async' = "closed"
  /\ busy' = FALSE
  /\ closing' = TRUE
  /\ stoppedBy' = t
  /\ multi' = "gone"
  /\ IF multi = "up" THEN MainStays ELSE Undefined
  /\ UNCHANGED <<at, toAdd, watched, armed>>

(* stop: the targets in the hash table and the multi handle go, and        *)
(* everything handed to uv_close waits for the end of the iteration.  The  *)
(* multi handle must have been made.                                       *)
RunStop(t) ==
  /\ Turn(t)
  /\ async = "sent"
  /\ async' = "closed"
  /\ watched' = {}
  /\ armed' = armed \ watched
  /\ busy' = FALSE
  /\ closing' = TRUE
  /\ stoppedBy' = t
  /\ multi' = "gone"
  /\ IF multi = "up" THEN MainStays ELSE Undefined
  /\ UNCHANGED <<at, toAdd>>

EndClosing(t) ==
  /\ Turn(t)
  /\ closing
  /\ closing' = FALSE
  /\ MainStays
  /\ UNCHANGED <<at, toAdd, watched, armed, busy, multi, async, stoppedBy>>

(* uv_run returns; in the client's thread, that is the end of the thread.  *)
Leave(t) ==
  /\ Turn(t)
  /\ ~LoopAlive
  /\ at' = [at EXCEPT ![t] = "left"]
  /\ IF t = "main"
     THEN Go("run", "join") /\ UNCHANGED <<failed, sawAlive, connVars, signalVars>>
     ELSE MainStays
  /\ UNCHANGED handleVars

-----------------------------------------------------------------------------
(* Main, from the signal on.  MHD_stop_daemon waits for the daemon's own   *)
(* thread.                                                                 *)

ServerStop ==
  /\ Go("serverStop", "stopCheck")
  /\ UNCHANGED <<failed, sawAlive, connVars, signalVars, loopVars>>

(* reachard_client_stop *)
StopCheck ==
  /\ Go("stopCheck", "stopInit")
  /\ sawAlive' = LoopAlive
  /\ UNCHANGED <<failed, connVars, signalVars, loopVars>>

StopInit ==
  /\ Go("stopInit", "stopSend")
  /\ async' = "idle"
  /\ UNCHANGED <<failed, sawAlive, connVars, signalVars, at, toAdd, watched, armed,
                 busy, multi, closing, stoppedBy>>

StopSend ==
  /\ Go("stopSend", IF sawAlive THEN "join" ELSE "run")
  /\ async' = "sent"
  /\ at' = IF sawAlive THEN at ELSE [at EXCEPT !["main"] = "check"]
  /\ UNCHANGED <<failed, sawAlive, connVars, signalVars, toAdd, watched, armed, busy,
                 multi, closing, stoppedBy>>

(* A join that does not wait. *)
JoinAtOnce ==
  /\ Go("join", "serverDeinit")
  /\ UNCHANGED <<failed, sawAlive, connVars, signalVars, loopVars>>

Join ==
  /\ Go("join", "serverDeinit")
  /\ at["client"] = "left"
  /\ UNCHANGED <<failed, sawAlive, connVars, signalVars, loopVars>>

(* PQfinish through o's pointer, which may never have been written. *)
Deinit(o, here, there) ==
  /\ pc = here
  /\ IF conn[o] = "unset"
     THEN pc' \in {there, "killed"} /\ UNCHANGED finished
     ELSE pc' = there /\ finished' = [finished EXCEPT ![conn[o]] = @ + 1]
  /\ UNCHANGED <<failed, sawAlive, conn, opened, signalVars, loopVars>>

ServerDeinit == Deinit("server", "serverDeinit", "clientDeinit")

(* The label deinit_client passed over. *)
ClientDeinitSkipped ==
  /\ Go("clientDeinit", "dbDeinit")
  /\ UNCHANGED <<failed, sawAlive, connVars, signalVars, loopVars>>

ClientDeinit == Deinit("client", "clientDeinit", "dbDeinit")

DbDeinit == Deinit("main", "dbDeinit", "returned")

Main ==
  \/ EnvInit \/ Connect \/ DbMigrate \/ ClientInit \/ ServerInit \/ ClientStart
  \/ ServerStart \/ (\E sig \in Signal : Handle(sig)) \/ Pause
  \/ ServerStop \/ StopCheck \/ StopInit \/ StopSend \/ Join
  \/ ServerDeinit \/ ClientDeinit \/ DbDeinit

Client == Prepare \/ (\E t \in Timer : AddTarget(t)) \/ StartRun

Loop(t) ==
  \/ RunTimer(t) \/ EndCallback(t) \/ TransfersEnd(t) \/ RunStop(t)
  \/ EndClosing(t) \/ Leave(t)

Next ==
  \/ Main
  \/ Client
  \/ \E t \in Thread : Loop(t)
  \/ \E sig \in Signal : Interrupt(sig)

Spec == Init /\ [][Next]_vars

(* Every thread that can run does.  The eventfd behind uv_async_send stays *)
(* readable until the loop has seen it, and each iteration gets past its   *)
(* timers to epoll and to the closing handles.  A callback ends: the       *)
(* statements it runs are assumed to be answered.                          *)
Fairness ==
  /\ WF_vars(Main) /\ WF_vars(Client)
  /\ \A t \in Thread :
       /\ WF_vars(EndCallback(t)) /\ WF_vars(Leave(t))
       /\ SF_vars(RunStop(t)) /\ SF_vars(EndClosing(t))

FairSpec == Spec /\ Fairness

-----------------------------------------------------------------------------
(* Properties.                                                             *)

(* Every way out of main finishes each connection that was made, and none  *)
(* of them twice, provided that no init function failed half-way: those    *)
(* leave a copy of main's pointer, or nothing, where a connection of their *)
(* own should be, and their deinit runs all the same.                      *)
FinishedOnce ==
  failed \cap {"clientInit", "serverInit"} = {} =>
    /\ \A o \in Owner : finished[o] <= 1
    /\ pc = "returned" => \A o \in opened : finished[o] = 1

(* No connection is closed under the client's thread: by the time the      *)
(* first deinit runs, the thread has left the loop for good, whichever     *)
(* thread ran `stop` and whatever was under way.  The exception is a main  *)
(* that tears everything down because the server did not start.            *)
NoFinishUnderClient ==
  /\ \E o \in Owner : finished[o] > 0
  /\ "serverStart" \notin failed
  => at["client"] \in {"out", "left"}

(* A callback that is about to use the multi handle finds it alive, unless *)
(* main has entered the loop: in the client's own thread `stop` leaves no  *)
(* timer behind that could still ring.                                     *)
MultiAlive ==
  at["main"] = "out" => \A t \in Thread : at[t] = "callback" => multi = "up"

(* Where the client's thread is, as main gets on. *)
ThreadInv ==
  /\ pc \in {"env", "connect", "migrate", "clientInit", "serverInit", "clientStart"}
       => at["client"] = "out"
  /\ pc \in {"serverDeinit", "clientDeinit", "dbDeinit", "returned"}
     /\ "serverStart" \notin failed
       => at["client"] \in {"out", "left"}

(* What is open and what is finished, as main gets on. *)
Clean == failed \cap {"clientInit", "serverInit"} = {}

Done == CASE pc = "clientDeinit" -> {"server"}
          [] pc = "dbDeinit"     -> {"server", "client"}
          [] pc = "returned"     -> Owner
          [] OTHER               -> {}

ConnInv ==
  /\ pc \notin {"clientDeinit", "dbDeinit", "returned", "killed"}
       => \A o \in Owner : finished[o] = 0
  /\ Clean =>
       /\ conn = [o \in Owner |-> IF o \in opened THEN o ELSE "unset"]
       /\ opened \in
            CASE pc \in {"env", "connect"}        -> {{}}
              [] pc \in {"migrate", "clientInit"} -> {{"main"}}
              [] pc = "serverInit"                -> {{"main", "client"}}
              [] pc = "dbDeinit"                  -> {{"main"}, Owner}
              [] pc \in {"returned", "killed"}    -> SUBSET Owner
              [] OTHER                            -> {Owner}
       /\ IF pc = "killed"
          THEN \A o \in Owner : finished[o] \in {0, 1}
          ELSE finished = [o \in Owner |-> IF o \in opened \cap Done THEN 1 ELSE 0]

(* What `stop` leaves behind, if the client's thread runs it. *)
LoopInv ==
  /\ armed \subseteq watched
  /\ at["main"] = "out" =>
       /\ at["client"] \in {"prepared", "check", "callback"} => multi # "none"
       /\ multi = "gone" => armed = {} /\ at["client"] \in {"check", "left"}

LifecycleInv == TypeOK /\ ThreadInv /\ NoFinishUnderClient /\ ConnInv /\ LoopInv

(* A stop that finds the client's thread in the loop and a repeating timer *)
(* in the table is carried out by that thread, and the process returns.    *)
LoopBusy ==
  /\ at["client"] \in {"check", "callback"}
  /\ armed \cap Recurring # {}

LoopWithWorkStops ==
  (pc = "stopCheck" /\ LoopBusy) ~> (pc = "returned" /\ stoppedBy = "client")

(* "Shutting down!" (main.c:36) is the truth: once the handler has printed *)
(* it, the process comes to an end.                                        *)
SignalShutsDown == announced ~> ~Alive

(* A signal that finds main in pause() leads to the end of the process.    *)
WokenMainReturns == pc = "serverStop" ~> ~Alive

=============================================================================
