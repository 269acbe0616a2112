------------------------------ MODULE Sockets ------------------------------
(***************************************************************************)
(* The glue between libcurl and libuv: src/client/state.c.                 *)
(*                                                                         *)
(* libcurl tells the program which sockets to watch and when to call it    *)
(* back; socket_function keeps a baton, a uv_poll_t on the heap, for each  *)
(* watched socket and timer_function one uv_timer_t for all transfers.     *)
(* on_poll and on_timeout report back to libcurl, which may answer with    *)
(* further calls of the two functions before it returns.  A baton can be   *)
(* freed only when libuv has called its close callback, at the end of the  *)
(* iteration; the descriptor may be in use again long before.              *)
(*                                                                         *)
(* The actions of libcurl and libuv are what state.c relies on: libcurl    *)
(* has a socket removed before it closes it, and all of them before        *)
(* curl_multi_cleanup returns; libuv drops what epoll has reported of a    *)
(* descriptor whose poll is started anew or stopped, stops a poll that     *)
(* failed, and stops a timer that does not repeat before it calls back.    *)
(***************************************************************************)
EXTENDS Integers

CONSTANTS Fd,       \* descriptors
          Baton,    \* bound: blocks of memory for struct socket
          Null,     \* stands for the null pointer
          Freed,    \* stands for a block that is not allocated
          Faults    \* whether an allocation may fail

Event == {"in", "out"}

(* CURL_POLL_IN, _OUT and _INOUT ask for a set of events; _REMOVE for none. *)
REMOVE == {}

Socket == [s : Fd, poll : SUBSET Event, closing : BOOLEAN]

ASSUME SocketsAssumption ==
  /\ Null \notin Baton \cup Fd
  /\ Freed \notin Socket
  /\ Faults \in BOOLEAN

VARIABLES want,      \* want[fd]: the events libcurl waits for on fd
          socketp,   \* socketp[fd]: what curl_multi_assign has left with it
          deadline,  \* libcurl waits for a timeout
          multi,     \* state->multi; "dead" after a callback that returned -1
          baton,     \* the heap
          timer,     \* state->timer
          phase,     \* what the loop is doing in this iteration
          ready,     \* ready[fd]: reported by epoll and not yet passed on
          inside,    \* the call of libcurl that is under way
          failed,    \* the descriptor whose poll has failed in this call
          activity   \* activity[fd]: what the kernel would report

curlVars == <<want, deadline, multi>>
heapVars == <<socketp, baton>>
loopVars == <<phase, ready>>
vars == <<curlVars, heapVars, timer, loopVars, inside, failed, activity>>

TypeOK ==
  /\ want \in [Fd -> SUBSET Event]
  /\ socketp \in [Fd -> Baton \cup {Null}]
  /\ deadline \in BOOLEAN
  /\ multi \in {"up", "dead", "gone"}
  /\ baton \in [Baton -> Socket \cup {Freed}]
  /\ timer \in {"idle", "armed", "closing", "closed"}
  /\ phase \in {"timers", "poll", "closing", "over"}
  /\ ready \in [Fd -> SUBSET (Event \cup {"err"})]
  /\ inside \in {"nothing", "action", "clear"}
  /\ failed \in Fd \cup {Null}
  /\ activity \in [Fd -> SUBSET (Event \cup {"err"})]

(* reachard_client_state_prepare *)
Init ==
  /\ want = [fd \in Fd |-> {}]
  /\ socketp = [fd \in Fd |-> Null]
  /\ deadline = FALSE
  /\ multi = "up"
  /\ baton = [b \in Baton |-> Freed]
  /\ timer = "idle"
  /\ phase = "timers"
  /\ ready = [fd \in Fd |-> {}]
  /\ inside = "nothing"
  /\ failed = Null
  /\ activity = [fd \in Fd |-> {}]

Allocated(b) == baton[b] # Freed
Malloc == CHOOSE b \in Baton : ~Allocated(b)   \* which block makes no difference
Open(b) == Allocated(b) /\ ~baton[b].closing
Watched(fd) == want[fd] # {}

-----------------------------------------------------------------------------
(* What libcurl calls.                                                     *)

(* The baton that socket_function uses: libcurl's pointer, or a new block. *)
CanAllocate == \E b \in Baton : ~Allocated(b)
BatonOf(fd) == IF socketp[fd] # Null THEN socketp[fd] ELSE Malloc

(* libuv has one poll for a descriptor: while another handle polls it,     *)
(* uv_poll_init_socket and uv_poll_start return UV_EEXIST, which nobody    *)
(* looks at, and the handle polls nothing.                                 *)
Taken(fd, b) ==
  \E c \in Baton \ {b} : Open(c) /\ baton[c].s = fd /\ baton[c].poll # {}

Started(fd, what) == IF Taken(fd, BatonOf(fd)) THEN {} ELSE what

(* The baton after CURL_POLL_REMOVE, or after a change of the events. *)
After(fd, what) == [s |-> fd, poll |-> Started(fd, what), closing |-> what = REMOVE]

(* A new baton that libcurl is not told of. *)
SocketFunctionUnassigned(fd, what) ==
  /\ socketp[fd] # Null \/ CanAllocate
  /\ baton' = [baton EXCEPT ![BatonOf(fd)] = After(fd, what)]
  /\ ready' = [ready EXCEPT ![fd] = {}]
  /\ UNCHANGED socketp

(* A REMOVE that stops the poll and leaves the handle as it is. *)
SocketFunctionOnlyStops(fd, what) ==
  /\ socketp[fd] # Null \/ CanAllocate
  /\ baton' = [baton EXCEPT ![BatonOf(fd)] = [s |-> fd, poll |-> Started(fd, what),
                                          closing |-> FALSE]]
  /\ socketp' = [socketp EXCEPT ![fd] = IF what = REMOVE THEN Null ELSE BatonOf(fd)]
  /\ ready' = [ready EXCEPT ![fd] = {}]

(* A switch that forgets UV_WRITABLE in CURL_POLL_INOUT. *)
SocketFunctionReadsOnly(fd, what) ==
  /\ socketp[fd] # Null \/ CanAllocate
  /\ baton' = [baton EXCEPT ![BatonOf(fd)] =
                 After(fd, IF what = Event THEN {"in"} ELSE what)]
  /\ socketp' = [socketp EXCEPT ![fd] = IF what = REMOVE THEN Null ELSE BatonOf(fd)]
  /\ ready' = [ready EXCEPT ![fd] = {}]

(* socket_function when it returns 0.  A socket that libcurl has no        *)
(* pointer for gets a new baton, even if it is only to be removed.         *)
SocketFunction(fd, what) ==
  /\ socketp[fd] # Null \/ CanAllocate
  /\ baton' = [baton EXCEPT ![BatonOf(fd)] = After(fd, what)]
  /\ socketp' = [socketp EXCEPT ![fd] = IF what = REMOVE THEN Null ELSE BatonOf(fd)]
  /\ ready' = [ready EXCEPT ![fd] = {}]

(* libcurl calls it when the events it waits for have changed. *)
Watch(fd, what) ==
  /\ inside = "action" /\ multi = "up"
  /\ what # REMOVE
  /\ want[fd] # what
  /\ SocketFunction(fd, what)
  /\ want' = [want EXCEPT ![fd] = what]
  /\ failed' = IF failed = fd THEN Null ELSE failed
  /\ UNCHANGED <<deadline, multi, timer, phase, inside, activity>>

(* No memory for a baton: after the -1, libcurl calls for no new socket or *)
(* timeout any more.                                                       *)
WatchFails(fd) ==
  /\ Faults
  /\ inside = "action" /\ multi = "up"
  /\ socketp[fd] = Null
  /\ multi' = "dead"
  /\ deadline' = FALSE
  /\ UNCHANGED <<want, heapVars, timer, loopVars, inside, failed, activity>>

(* libcurl is about to close the socket.  In the cleanup it may do so for  *)
(* one that it never had watched.                                          *)
Remove(fd) ==
  /\ inside # "nothing"
  /\ Watched(fd) \/ inside = "clear"
  /\ SocketFunction(fd, REMOVE)
  /\ want' = [want EXCEPT ![fd] = {}]
  /\ failed' = IF failed = fd THEN Null ELSE failed
  /\ activity' = [activity EXCEPT ![fd] = {}]
  /\ UNCHANGED <<deadline, multi, timer, phase, inside>>

(* timer_function; 0 is as soon as possible, -1 is never. *)
TimerFunction(timeout_ms) ==
  timer' = IF timeout_ms >= 0 THEN "armed" ELSE "idle"

SetTimeout ==
  /\ inside # "nothing" /\ multi = "up"
  /\ \E timeout_ms \in {-1, 0, 1} :
       /\ TimerFunction(timeout_ms)
       /\ deadline' = (timeout_ms >= 0)
  /\ UNCHANGED <<want, multi, heapVars, loopVars, inside, failed, activity>>

(* curl_multi_socket_action and check_completed return.  libcurl gives up  *)
(* a socket on which an error was reported.                                *)
Return ==
  /\ inside = "action"
  /\ failed = Null
  /\ inside' = "nothing"
  /\ UNCHANGED <<curlVars, heapVars, timer, loopVars, failed, activity>>

(* curl_multi_add_handle, from target_check: libcurl wants to be called at *)
(* once.  A dead multi handle takes it only when no transfer is left.      *)
AddHandle ==
  /\ phase = "timers" /\ inside = "nothing" /\ multi # "gone"
  /\ \/ /\ multi' = "up" /\ deadline' = TRUE
        /\ TimerFunction(0)
     \/ multi = "dead" /\ UNCHANGED <<multi, deadline, timer>>
  /\ UNCHANGED <<want, heapVars, loopVars, inside, failed, activity>>

-----------------------------------------------------------------------------
(* An iteration of the loop: timers, poll, closing.                        *)

Resting == inside = "nothing"

(* on_timeout *)
OnTimeout ==
  /\ phase = "timers" /\ Resting
  /\ timer = "armed"
  /\ timer' = "idle"
  /\ deadline' = FALSE
  /\ inside' = "action"
  /\ UNCHANGED <<want, multi, heapVars, loopVars, failed, activity>>

(* epoll_wait: for every poll that is active, the events that it asks for, *)
(* and errors.                                                             *)
Polled(fd) == UNION {baton[b].poll : b \in {c \in Baton : Open(c) /\ baton[c].s = fd}}

Poll ==
  /\ phase = "timers" /\ Resting
  /\ phase' = "poll"
  /\ ready' = [fd \in Fd |->
       IF Polled(fd) = {} THEN {} ELSE activity[fd] \cap (Polled(fd) \cup {"err"})]
  /\ UNCHANGED <<curlVars, heapVars, timer, inside, failed, activity>>

(* on_poll.  libuv turns an error into a status and stops the poll; what   *)
(* is reported is dealt with by libcurl.                                   *)
OnPoll(fd) ==
  /\ phase = "poll" /\ Resting
  /\ ready[fd] # {}
  /\ ready' = [ready EXCEPT ![fd] = {}]
  /\ activity' = [activity EXCEPT ![fd] = @ \ ready[fd]]
  /\ IF "err" \in ready[fd]
     THEN /\ failed' = fd
          /\ baton' = [b \in Baton |->
               IF Open(b) /\ baton[b].s = fd
               THEN [s |-> fd, poll |-> {}, closing |-> FALSE] ELSE baton[b]]
     ELSE UNCHANGED <<failed, baton>>
  /\ inside' = "action"
  /\ UNCHANGED <<curlVars, socketp, timer, phase>>

(* stop, among the events of the iteration: reachard_client_state_clear    *)
(* removes the transfers and cleans the multi handle up, ...               *)
StateClear ==
  /\ phase = "poll" /\ Resting
  /\ multi # "gone"
  /\ inside' = "clear"
  /\ UNCHANGED <<curlVars, heapVars, timer, loopVars, failed, activity>>

(* A clear that leaves the timer alone. *)
StateClearedTimerStays ==
  /\ inside = "clear"
  /\ \A fd \in Fd : ~Watched(fd)
  /\ multi' = "gone"
  /\ deadline' = FALSE
  /\ inside' = "nothing"
  /\ UNCHANGED <<want, heapVars, timer, loopVars, failed, activity>>

(* ... and then closes the timer. *)
StateCleared ==
  /\ inside = "clear"
  /\ \A fd \in Fd : ~Watched(fd)
  /\ multi' = "gone"
  /\ deadline' = FALSE
  /\ timer' = "closing"
  /\ inside' = "nothing"
  /\ UNCHANGED <<want, heapVars, loopVars, failed, activity>>

EndPoll ==
  /\ phase = "poll" /\ Resting
  /\ \A fd \in Fd : ready[fd] = {}
  /\ phase' = "closing"
  /\ UNCHANGED <<curlVars, heapVars, timer, ready, inside, failed, activity>>

(* socket_deinit *)
SocketDeinit(b) ==
  /\ phase = "closing"
  /\ Allocated(b) /\ baton[b].closing
  /\ baton' = [baton EXCEPT ![b] = Freed]
  /\ UNCHANGED <<curlVars, socketp, timer, loopVars, inside, failed, activity>>

TimerClosed ==
  /\ phase = "closing"
  /\ timer = "closing"
  /\ timer' = "closed"
  /\ UNCHANGED <<curlVars, heapVars, loopVars, inside, failed, activity>>

(* The next iteration, or the end: the timers of the targets keep the loop *)
(* alive for as long as the multi handle exists.                           *)
LoopAlive ==
  \/ multi # "gone"
  \/ timer = "armed"
  \/ \E b \in Baton : Open(b) /\ baton[b].poll # {}

EndIteration ==
  /\ phase = "closing"
  /\ timer # "closing"
  /\ \A b \in Baton : Allocated(b) => ~baton[b].closing
  /\ phase' = IF LoopAlive THEN "timers" ELSE "over"
  /\ UNCHANGED <<curlVars, heapVars, timer, ready, inside, failed, activity>>

(* Something happens on a socket that libcurl waits for. *)
Happen(fd) ==
  /\ Watched(fd)
  /\ \E e \in want[fd] \cup {"err"} : activity' = [activity EXCEPT ![fd] = @ \cup {e}]
  /\ UNCHANGED <<curlVars, heapVars, timer, loopVars, inside, failed>>

Libcurl ==
  \/ SetTimeout \/ Return
  \/ \E fd \in Fd : Remove(fd) \/ WatchFails(fd) \/ \E what \in SUBSET Event : Watch(fd, what)

Loop ==
  \/ AddHandle \/ OnTimeout \/ Poll \/ StateClear \/ StateCleared
  \/ EndPoll \/ TimerClosed \/ EndIteration
  \/ (\E fd \in Fd : OnPoll(fd)) \/ (\E b \in Baton : SocketDeinit(b))

Next == Libcurl \/ Loop \/ \E fd \in Fd : Happen(fd)

Spec == Init /\ [][Next]_vars

(* The loop goes round: libuv runs the timers that are due and goes on to  *)
(* epoll, whatever timers they start.  libcurl returns from every call; in *)
(* particular it gives a socket up that failed.                            *)
Fairness ==
  /\ SF_vars(Poll) /\ WF_vars(EndPoll) /\ WF_vars(TimerClosed) /\ WF_vars(EndIteration)
  /\ WF_vars(Return) /\ WF_vars(StateCleared)
  /\ \A fd \in Fd :
       /\ SF_vars(OnPoll(fd))
       /\ WF_vars(inside = "clear" /\ Watched(fd) /\ Remove(fd))
       /\ WF_vars(failed = fd /\ Remove(fd))
  /\ \A b \in Baton : WF_vars(SocketDeinit(b))

FairSpec == Spec /\ Fairness

-----------------------------------------------------------------------------
(* Properties.                                                             *)

(* libuv watches what libcurl asked for, no more and no less, through the  *)
(* reuse of descriptors and while old batons wait to be freed: the pointer *)
(* that libcurl keeps for a socket is to the one open baton of that        *)
(* socket, which polls the events wanted, and a timeout that libcurl waits *)
(* for is in the timer.                                                    *)
PointerTrue(fd) ==
  IF Watched(fd)
  THEN /\ socketp[fd] # Null
       /\ baton[socketp[fd]] = [s |-> fd, closing |-> FALSE,
                                poll |-> IF failed = fd THEN {} ELSE want[fd]]
  ELSE socketp[fd] = Null

Faithful ==
  /\ \A fd \in Fd : PointerTrue(fd)
  /\ \A b \in Baton : Open(b) => socketp[baton[b].s] = b
  /\ deadline => timer = "armed"

(* No callback of the loop reaches for the multi handle once it has been   *)
(* cleaned up.                                                             *)
CallbackFindsMulti == inside # "nothing" => multi # "gone"

(* What libcurl has removed is not reported any more, a failure is dealt   *)
(* with in the call that hears of it, and nothing is left to call back     *)
(* once the multi handle is gone.                                          *)
SocketsInv ==
  /\ TypeOK
  /\ Faithful
  /\ \A fd \in Fd : ready[fd] # {} => Watched(fd)
  /\ failed # Null => inside = "action"
  /\ multi = "gone" => /\ inside = "nothing"
                       /\ timer \in {"closing", "closed"}
                       /\ \A fd \in Fd : ~Watched(fd)

(* Once the multi handle is gone, the loop comes to its end, with every    *)
(* baton freed and the timer closed.                                       *)
NothingLeft ==
  multi = "gone" ~> /\ phase = "over"
                    /\ timer = "closed"
                    /\ \A b \in Baton : ~Allocated(b)

(* What happens on a socket that libcurl waits for is reported to libcurl, *)
(* or no longer waited for; unless an allocation has failed.               *)
Waiting(fd, e) == multi = "up" /\ e \in want[fd] \cap activity[fd]

Served == \A fd \in Fd, e \in Event : Waiting(fd, e) ~> ~Waiting(fd, e)

=============================================================================
