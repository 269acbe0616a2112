------------------------------ MODULE Watcher ------------------------------
(***************************************************************************)
(* The client thread of reachard: src/client/{watcher,targets,state}.c and *)
(* the part of client.c that runs in it.                                   *)
(*                                                                         *)
(* When the process starts, the watcher reads every row of `targets` into  *)
(* a hash table of in-memory targets, each with a libuv timer.  A timer    *)
(* that fires re-reads its row and starts a transfer (a HEAD request) that *)
(* points at the in-memory target.  A transfer that ends compares its      *)
(* outcome with the target's cached `up`, and writes the row only when the *)
(* two differ.  Meanwhile the server's thread inserts, patches and deletes *)
(* rows over a connection of its own; it never talks to the watcher.       *)
(*                                                                         *)
(* One action is one callback of the loop, except that check_completed is  *)
(* one action per message it drains: it issues one UPDATE per message, and *)
(* the server's statements can run between two of them.                    *)
(***************************************************************************)
EXTENDS TargetTable

CONSTANTS Outcome,     \* [err |-> curl's result # 0, status |-> HTTP status]
          MaxOverlap,  \* bound: transfers of one target alive at a time
          MaxEdits,    \* bound: PATCH requests
          MaxFlips,    \* bound: changes of what the URLs answer
          MaxRuns,     \* bound: starts of the process
          IntModulus,  \* 2^w for a C int of w bits
          NoTarget,    \* stands for an id that is not in the hash table
          NoTransfer,  \* stands for a transfer that is not allocated
          NoAnswer     \* stands for the outcome of a transfer under way

Lane == 1..MaxOverlap
Slot == Id \X Lane     \* <<id, k>>: k-th transfer struct of the target id

(* `timer` is what the timer of the target is: due now or soon ("armed"),  *)
(* active but due in an aeon ("never"), stopped ("idle") or handed to      *)
(* uv_close ("closing").  `again` is what it becomes when it rings.        *)
Again == {"armed", "never", "idle"}

Target == [up : BOOLEAN, again : Again, timer : Again \cup {"closing"}]

Transfer == [url : Url, answer : Outcome \cup {NoAnswer}, done : BOOLEAN]

ASSUME WatcherAssumption ==
  /\ MaxOverlap \in Nat /\ MaxEdits \in Nat /\ MaxFlips \in Nat /\ MaxRuns \in Nat
  /\ IntModulus \in Nat \ {0}
  /\ Outcome \subseteq [err : BOOLEAN, status : Nat]
  /\ NoTarget \notin Target
  /\ NoTransfer \notin Transfer
  /\ NoAnswer \notin Outcome

VARIABLES phase,       \* where the process is in its life
          target,      \* watcher->targets: a partial map from id to target
          transfer,    \* the easy handles attached to state->multi
          reach,       \* what each URL answers at the moment
          edits, flips, runs

clientVars == <<phase, target, transfer>>
boundVars == <<edits, flips, runs>>
vars == <<rows, nextId, clientVars, reach, boundVars>>

TypeOK ==
  /\ TableTypeOK
  /\ phase \in {"off", "starting", "running", "ended", "closing"}
  /\ target \in [Id -> Target \cup {NoTarget}]
  /\ transfer \in [Slot -> Transfer \cup {NoTransfer}]
  /\ reach \in [Url -> Outcome]
  /\ edits \in 0..MaxEdits
  /\ flips \in 0..MaxFlips
  /\ runs \in 0..MaxRuns

Init ==
  /\ TableInit
  /\ phase = "off"
  /\ target = [id \in Id |-> NoTarget]
  /\ transfer = [s \in Slot |-> NoTransfer]
  /\ reach \in [Url -> Outcome]
  /\ edits = 0
  /\ flips = 0
  /\ runs = 0

Watched(id) == target[id] # NoTarget
Live(s) == transfer[s] # NoTransfer
Answered(s) == Live(s) /\ transfer[s].answer # NoAnswer

(* check_completed drains the messages of the multi handle in a loop: no   *)
(* other callback runs until none is left.                                 *)
Draining == \E s \in Slot : Live(s) /\ transfer[s].done

(* uv_run goes on while a timer is active or curl has work under way. *)
LoopAlive ==
  \/ \E id \in Id : Watched(id) /\ target[id].timer # "idle"
  \/ \E s \in Slot : Live(s)

-----------------------------------------------------------------------------
(* The server's thread: it serves from before the watcher has read the     *)
(* table until just before the loop is asked to stop.                      *)

Serving == phase \in {"starting", "running", "ended"}

Post ==
  /\ Serving
  /\ \/ \E u \in Url, i \in Interval : Add(u, i)
     \/ AddFails
  /\ UNCHANGED <<clientVars, reach, boundVars>>

PatchRow(id) ==
  /\ Serving
  /\ edits < MaxEdits
  /\ \E u \in Url, i \in Interval : Patch(id, u, i)
  /\ edits' = edits + 1
  /\ UNCHANGED <<clientVars, reach, flips, runs>>

DeleteRow(id) ==
  /\ Serving
  /\ Exists(id)
  /\ Delete(id)
  /\ UNCHANGED <<clientVars, reach, boundVars>>

-----------------------------------------------------------------------------
(* The network: a URL may start to answer differently, and a request is    *)
(* answered (or fails) according to what its URL does at that instant.     *)

Flip(u) ==
  /\ flips < MaxFlips
  /\ flips' = flips + 1
  /\ \E o \in Outcome : reach' = [reach EXCEPT ![u] = o]
  /\ UNCHANGED <<rows, nextId, clientVars, edits, runs>>

Answer(s) ==
  /\ Live(s)
  /\ transfer[s].answer = NoAnswer
  /\ transfer' = [transfer EXCEPT ![s].answer = reach[transfer[s].url]]
  /\ UNCHANGED <<rows, nextId, phase, target, reach, boundVars>>

-----------------------------------------------------------------------------
(* The client thread.                                                      *)

(* reachard_client_init and reachard_client_start, from main. *)
Boot ==
  /\ phase = "off"
  /\ runs < MaxRuns
  /\ phase' = "starting"
  /\ runs' = runs + 1
  /\ UNCHANGED <<rows, nextId, target, transfer, reach, edits, flips>>

(* db_target->interval * 1000, in a C int that wraps. *)
Millis(i) ==
  ((i * 1000 + IntModulus \div 2) % IntModulus) - IntModulus \div 2

(* libuv takes a repeat of 0 for "once"; a negative one becomes an enormous *)
(* uint64_t, and the timer stays active without ever being due.            *)
AfterRing(ms) ==
  IF ms > 0 THEN "armed" ELSE IF ms = 0 THEN "idle" ELSE "never"

(* A target that does not take the status over from its row. *)
NewTargetUp(row) ==
  [up |-> TRUE, again |-> AfterRing(Millis(row.interval)), timer |-> "armed"]

(* reachard_client_target_init: the timer's first ring is due at once. *)
NewTarget(row) ==
  [up |-> row.up, again |-> AfterRing(Millis(row.interval)), timer |-> "armed"]

(* reachard_client_watcher_start.  The rows come ORDER BY id; a failed     *)
(* allocation stops the loop over them (a failed SELECT stops it before    *)
(* the first one), and start() goes on to run the loop regardless.         *)
WatcherStart ==
  /\ phase = "starting"
  /\ \E last \in IF Faults THEN 0..MaxId ELSE {MaxId} :
       target' = [id \in Id |-> IF Exists(id) /\ id <= last
                                THEN NewTarget(rows[id]) ELSE NoTarget]
  /\ phase' = "running"
  /\ UNCHANGED <<rows, nextId, transfer, reach, boundVars>>

(* target_check, called by libuv for a timer that is due.  It gives up if  *)
(* the row is gone or the SELECT fails, and if the struct for the transfer *)
(* cannot be allocated: with MaxOverlap transfers alive it never can.      *)
Ring(id) ==
  /\ phase = "running"
  /\ ~Draining
  /\ Watched(id)
  /\ target[id].timer = "armed"
  /\ target' = [target EXCEPT ![id].timer = target[id].again]

StartTransfer(id, k) ==
  /\ Exists(id)
  /\ ~Live(<<id, k>>)
  /\ transfer' = [transfer EXCEPT ![<<id, k>>] =
                    [url |-> rows[id].url, answer |-> NoAnswer, done |-> FALSE]]

GiveUp(id) ==
  /\ \/ ~Exists(id)
     \/ \A k \in Lane : Live(<<id, k>>)
     \/ Faults
  /\ UNCHANGED transfer

TargetCheck(id) ==
  /\ Ring(id)
  /\ \/ \E k \in Lane : StartTransfer(id, k)
     \/ GiveUp(id)
  /\ UNCHANGED <<rows, nextId, phase, reach, boundVars>>

(* on_poll and on_timeout: curl_multi_socket_action lets curl finish any   *)
(* number of transfers whose answer is in, in whatever order.              *)
SocketAction(finished) ==
  /\ phase = "running"
  /\ ~Draining
  /\ \A s \in finished : Answered(s)
  /\ transfer' = [s \in Slot |-> IF s \in finished
                                 THEN [transfer[s] EXCEPT !.done = TRUE]
                                 ELSE transfer[s]]
  /\ UNCHANGED <<rows, nextId, phase, target, reach, boundVars>>

(* Any answer counts. *)
IsUpAnyStatus(o) == ~o.err

(* transfer_complete's verdict on a finished transfer. *)
IsUp(o) == ~o.err /\ o.status \in 200..299

(* An UPDATE of `up`; a failure is logged and otherwise ignored. *)
StoreUp(id, up) == SetUp(id, up) \/ (Faults /\ UNCHANGED rows)

(* The row is written, the cached status is forgotten. *)
CompleteKeepsCache(s) ==
  LET id == s[1]  up == IsUp(transfer[s].answer) IN
  /\ phase = "running"
  /\ Live(s) /\ transfer[s].done
  /\ IF up # target[id].up THEN StoreUp(id, up) ELSE UNCHANGED rows
  /\ transfer' = [transfer EXCEPT ![s] = NoTransfer]
  /\ UNCHANGED <<nextId, phase, target, reach, boundVars>>

(* The status written is the one the target had before the transfer ended. *)
CompleteWritesOld(s) ==
  LET id == s[1]  up == IsUp(transfer[s].answer) IN
  /\ phase = "running"
  /\ Live(s) /\ transfer[s].done
  /\ target' = [target EXCEPT ![id].up = up]
  /\ IF up # target[id].up THEN StoreUp(id, target[id].up) ELSE UNCHANGED rows
  /\ transfer' = [transfer EXCEPT ![s] = NoTransfer]
  /\ UNCHANGED <<nextId, phase, reach, boundVars>>

(* One turn of check_completed's loop, with the transfer_complete of       *)
(* client/targets.c it calls: the cached status follows the outcome, the   *)
(* row is written only if it changed, and the transfer is freed.           *)
CheckCompleted(s) ==
  LET id == s[1]  up == IsUp(transfer[s].answer) IN
  /\ phase = "running"
  /\ Live(s) /\ transfer[s].done
  /\ target' = [target EXCEPT ![id].up = up]
  /\ IF up # target[id].up THEN StoreUp(id, up) ELSE UNCHANGED rows
  /\ transfer' = [transfer EXCEPT ![s] = NoTransfer]
  /\ UNCHANGED <<nextId, phase, reach, boundVars>>

(* uv_run returns because nothing is left to wait for: the thread is over  *)
(* while the server goes on.                                               *)
LoopEnds ==
  /\ phase = "running"
  /\ ~LoopAlive
  /\ phase' = "ended"
  /\ UNCHANGED <<rows, nextId, target, transfer, reach, boundVars>>

Closing == [id \in Id |-> IF Watched(id)
                          THEN [target[id] EXCEPT !.timer = "closing"]
                          ELSE NoTarget]

(* A stop that leaves the easy handles attached to the multi handle. *)
StopKeepsTransfers ==
  /\ phase \in {"running", "ended"}
  /\ ~Draining
  /\ phase' = "closing"
  /\ target' = Closing
  /\ UNCHANGED <<rows, nextId, transfer, reach, boundVars>>

(* stop, hence reachard_client_watcher_stop and reachard_client_state_clear: *)
(* every timer is stopped and handed to uv_close, every easy handle is     *)
(* removed and freed.                                                      *)
Stop ==
  /\ phase \in {"running", "ended"}
  /\ ~Draining
  /\ phase' = "closing"
  /\ target' = Closing
  /\ transfer' = [s \in Slot |-> NoTransfer]
  /\ UNCHANGED <<rows, nextId, reach, boundVars>>

(* target_deinit, which libuv calls at the end of the iteration. *)
CloseCallback(id) ==
  /\ phase = "closing"
  /\ Watched(id)
  /\ target[id].timer = "closing"
  /\ target' = [target EXCEPT ![id] = NoTarget]
  /\ UNCHANGED <<rows, nextId, phase, transfer, reach, boundVars>>

(* The loop has nothing left and the process ends. *)
Exit ==
  /\ phase = "closing"
  /\ \A id \in Id : ~Watched(id)
  /\ phase' = "off"
  /\ UNCHANGED <<rows, nextId, target, transfer, reach, boundVars>>

(* The process dies; only the table survives. *)
Crash ==
  /\ phase # "off"
  /\ phase' = "off"
  /\ target' = [id \in Id |-> NoTarget]
  /\ transfer' = [s \in Slot |-> NoTransfer]
  /\ UNCHANGED <<rows, nextId, reach, boundVars>>

Server == Post \/ \E id \in Id : PatchRow(id) \/ DeleteRow(id)

Network == (\E u \in Url : Flip(u)) \/ \E s \in Slot : Answer(s)

Client ==
  \/ Boot \/ WatcherStart \/ LoopEnds \/ Stop \/ Exit \/ Crash
  \/ \E id \in Id : TargetCheck(id) \/ CloseCallback(id)
  \/ \E finished \in SUBSET Slot : SocketAction(finished)
  \/ \E s \in Slot : CheckCompleted(s)

Next == Server \/ Network \/ Client

Spec == Init /\ [][Next]_vars

(* The loop of a process that is running does not stand still.  Timers that *)
(* are due are all run in each iteration, and epoll reports every socket   *)
(* that is ready, so neither can be passed over forever: strong fairness.  *)
(* That a request is answered or fails eventually is an assumption on the  *)
(* network: no CURLOPT_TIMEOUT is set.                                     *)
Fairness ==
  /\ WF_vars(WatcherStart) /\ WF_vars(LoopEnds) /\ WF_vars(Exit)
  /\ \A id \in Id : SF_vars(TargetCheck(id)) /\ WF_vars(CloseCallback(id))
  /\ \A s \in Slot :
       /\ WF_vars(Answer(s))
       /\ SF_vars(\E finished \in SUBSET Slot :
                    s \in finished /\ SocketAction(finished))
       /\ WF_vars(CheckCompleted(s))

FairSpec == Spec /\ Fairness

-----------------------------------------------------------------------------
(* Properties.                                                             *)

(* The cached status of a watched target and the status in its row agree:  *)
(* nobody else writes the column, the write of a change is issued in the   *)
(* callback that makes it, and the column's DEFAULT plays no role for a    *)
(* target that is watched.  Holds as long as no statement fails.           *)
Coherent ==
  ~Faults => \A id \in Id :
    Watched(id) /\ Exists(id) => rows[id].up = target[id].up

(* Whenever a transfer is attached to the multi handle, the in-memory      *)
(* target that its completion will dereference is allocated and not on its *)
(* way to be freed.                                                        *)
TransferTargetAlive ==
  \A s \in Slot : Live(s) =>
    phase = "running" /\ Watched(s[1]) /\ target[s[1]].timer # "closing"

(* An UPDATE that failed leaves a row that is wrong about its target; the  *)
(* next change of that target's status puts the row right, whether or not  *)
(* the UPDATE for that change succeeds.                                    *)
StaleRow(id) == Watched(id) /\ Exists(id) /\ rows[id].up # target[id].up

HealsOnNextChange == [][
  \A id \in Id :
    StaleRow(id) /\ Watched(id)' /\ target'[id].up # target[id].up
      => ~StaleRow(id)']_vars

(* A row that was deleted never comes back: neither a late outcome of a    *)
(* check that was under way nor a restart re-creates it.                   *)
NoResurrection == [][
  \A id \in Id : id < nextId /\ ~Exists(id) => ~Exists(id)']_vars

(* Once the URLs answer steadily and nobody edits the targets, the status  *)
(* of every target that a timer keeps checking becomes, and stays, what    *)
(* its current URL answers: neither overtaken answers nor answers of an    *)
(* earlier URL stick.                                                      *)
Checked(id) ==
  /\ phase = "running"
  /\ Watched(id) /\ Exists(id)
  /\ target[id].again = "armed"

UpToDate(id) == Exists(id) /\ rows[id].up = IsUp(reach[rows[id].url])

Converges == \A id \in Id : <>[]Checked(id) => <>[]UpToDate(id)

(* What makes the two state properties inductive: an id the sequence has   *)
(* not handed out yet is unused in the table and in the hash table, and    *)
(* curl reports a transfer as done only once its answer is in.             *)
SerialFresh == \A id \in Id : id >= nextId => ~Exists(id) /\ ~Watched(id)

DoneIsAnswered == \A s \in Slot : Live(s) /\ transfer[s].done => Answered(s)

IInv == TypeOK /\ SerialFresh /\ DoneIsAnswered /\ TransferTargetAlive /\ Coherent

-----------------------------------------------------------------------------
(* The abstract status board: what is asked and heard are the URLs and the *)
(* answers of the transfers under way.                                     *)

SlotsOf(id) == {s \in Slot : s[1] = id}

Asked == [id \in Id |->
  {transfer[s].url : s \in {t \in SlotsOf(id) : Live(t) /\ ~Answered(t)}}]

Heard == [id \in Id |->
  {transfer[s].answer : s \in {t \in SlotsOf(id) : Answered(t)}}]

Board == INSTANCE StatusBoard WITH asked <- Asked, heard <- Heard

(* The monitor implements the status board. *)
ImplementsBoard == Board!BoardSpec

=============================================================================
