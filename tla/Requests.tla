------------------------------ MODULE Requests ------------------------------
(***************************************************************************)
(* The HTTP requests of reachard: src/server/handle.c, handle/targets.c    *)
(* and request.c, between the calls that the HTTP library makes and the    *)
(* statements on the table `targets`.                                      *)
(*                                                                         *)
(* The library runs one thread.  For each request it calls reachard_handle *)
(* once with the headers, then once for each chunk of the body, then once  *)
(* without data; the calls for different connections interleave.  A reply  *)
(* can be queued in the first call and in the last, and in no other.       *)
(*                                                                         *)
(* A body of n bytes is the sequence 1..n, and what it says, `asks`, is    *)
(* chosen beside it: the model keeps track of which byte is where.  `name` *)
(* is left out of it, as it is of the table.                               *)
(***************************************************************************)
EXTENDS TargetTable, Numbers, UpdateQuery

CONSTANTS Conn,          \* connections of the HTTP library
          Chunking,      \* how c's bodies are cut: sequences of chunk lengths
          Method,        \* methods that are used
          Number,        \* the digits of the numbers in c's URLs, or none
          Amount,        \* the numbers in bodies: n stands for n / 2
          MaxRequests,   \* bound: requests in all
          Absent,        \* stands for a field that a body does not have
          NotJson,       \* stands for a body that is refused as a whole
          NoInfo         \* stands for the null pointer

(* What a body says, ...                                                   *)
Asked == [url : Url \cup {Absent}, interval : Amount \cup {Absent}]

Meaning == Asked \cup {NotJson}

(* ... and the fields that a handler takes from it, by column.             *)
Column == {"url", "interval"}

Fields == [url : Url \cup {Absent}, interval : Interval \cup {Absent}]

(* cJSON's valueint: the fraction is cut off, and a number that is not an  *)
(* int becomes the int that is next to it.                                 *)
ValueInt(n) ==
  LET whole == IF n < 0 THEN -((-n) \div 2) ELSE n \div 2
  IN IF whole > IntMax THEN IntMax ELSE IF whole < IntMin THEN IntMin ELSE whole

Read(body) ==
  [url |-> body.url,
   interval |-> IF body.interval = Absent THEN Absent ELSE ValueInt(body.interval)]

(* What a body says matters where there is one and somebody reads it.      *)
Request(c) ==
  {r \in [method : Method, number : Number[c], chunks : Chunking[c], asks : Meaning] :
     r.chunks = <<>> \/ r.method \notin {"PATCH", "POST"} => r.asks = NotJson}

(* Ids that come from memory behind a buffer are cut to a few. *)
AnyId == Id \cup {-1, 0}

DefaultInterval == 5

ASSUME RequestsAssumption ==
  /\ \A c \in Conn : Chunking[c] \subseteq Seq(Nat \ {0})
  /\ \A c \in Conn : Number[c] \subseteq Seq(0..Base - 1)
  /\ Interval \subseteq Int32 /\ DefaultInterval \in Interval
  /\ Amount \subseteq Int /\ \A n \in Amount : ValueInt(n) \in Interval
  /\ NotJson \notin Asked
  /\ Absent \notin Url \cup Interval \cup Amount
  /\ MaxRequests \in Nat
  /\ MaxId <= IntMax   \* the column is an `integer`

VARIABLES req,       \* req[c]: the request that c is about, or NoInfo
          stage,     \* where the library is with it
          calls,     \* chunks that have been passed on
          info,      \* *req_cls: the struct reachard_connection_info
          reply,     \* status of the reply that was queued, or 0
          said,      \* the id that the reply names, or 0
          made,      \* the id of the row that was inserted, or 0
          ran,       \* statements that were sent on behalf of the request
          requests

tableVars == <<rows, nextId>>
outcomeVars == <<reply, said, made, ran>>
vars == <<tableVars, req, stage, calls, info, outcomeVars, requests>>

Stage == {"idle", "headers", "upload", "received", "replied", "closed"}

Handler == {"delete", "get", "get_all", "patch", "post", "unset"}

Info == [handle : Handler, id : Int32, data : Seq(Nat)]

TypeOK ==
  /\ TableTypeOK
  /\ stage \in [Conn -> Stage]
  /\ DOMAIN req = Conn
  /\ calls \in [Conn -> Nat]
  /\ info \in [Conn -> Info \cup {NoInfo}]
  /\ reply \in [Conn -> {0, 200, 400, 500}]
  /\ said \in [Conn -> Id \cup {0, 1}]
  /\ made \in [Conn -> Id \cup {0}]
  /\ ran \in [Conn -> Nat]
  /\ requests \in 0..MaxRequests
  /\ \A c \in Conn :
       /\ IF stage[c] = "idle"
          THEN req[c] = NoInfo /\ calls[c] = 0
          ELSE req[c] \in Request(c) /\ calls[c] \in 0..Len(req[c].chunks)
       /\ stage[c] \in {"idle", "headers"} => info[c] = NoInfo
       /\ stage[c] \in {"upload", "received"} => info[c] \in Info /\ info[c].handle # "unset"

(* The table is as earlier requests have left it. *)
Init ==
  /\ TableTypeOK
  /\ nextId \in Id
  /\ \A id \in Id : Exists(id) => id < nextId /\ rows[id].up
  /\ req = [c \in Conn |-> NoInfo]
  /\ stage = [c \in Conn |-> "idle"]
  /\ calls = [c \in Conn |-> 0]
  /\ info = [c \in Conn |-> NoInfo]
  /\ reply = [c \in Conn |-> 0]
  /\ said = [c \in Conn |-> 0]
  /\ made = [c \in Conn |-> 0]
  /\ ran = [c \in Conn |-> 0]
  /\ requests = 0

-----------------------------------------------------------------------------
(* The library and the peer.                                               *)

Set(f, c, v) == [f EXCEPT ![c] = v]

Arrive(c) ==
  /\ stage[c] = "idle"
  /\ requests < MaxRequests
  /\ requests' = requests + 1
  /\ req' \in {Set(req, c, r) : r \in Request(c)}
  /\ stage' = Set(stage, c, "headers")
  /\ UNCHANGED <<tableVars, calls, info, outcomeVars>>

(* Where a request goes on once a call has taken what it was given.        *)
NextStage(c, n) == IF n < Len(req[c].chunks) THEN "upload" ELSE "received"

(* A handler that returns MHD_YES whatever came of its reply. *)
RespondAnyway(c, status) ==
  IF stage[c] \in {"headers", "received"}
  THEN reply' = Set(reply, c, status) /\ stage' = Set(stage, c, "replied")
  ELSE UNCHANGED reply /\ stage' = Set(stage, c, NextStage(c, calls[c] + 1))

(* MHD_queue_response, and what the handler makes of its result.  Out of   *)
(* turn it fails, the handler returns MHD_NO, and the library closes the   *)
(* connection.                                                             *)
Respond(c, status) ==
  IF stage[c] \in {"headers", "received"}
  THEN reply' = Set(reply, c, status) /\ stage' = Set(stage, c, "replied")
  ELSE UNCHANGED reply /\ stage' = Set(stage, c, "closed")

Close(c) == stage' = Set(stage, c, "closed") /\ UNCHANGED reply

(* The peer goes away. *)
Abort(c) ==
  /\ stage[c] \notin {"idle", "closed"}
  /\ Close(c)
  /\ UNCHANGED <<tableVars, req, calls, info, said, made, ran, requests>>

(* reachard_handle_complete: reply sent or not, the struct is freed; the   *)
(* library forgets the request, and the connection may carry another.      *)
Complete(c) ==
  /\ stage[c] \in {"replied", "closed"}
  /\ stage' = Set(stage, c, "idle")
  /\ req' = Set(req, c, NoInfo)
  /\ info' = Set(info, c, NoInfo)
  /\ calls' = Set(calls, c, 0)
  /\ reply' = Set(reply, c, 0)
  /\ said' = Set(said, c, 0)
  /\ made' = Set(made, c, 0)
  /\ ran' = Set(ran, c, 0)
  /\ UNCHANGED <<tableVars, requests>>

-----------------------------------------------------------------------------
(* The first call.                                                         *)

(* reachard_handle_targets_first_call; 0 is no id. *)
Route(method, id) ==
  CASE method = "DELETE" /\ id # 0 -> "delete"
    [] method = "GET" /\ id # 0    -> "get"
    [] method = "GET" /\ id = 0    -> "get_all"
    [] method = "PATCH" /\ id # 0  -> "patch"
    [] method = "POST"             -> "post"
    [] OTHER                       -> "unset"

(* A struct whose buffer has a size before it has any memory. *)
NewInfoUnset(handle, id) == [handle |-> handle, id |-> id, data |-> <<0>>]

(* The struct as reachard_handle_targets_first_call leaves it.  A URL that *)
(* is not the server's is like one whose number is too long.               *)
NewInfo(handle, id) == [handle |-> handle, id |-> id, data |-> <<>>]

Unmatched == NewInfo("unset", 0)

Routed(r) ==
  IF Matches(r.number)
  THEN {NewInfo(Route(r.method, id), id) : id \in IdsFrom(r.number, AnyId)}
  ELSE {Unmatched}

(* A first call that leaves the refusal to the calls that follow. *)
FirstCallGoesOn(c) ==
  /\ stage[c] = "headers"
  /\ info' \in {Set(info, c, i) : i \in Routed(req[c])}
  /\ stage' = Set(stage, c, NextStage(c, 0))
  /\ UNCHANGED <<tableVars, req, calls, outcomeVars, requests>>

(* The struct cannot be allocated; or the URL is matched and the request   *)
(* routed, where a pattern that cannot be compiled counts as no match.     *)
FirstCall(c) ==
  /\ stage[c] = "headers"
  /\ \/ /\ Faults
        /\ Close(c)
        /\ UNCHANGED info
     \/ \E i \in Routed(req[c]) \cup IF Faults THEN {Unmatched} ELSE {} :
          /\ info' = Set(info, c, i)
          /\ IF i.handle = "unset"
             THEN Respond(c, 400)
             ELSE stage' = Set(stage, c, NextStage(c, 0)) /\ UNCHANGED reply
  /\ UNCHANGED <<tableVars, req, calls, said, made, ran, requests>>

-----------------------------------------------------------------------------
(* The handlers, called for a chunk of data or for none.                   *)

Ran(c) == ran' = Set(ran, c, ran[c] + 1)

(* A number as the database reads it, after its way through a buffer. *)
Param(n) == Atoi(EncodeNumber(n))

(* An id that no row has matches nothing. *)
HasRow(id) == id \in Id /\ Exists(id)

(* A statement that has run is answered with 200, unless its result gets   *)
(* lost on the way back.                                                   *)
Answered(c) == Respond(c, 200) \/ (Faults /\ Respond(c, 500))

DeleteTarget(c) ==
  /\ info[c].handle = "delete"
  /\ Ran(c)
  /\ \/ /\ IF HasRow(Param(info[c].id))
           THEN Delete(Param(info[c].id)) ELSE UNCHANGED tableVars
        /\ Answered(c)
     \/ Faults /\ UNCHANGED tableVars /\ Respond(c, 500)
  /\ UNCHANGED <<said, made>>

GetTarget(c) ==
  /\ info[c].handle = "get"
  /\ \/ HasRow(Param(info[c].id)) /\ Respond(c, 200)
     \/ (~HasRow(Param(info[c].id)) \/ Faults) /\ Respond(c, 500)
  /\ UNCHANGED <<tableVars, said, made, ran>>

GetAllTargets(c) ==
  /\ info[c].handle = "get_all"
  /\ Answered(c)
  /\ UNCHANGED <<tableVars, said, made, ran>>

(* What cJSON finds in the buffer: what the body says if the buffer is the *)
(* body, anything if it is not.                                            *)
Intact(c) == info[c].data = [k \in 1..Len(info[c].data) |-> k]

Understood(c) ==
  IF req[c].chunks = <<>> THEN {NotJson}
  ELSE IF Intact(c) THEN {req[c].asks} ELSE Meaning

(* The columns that a PATCH sets, in the order in which it looks for them. *)
Given(body) ==
  (IF body.url = Absent THEN <<>> ELSE <<"url">>) \o
  (IF body.interval = Absent THEN <<>> ELSE <<"interval">>)

(* What the query makes of a column: parameter k is the value of the k-th  *)
(* column given.                                                           *)
Assigned(row, body, c) ==
  LET columns == Given(body)
      ks == {k \in 1..Len(columns) : Assigns(Query(columns), c, k)}
  IN IF ks = {} THEN row[c]
     ELSE LET v == body[columns[CHOOSE k \in ks : TRUE]]
          IN IF c = "interval" THEN Param(v) ELSE v

(* The UPDATE of a PATCH: PostgreSQL refuses it or runs it. *)
RunUpdate(id, body) ==
  /\ Accepted(Query(Given(body)))
  /\ IF HasRow(id)
     THEN Patch(id, Assigned(rows[id], body, "url"), Assigned(rows[id], body, "interval"))
     ELSE UNCHANGED tableVars

PatchTarget(c) ==
  /\ info[c].handle = "patch"
  /\ \E body \in Understood(c) :
       IF body = NotJson
       THEN Respond(c, 400) /\ UNCHANGED <<tableVars, ran>>
       ELSE /\ Ran(c)
            /\ \/ RunUpdate(info[c].id, Read(body)) /\ Answered(c)
               \/ /\ ~Accepted(Query(Given(Read(body)))) \/ Faults
                  /\ UNCHANGED tableVars
                  /\ Respond(c, 500)
  /\ UNCHANGED <<said, made>>

(* reachard_db_target_init *)
OrDefault(interval) == IF interval = Absent THEN DefaultInterval ELSE interval

(* reachard_db_targets_add returns the new id, or 1 if the INSERT failed   *)
(* or its result was lost; the handler passes it on with status 200.       *)
PostTarget(c) ==
  /\ info[c].handle = "post"
  /\ \E body \in Understood(c) :
       IF body = NotJson \/ body.url = Absent
       THEN Respond(c, 400) /\ UNCHANGED <<tableVars, said, made, ran>>
       ELSE /\ Ran(c)
            /\ Respond(c, 200)
            /\ \/ /\ Add(body.url, Param(OrDefault(Read(body).interval)))
                  /\ \/ said' = Set(said, c, Atoi(Decimal(nextId)))
                     \/ Faults /\ said' = Set(said, c, 1)
                  /\ made' = Set(made, c, nextId)
               \/ /\ AddFails
                  /\ said' = Set(said, c, 1)
                  /\ UNCHANGED made

(* A chunk that is copied behind the buffer: the size is updated first. *)
UploadPastEnd(data, chunk) ==
  [k \in 1..Len(data) + Len(chunk) |-> IF k <= Len(data) THEN data[k] ELSE 0]

(* reachard_handle_upload_data: the buffer grows by the chunk, and the     *)
(* chunk is copied to its start; 0 is a byte that was never written.       *)
Upload(data, chunk) ==
  [k \in 1..Len(data) + Len(chunk) |->
     IF k <= Len(chunk) THEN chunk[k]
     ELSE IF k <= Len(data) THEN data[k] ELSE 0]

(* The library passes the next chunk on.  POST and PATCH store it (the     *)
(* allocation may fail); DELETE and GET take no notice of it, and run.     *)
StoreChunk(c) ==
  LET data == info[c].data
      chunk == [k \in 1..req[c].chunks[calls[c] + 1] |-> Len(data) + k]
  IN
  /\ info[c].handle \in {"patch", "post"}
  /\ \/ Faults /\ Close(c) /\ UNCHANGED info
     \/ /\ info' = [info EXCEPT ![c].data = Upload(data, chunk)]
        /\ stage' = Set(stage, c, NextStage(c, calls[c] + 1))
        /\ UNCHANGED reply
  /\ UNCHANGED <<tableVars, said, made, ran>>

UploadCall(c) ==
  /\ stage[c] = "upload"
  /\ calls' = Set(calls, c, calls[c] + 1)
  /\ \/ StoreChunk(c)
     \/ (DeleteTarget(c) \/ GetTarget(c) \/ GetAllTargets(c)) /\ UNCHANGED info
  /\ UNCHANGED <<req, requests>>

LastCall(c) ==
  /\ stage[c] = "received"
  /\ \/ DeleteTarget(c) \/ GetTarget(c) \/ GetAllTargets(c)
     \/ PatchTarget(c) \/ PostTarget(c)
  /\ UNCHANGED <<req, calls, info, requests>>

Next == \E c \in Conn :
  \/ Arrive(c) \/ Abort(c) \/ Complete(c)
  \/ FirstCall(c) \/ UploadCall(c) \/ LastCall(c)

Spec == Init /\ [][Next]_vars

-----------------------------------------------------------------------------
(* Properties.                                                             *)

(* Between its calls a request keeps the handler and the id that its       *)
(* headers chose; it is received when its body has been passed on to the   *)
(* last chunk; the buffer is empty before the first, and is the body if    *)
(* there is but one.  No id is handed out twice.  The theorems about what  *)
(* a request does to the table rest on this.                               *)
AsRouted(c) == \E i \in Routed(req[c]) : info[c] = [i EXCEPT !.data = info[c].data]

BufferIsBody(c) ==
  /\ stage[c] = "upload" /\ calls[c] = 0 => info[c].data = <<>>
  /\ stage[c] = "received" /\ Len(req[c].chunks) = 1 /\ info[c].handle \in {"patch", "post"}
     => info[c].data = [k \in 1..req[c].chunks[1] |-> k]

RequestsInv ==
  /\ \A id \in Id : Exists(id) => id < nextId
  /\ \A c \in Conn :
       /\ stage[c] = "headers" => calls[c] = 0
       /\ stage[c] = "upload" => calls[c] < Len(req[c].chunks)
       /\ stage[c] = "received" => calls[c] = Len(req[c].chunks)
       /\ stage[c] \in {"upload", "received"} => AsRouted(c) /\ BufferIsBody(c)

(* At most one statement that changes the table is sent for a request,     *)
(* although its handler may be called at several points of the upload, and *)
(* none for a request that is answered with 400.                           *)
OnceOnly == \A c \in Conn :
  /\ ran[c] <= 1
  /\ reply[c] = 400 => ran[c] = 0

(* A row changes only on behalf of a request that is about it, as the      *)
(* method and, if it came in one chunk, the body of that request ask: the  *)
(* fields that it names take the values given, the others keep theirs.  A  *)
(* URL is about the row whose id it spells, leading zeros or not, as long  *)
(* as the number is an int and leaves room for the terminator; and an      *)
(* interval is the int that comes closest to what was asked from the side  *)
(* of 0.  A POST that has made its row names it, unless it lost the result.*)
Names(r, id) ==
  Value(r.number) \in Int32 /\ Len(r.number) < IntStrLen => Value(r.number) = id

Within(j, n) == (0 <= j /\ 2 * j <= n) \/ (n <= 2 * j /\ j <= 0)

Closest(i, n) ==
  i \in Int32 /\ Within(i, n) /\ \A j \in Int32 : Within(j, n) => Within(j, 2 * i)

OrKept(field, old) == IF field = Absent THEN old ELSE field

TakenAs(i, asked, old) == IF asked = Absent THEN i = old ELSE Closest(i, asked)

PatchedAs(row, old, asks) ==
  /\ row.url = OrKept(asks.url, old.url) /\ row.up = old.up
  /\ TakenAs(row.interval, asks.interval, old.interval)

PostedAs(row, asks) ==
  /\ row.url = asks.url /\ row.up
  /\ TakenAs(row.interval, asks.interval, DefaultInterval)

DoneAsAsked(c, id) ==
  LET r == req[c]  whole == Len(r.chunks) = 1 IN
  /\ ran'[c] > ran[c]
  /\ CASE r.method = "DELETE" -> Names(r, id) /\ ~Exists(id)'
       [] r.method = "PATCH" ->
            /\ Names(r, id) /\ Exists(id) /\ Exists(id)'
            /\ whole => r.asks # NotJson /\ PatchedAs(rows'[id], rows[id], r.asks)
       [] r.method = "POST" ->
            /\ ~Exists(id) /\ Exists(id)'
            /\ said'[c] = id \/ (Faults /\ said'[c] = 1)
            /\ whole => r.asks # NotJson /\ PostedAs(rows'[id], r.asks)

ChangesAsAsked == [][
  \A id \in Id : rows'[id] # rows[id] => \E c \in Conn : DoneAsAsked(c, id)]_vars

(* A PATCH that is answered with 200 named at least one field, and the row *)
(* that its URL spells, if there is one, has what it asked for: the query  *)
(* that was put together for these fields says just that.                  *)
Answers(c, status) == reply[c] = 0 /\ reply'[c] = status

MadeAsAsked(c) ==
  LET r == req[c] IN
  Answers(c, 200) /\ r.method = "PATCH" /\ Len(r.chunks) = 1 =>
    /\ r.asks \notin {NotJson, [url |-> Absent, interval |-> Absent]}
    /\ \A id \in Id :
         /\ Exists(id)
         /\ Len(r.number) < IntStrLen /\ Value(r.number) = id
         => PatchedAs(rows'[id], rows[id], r.asks)

PatchIsMade == [][\A c \in Conn : MadeAsAsked(c)]_vars

(* "The following calls make body available as well" (handle.c:156): once  *)
(* a POST or PATCH has been received, its handler has its body.            *)
BodyAvailable == \A c \in Conn :
  stage[c] = "received" /\ info[c].handle \in {"patch", "post"} => Intact(c)

(* A reply that names an id names the row that the request has inserted:   *)
(* an INSERT that "failed to add a target" (database/targets.c:84) is not  *)
(* reported as a new target.                                               *)
SaidIsMade == \A c \in Conn : reply[c] = 200 => said[c] = made[c]

=============================================================================
