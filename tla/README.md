# reachard: a verification project

reachard watches HTTP servers.  A table `targets` in PostgreSQL says which URLs
are to be checked and how often; the daemon asks each of them at its interval
and publishes in the column `up` whether it answered well; an HTTP API lets its
users list, add, change and remove targets.

This directory holds TLA+ models of that program, the configurations under which
TLC checks them, and theorems about them that TLAPS proves.  Everything is
translated from the C and SQL sources under `src/` of the repository (paths below
are relative to it); the repository has no tests and its only documentation of
behaviour is the comments and messages in the code.

## Inventory

| component | sources | state it keeps | operations |
|---|---|---|---|
| table `targets` | `database/targets.c`, `database/migrations/*.sql` | rows, the SERIAL sequence | INSERT, DELETE, UPDATE, SELECT, one statement per function |
| watcher | `client/watcher.c`, `client/targets.c` | hash table of targets, each with a timer and a cached `up` | start, check, complete, stop; add and delete (never called) |
| curl multi handle | `client/state.c` | easy handles, one poll handle per socket, one timer | `socket_function`, `timer_function`, `on_poll`, `on_timeout`, `check_completed`, clear |
| lifecycle | `main.c`, `client/client.c` | the threads, the loop, the signal handlers | start-up, `reachard_pause`, stop, join, deinit |
| connections | `database/database.c` | three `PGconn` pointers in structs that are copied | connect, finish |
| migrations | `database/migrate.c` | table `version`, the schema | read the version, apply what is missing |
| HTTP requests | `server/handle.c`, `server/request.c` | one `reachard_connection_info` per request | first call, upload, last call, completion |
| endpoints | `server/handle/targets.c` | none | DELETE, GET, GET all, PATCH, POST |
| HTTP daemon | `server/server.c` | libmicrohttpd's daemon | start, stop |
| conversions | `database/macros.{c,h}`, `utils/constants.h` | none | column values to and from text |
| environment | `env/env.c` | two values read once | parse |
| generator | `generators/migrations.c` | none (build time) | writes `migrations.h` |

**How they interact.**  Three threads live in the process.  *Main* connects,
migrates, starts the two others, waits in `pause()`, and tears down.  The
*client's thread* runs a libuv loop: watcher and multi handle are callbacks of
that loop, and use a database connection of their own.  The *daemon's thread*
belongs to libmicrohttpd: it calls `reachard_handle` for all connections one
after another, and uses the third database connection.  The two working threads
never talk to each other; the table is all they share.  Main reaches into the
client's loop when it stops it (`uv_loop_alive`, `uv_async_init`,
`uv_async_send`, and in one branch `uv_run`).

**What is hard**, and what correctness means in each component:

* Watcher: timers ring whether or not the last check has ended, so checks of one
  target overlap and answers arrive in any order; rows are patched and deleted
  between a check's SELECT and its UPDATE; the status is written only when it
  differs from a cached copy, and a failed UPDATE is not repeated; the process may
  die between the two.  *Correct*: what is published was answered by a URL of that
  target while it was asked; cache and row agree unless a statement failed, and
  agree again after the next change if one did; once things are quiet the
  published status is the present one; deleted rows stay deleted; no transfer
  completes into a target that is freed.
* Lifecycle: signals at any instant, every start-up step may fail, two threads on
  one loop, structs that are copied before they are initialised.  *Correct*: every
  way out finishes each connection once, and none under a thread that uses it; a
  signal ends the process; what is written to run in the client's thread does.
* Migrations: several instances of different builds on one database, failures and
  deaths between any two statements; the version is a number beside the schema, and
  the statement that writes it is not looked at.  *Correct*: the stored version stands
  for the migrations in the schema; success means up to date; no migration is run
  twice; of several instances that race somebody gets through.
* HTTP requests: the handler of one request is called several times, the calls for
  different connections interleave, a reply is possible in two of the calls
  only, peers go away.  *Correct*: a request runs at most one statement, and that
  statement does what the request asked; the body that is parsed is the body that was
  sent; a number in a URL or in a column comes through its buffers unchanged; a
  PATCH that is reported as made has been made; a reply that names a row tells the
  truth.
* Curl's sockets: a descriptor is closed and used again while the poll handle of its
  predecessor waits to be freed; the callbacks are called from within libcurl, from
  its cleanup too; allocations fail.  *Correct*: libuv watches what libcurl has asked
  for, no more and no less; what happens on a socket gets to libcurl; no callback
  comes after the cleanup, and the loop ends with nothing left in it.
* Generator: it reads a directory in any order and lists `migration_1` up to a count
  without looking at what it has defined.  *Correct*: a header that compiles has
  every migration at its number.

`PROJECT.json` lists the components with their status, and the hazards line by
line with the properties that watch them.

## Modules

| module | models | role |
|---|---|---|
| `TargetTable` | the table and the statements on it | extended by `StatusBoard`, `Watcher`, `Requests` |
| `StatusBoard` | what the monitor promises | abstract specification |
| `Watcher` | client's thread, daemon's statements, network, crashes | implements `StatusBoard` |
| `Numbers` | numbers as texts, in buffers and in C ints | extended by `Requests`, `Generator` |
| `UpdateQuery` | the UPDATE that is put together column by column | extended by `Requests` |
| `Requests` | the calls for HTTP requests and the endpoints | |
| `Sockets` | poll handles, curl's timer, what libcurl and libuv make of them | |
| `Lifecycle` | main, the client's thread around the loop, signals, connections | |
| `Migrate` | several instances migrating one database | |
| `Generator` | the build-time generator of `migrations.h` | |
| `WatcherProofs`, `SocketsProofs`, `LifecycleProofs`, `MigrateProofs`, `GeneratorProofs` | theorems about these modules | |
| `BoardProofs` | that `Watcher` implements `StatusBoard` | on top of `WatcherProofs` |
| `NumbersProofs` | what the conversions compute | extended by `RequestsProofs` |
| `RequestsProofs` | theorems about `Requests` and `UpdateQuery` | |
| `MCWatcher`, `MCRequests`, `MCLifecycle`, `MCMigrate`, `MCGenerator` | values of the constants for TLC | |

### TargetTable

Every function of `database/targets.c` issues one statement, and PostgreSQL runs a
statement atomically; so each statement is an operator on `rows` and `nextId`.
`Add` draws from the sequence, `AddFails` burns a number without a row, `Update`
changes a row only if it is there.  `name` is left out: no decision of the program
reads it.  `Patch` sets both of the remaining columns that a client may set; a
PATCH that names only one of them is the case where the other value is the old one.

### Watcher

One action is one callback of the loop.

| action | code |
|---|---|
| `WatcherStart` | `reachard_client_watcher_start`: SELECT of all rows, a target with a timer for each, until an allocation fails |
| `TargetCheck` (`Ring`, `StartTransfer`, `GiveUp`) | `target_check`: SELECT of the row, then a HEAD request for its URL, or nothing |
| `Answer`, `Flip` | the network |
| `SocketAction` | `on_poll`/`on_timeout` into `curl_multi_socket_action`: any set of answered transfers is finished, in any order |
| `CheckCompleted` | one turn of the loop in `check_completed`, with `transfer_complete` |
| `Stop`, `CloseCallback`, `Exit` | `stop`, `target_deinit` at the end of the iteration, the end of the process |
| `LoopEnds` | `uv_run` returns since nothing is active |
| `Post`, `PatchRow`, `DeleteRow` | the endpoints' statements, between any two steps of the client's thread |
| `Crash`, `Boot` | death at any instant, the next start |

`check_completed` is the one callback that is several actions, one per message: it
issues one UPDATE per message, and the daemon's statements may come in between.
`Draining` keeps the loop's other callbacks out until the last message is dealt
with.  `Millis` is the C product `interval * 1000` with the width of an `int`
(`IntModulus`), and `AfterRing` what libuv makes of the product: a timer that
repeats, one that rings once, or one that is active and in practice never due.

`StatusBoard` has no thread, timer, transfer or cache.  It keeps for each target the
URLs that were asked and the answers that were heard, and publishes only an answer
that was heard.  The refinement mapping reads both off the transfers under way.

### Requests

libmicrohttpd calls `reachard_handle` once with the headers (`FirstCall`), once for
each chunk of the body (`UploadCall`), and once at the end (`LastCall`); `stage` is
where it is.  `MHD_queue_response` works in the first and the last of these calls;
elsewhere it fails, the handler returns `MHD_NO`, and the connection is closed:
that is `Respond`.  DELETE and GET never consume a body, so their handler runs at
the first chunk.  A body of n bytes is the sequence 1..n and what it says is chosen
beside it; `Upload` is the `realloc` and `memcpy` of `reachard_handle_upload_data`
on such sequences, with 0 for a byte that was never written.  If the buffer is the
body (`Intact`), cJSON finds what the body says; if not, it may find anything.
The numbers in a body are any that JSON has (`Amount`, in halves), and `ValueInt` is
the `valueint` that cJSON makes of them: cut to a whole number, and to the nearer end
of the ints if they are beyond it.

A statement fails without a trace, or it is committed and its result gets lost: the
endpoints then answer 500 (`Answered`), and a POST answers 200 and the id 1.

A URL has a number of up to `IntStrLen` digits, or none.  `match` copies it into a
buffer of as many characters, so that the longest ones have no terminator behind
them: `IdsFrom` then gives any id.  A PATCH runs the code's query builder on the
columns that the body names.

`ChangesAsAsked` compares a row before and after each step with what the request asks
on whose behalf the step ran; `PatchIsMade` does so for a PATCH that gets its 200.
`RequestsInv` is what they rest on: between its calls a request's struct has the handler
and the id that its headers chose, and the buffer is empty before the first chunk, and
is the body if that came in one chunk.  Of an interval `ChangesAsAsked` asks that the
row has the int that comes closest to it from the side of 0 (`Closest`).
`RequestsAssumption` has `MaxId <= IntMax`, since the column `id` is an `integer`.

### Numbers and UpdateQuery

A text is a sequence of digits.  `Decimal` is `%d`, `Printed` what `snprintf` leaves
of a text in a buffer, `Atoi` what becomes of the digits in an int (`Wrap`, for the
numbers that `atoi` leaves undefined).  `NumbersAssumption` says that the least int
with its sign and terminator fits the buffer (`Power` is the base to the n), as it does
for 32 bits and 12 characters; TLC has ints of 6 bits in base 4 and buffers of 5.

`Query` puts the UPDATE together as `reachard_db_targets_update` does: each column
with a comma behind it, then the character two before the end is overwritten without
looking at it.  `Accepted` and `Assigns` are what PostgreSQL makes of the text.

### Sockets

`phase` is where libuv is in an iteration (timers, poll, closing), `inside` the call
of libcurl that is under way, from `on_timeout` and `on_poll` (`action`) or from
`curl_multi_cleanup` (`clear`).  A block of the heap is freed, or a `struct socket`
that polls for a set of events or is being closed; `socketp` is the pointer that
`curl_multi_assign` has left with libcurl.  `SocketFunction` is `socket_function`
for one call of it, `TimerFunction` is `timer_function`.  The results of
`uv_poll_init_socket` and `uv_poll_start` are not looked at: libuv refuses a
descriptor that another handle polls (`Taken`), and the baton then polls nothing.
That this never happens is part of what `Faithful` shows (`NotTaken` in the proofs).

What libcurl does with them is the environment: `Watch`, `Remove`, `SetTimeout` and
`Return` in any order, subject to what the code relies on: a socket is removed before
it is closed, and given up in the call that hears of an error on it.  After a
callback has returned -1, libcurl treats the multi handle as dead: `Watch` and
`SetTimeout` are disabled until it has no transfer left.  `Poll` reports what has
happened of the events that open polls ask for, and `OnPoll` passes it on; a report
for a descriptor that is stopped or polled anew in between is dropped, as libuv drops
it.  The stop is among the polls, since it comes as an async handle.

### Lifecycle

`pc` is main's position, `at[t]` where a thread is with respect to the loop, and the
loop's callbacks are actions of the thread that runs them, since main may run the
loop too.  A target is its timer, the checks are one flag.  `conn[o]` says whose
connection a struct points at: `reachard_client_state_init` and
`reachard_server_init` copy main's struct before they connect, and a failure leaves
the copy.  A call through a pointer that was never written, or into a multi handle
that does not exist, is a choice between the death of the process and nothing.
`EnvInit` is `reachard_env_init`, whose result main does not look at: if it has failed,
the connection is made to whatever `db_url` holds.
`Interrupt` is a SIGINT or SIGTERM at any instant, delivered to main as Linux does.

### Migrate

One action is one statement of `reachard_db_migrate`, run by each of several
instances.  The schema is a set of migrations.  `Needs` and `Works` say what the
batches of `database/migrations/*.sql` say: 2 needs the schema that 1 creates, 3 and
4 each alter the table that 2 creates and do not need one another; what a batch
creates must not be there yet.  `Locked` is that a batch waits for an uncommitted one
which creates the same things or alters the same table.

`txn` follows the connection's transaction; `done` and `wrote` are what it will
commit.  `UpdateVersion` ignores its result as the code does: the UPDATE takes place,
or fails in the server, which aborts the transaction, or fails in the client
(`PQexecParams` returns NULL) and is never sent, which leaves the transaction as it
is.  `End` on an aborted transaction is a ROLLBACK that reports success, and the loop
goes on; on one without its UPDATE it commits a migration without its number.  `lost`
and `unrecorded` keep these two kinds of migrations for the properties; no action
reads them.  `mishaps` counts failed statements and deaths of instances; it bounds
them, and it tells the runs in which nothing went wrong.

### Generator

A name is a sequence of digits and the rest.  `Read` takes any entry that `readdir`
may return next, `WriteTable` ends the header.  `Number` is what `strtol` returns, which
stops at the greatest long, cut to an int.  `Compiles` is what the C compiler
makes of it: it refuses a name that is defined twice or not at all.

## Runs

| run | constants and bounds | states | checks |
|---|---|---|---|
| `watcher_overlap` | 1 target, 2 URLs, 3 outcomes, 2 transfers at a time, 1 PATCH, 1 flip, 2 starts, failures | 90 k | `TypeOK`, `TransferTargetAlive`, `HealsOnNextChange`, `NoResurrection`, `ImplementsBoard` |
| `watcher_steady` | 1 target, 2 URLs, intervals that repeat, ring once and overflow, 2 transfers at a time, 2 edits, 2 flips, 2 starts, no failures, fairness | 96 k | `Coherent`, `IInv`, `Converges` |
| `requests` | 2 connections, 2 requests, a table that may hold a row, 2 URLs (symmetric), numbers with leading zeros, of every length and too large, intervals with a fraction and below the ints, bodies of 0, 1, 2 chunks, failures, lost results | 3.7 M | `TypeOK`, `RequestsInv`, `OnceOnly`, `ChangesAsAsked`, `PatchIsMade` |
| `sockets` | 2 descriptors, 2 blocks of memory, failing allocations, fairness | 73 k | `SocketsInv`, `Faithful`, `CallbackFindsMulti`, `NothingLeft`, `Served` |
| `lifecycle` | two repeating timers and one that rings once, every failure, 2 signals, fairness | 9 k | `LifecycleInv`, `FinishedOnce`, `NoFinishUnderClient`, `MultiAlive`, `LoopWithWorkStops` |
| `migrate` | one instance of an old build and two of a new one, 2 failures or deaths, fairness | 175 k | `VersionIsSchema`, `OkIsCurrent`, `NothingTwice`, `MigrateInv`, `OneAtATime`, `SomeoneGetsThrough` |
| `generator` | every directory that can be made of 9 entries, read in every order | 21 k | `GeneratorInv`, `CompleteIfCompiles`, `NumberedCompiles` |

**Why the bounds are enough.**  The watcher's hazards are about one target: two
transfers of it are what it takes for answers to overtake each other, one PATCH for
the URL to change under a check, one flip for two checks to disagree, two starts for
a cache to be rebuilt from a table that a crash has left behind.  That targets do not
disturb one another is left to the proofs, which are about any number of them;
`Converges`, which is not proved, is shown for one target only.
Two chunks are the least that can overwrite one another; they have unequal lengths, so
that the tail of the longer one is seen.  Two requests and a table that may hold a row let any two
endpoints meet on one row.  What is unusual in a request comes over one connection and
meets everything else over the other.  Two blocks of memory are what two sockets need
when nothing has been closed, and too few as soon as a closed one waits to be freed,
which is when an allocation fails or a descriptor has two batons.  Signals: a second
one can only find main further on, and a third would find it no differently.  Two
builds and two mishaps let two of the instances be cut off anywhere and the third run
through, and the four migrations are the repository's own; the database starts new,
or as either build left it.  The two URLs of `requests` are alike: nothing in the
module or its properties tells them apart, so that TLC may take them for symmetric.
Of the intervals beyond the ints one below is enough, the other end being treated
alike, and the theorem is about any.  The directory has a gap, a leading zero, no
digits, a number that does not fit an int, one that does not fit a long, a longer name and a directory of the right name.  What is proved below holds
without any of the bounds.

**Deadlock** is not checked in any run: the bounds stop the environment, a process
whose loop has run dry waits for signals, and a migration, a cleaned-up loop and the
generator end.

### Runs that are expected to fail

Five runs check one property each that states what a comment or a message of the
program says, and TLC shows how the code does otherwise.

* `lost_signal`: *SignalShutsDown*.  `main.c:36` announces "Shutting down!" in the
  handler, and `main.c:48` goes to sleep in `pause()` if that happened a moment
  earlier.  The process lives on until another signal comes.
* `early_stop_hangs`: *WokenMainReturns*.  If the signal comes while the client's
  thread is still reading the table, the loop is not alive when main looks
  (`client.c:90`); main runs it, and `stop` in it, to the end; then the client's
  thread arms its timers and runs the loop that has been stopped already, and main
  joins a thread that never ends.  `client.c:77`, `watcher.c:120` and `state.c:209`
  say of the stop "Runs in the client's thread"; here it has not.
* `skipped_migration`: *InOrder*.  `migrate.c:137-141` ends the loop with "failed to
  apply migration to version %d" when a migration is not applied.  The UPDATE at
  `migrate.c:107` fails in migration 3, nobody looks, END rolls the transaction back
  and answers `PGRES_COMMAND_OK` all the same; the loop goes on, and migration 4,
  which does not need 3, is committed as version 4.  `url` and `interval` are missing,
  and every later start reads 4 and reports success: `VersionIsSchema` and
  `OkIsCurrent` hold only up to the migrations that were lost like this (`lost`).
* `garbled_upload`: *BodyAvailable*.  `handle.c:156` says that the later calls make
  the body available; `handle.c:74` copies every chunk to the start of the buffer,
  which holds the last chunk, a rest of the first, and bytes never written.
* `failed_post`: *SaidIsMade*.  `database/targets.c:84-86` reports a failed INSERT by
  returning 1; `handle/targets.c:226` takes the 1 for an id and replies 200.

Beside those, modelling the code made behaviour visible that contradicts nothing the
repository says: targets created after the start are not watched before the next
one (`watcher.c:84-118` has no callers); a PATCHed interval waits for the next
start too; a timer of a deleted row rings on; an interval whose product overflows
to a negative number lets its target be checked only once; a body sent with DELETE
deletes the row and closes the connection without a reply; a request for target
4294967297 acts on target 1, and one for a number of twelve digits on any; a
failed allocation in `socket_function` leaves a multi handle that is dead until
its transfers are gone, and with it every check that needs a new socket; main goes
on with whatever `reachard_env_init` left; the generator skips the migrations of a
file system that reports no types; an UPDATE of `version` that is never sent leaves
its migration in the schema without its number (`unrecorded`): the next migration's
number covers it, but if it was the last one, every later start runs it again and
fails on what is there; when migration 3 has been lost and 4 recorded, an
instance that has read the older number may still run 3, and set the version back to 3;
an interval of 3000000000 is stored as 2147483647 and reported as made; a
request whose statement was committed and whose result was lost is answered as if
it had failed; a failed start of the client or the server finishes main's
connection twice (the exception in `FinishedOnce`), and of the daemon finishes the
client's under its thread (the exception in `NoFinishUnderClient`).

## Fairness

* Watcher: weak fairness of the loop's own steps, since a loop with something to do
  does not stand still.  Strong fairness of `TargetCheck` and of `SocketAction` for
  each transfer: both are shut out again and again by `Draining`, but each iteration
  of libuv runs every timer that is due and reports every socket that is ready.
  `Answer` is weakly fair, which is an assumption on the network: the code sets no
  `CURLOPT_TIMEOUT`, so nothing in it ends a transfer that is never answered.
* Lifecycle: weak fairness of main, of the client's thread before the loop, of
  callbacks and of leaving the loop; strong fairness of `RunStop` and `EndClosing`,
  which compete with timers within an iteration but are reached in every iteration.
  Signals are not fair.
* Migrate: an instance that can issue its next statement does.
* Sockets: the loop goes round (`Poll` is strongly fair, since timers that start checks
  may be due whenever libuv gets there, but are run once per iteration), and each
  poll that is ready is called.  libcurl returns from every call, gives up a socket
  that has failed, and removes every socket in its cleanup.  That something happens
  on a socket is not fair, and neither is the stop.

## Proofs

`WatcherProofs` is about `Watcher` for any number of ids, URLs, intervals, outcomes,
transfers, starts and edits.  The inductive invariant is

    IInv == TypeOK /\ SerialFresh /\ DoneIsAnswered /\ TransferTargetAlive /\ Coherent

None of its parts stands alone.  Type correctness needs `TransferTargetAlive` and
`DoneIsAnswered`: the completion of a transfer writes through its pointer to the
target, which keeps the hash table's type only if there is a target, and writes a
verdict on an outcome, which is one only if the answer is in.  `Coherent` needs
`SerialFresh`: an INSERT brings a row with `up = true` under an id, and cache and
row agree only because no target is watched under an id that the sequence still
has to give.  Theorems: `Invariant`, `TypeCorrect`, `CacheCoherent`,
`NoDanglingTarget`, `DeleteIsFinal` and `NextChangeHeals`; the last two are action
properties and use the invariant for the state before the step.

`BoardProofs` proves the refinement (`Refinement`, that is `Spec => ImplementsBoard`) with
the same constants.  Posts, patches, deletions, flips and answers are the board's
`Create`, `Edit`, `Remove`, `Change` and `Hear`; a check that starts is an `Ask`, a
completed transfer a `Publish`, and transfers that vanish in a stop, an exit or a crash
are a `Forget`; everything else leaves the board as it is.  `asked` and `heard` are read
off the transfers, so each step comes with a lemma on which transfers it starts, answers
or ends; two transfers of one target may have asked the same URL, and the end of one
must not make the board forget the other.  Of `IInv` it needs the types and
`DoneIsAnswered`: a completion publishes an answer, so that there has to be one.

`MigrateProofs` is about any number of instances of any builds, and any number of
failures and deaths.  `MigrateInv` says that an instance has everything below its
current migration behind it, in the schema or lost (`Passed`), that its transaction
holds that migration or nothing (`Holds`), and that until one is lost the schema has no
gap.  It is inductive only together with the three other invariants, and they only
with it: what a commit adds to the schema goes with the number it writes
(`VersionIsSchema`, theorem `VersionCovers`), the number read puts everything below it
behind the reader, up to the end of its loop (`OkIsCurrent`, `SuccessIsCurrent`), and a
migration that another instance has still to commit is the one thing that could make
the next step unsound.  `NothingTwice` (`NoneTwice`) rules it out, from `Needs`, `Locked` and
the error on a second CREATE or ALTER alone: two different migrations that could be
uncommitted side by side are 3 and 4, and they alter one table.  `ForwardByOne` then
says what a commit does to the schema.

`RequestsProofs` proves `OnceOnly` for any number of connections and requests and for
bodies cut in any way (`AtMostOneStatement`).  What makes it inductive is `NotYet`: a
request that can still be passed to its handler has sent no statement.  It holds
because a handler sends its statement in the same call in which it tries to reply,
and a reply that the library refuses ends the request as well.

For what those statements do, it proves `RequestsInv` together with the types
(`Invariant` and `TypeCorrect`), which are inductive together, and from it the two action properties.
`ChangesOnlyAsAsked` goes through the endpoints one by one: the id in the struct is the
one `match` has found in this request's URL; the number that goes into the statement
is the number meant, by `RoundTrip` below; an interval is the int that comes closest to
the number in the body (`ClosestInt`); and the buffer that is parsed is the body, or
the body came in several chunks and may say anything.
`PatchIsAlwaysMade` rests on what is proved of the query builder for any sequence of
columns, not only the two of the model (`UpdateSays`): PostgreSQL accepts the text
unless there is no column, and parameter k goes to column k and no other.  The lemma
below it, `QueryIs`, says which token is where.

`NumbersProofs` is about any base above 1, any even modulus and any buffer that meets
`NumbersAssumption`.  `AtoiDecimal`: `atoi` reads back every int that `%d` has written.
`RoundTrip`: no buffer cuts an int.  They need induction on a number, while the library
states induction for an operator; here it is stated for a set (`StrongInduction`,
`Induction`) and proved from the least element of a set of numbers.  That `Digits`,
`Value` and `Power` satisfy their recursive definitions is not taken for granted either:
`Recursion` shows that a function exists whose every prefix obeys the step.
`DigitsLength` bounds the length of a text by the power of the base above the number.

`SocketsProofs` is about any number of descriptors and blocks of memory.  `Faithful`
says that libcurl's pointer for a socket is to the one open baton of that socket.
Not inductive alone: `SocketsInv` adds that nothing is reported of a descriptor
which libcurl has removed, and that once the multi handle is gone no call of libcurl is
under way, nothing is watched and the timer is closing.  The first keeps `on_poll`
from a baton that is not there, the second keeps every callback from the multi handle
(`AlwaysFaithful`, `MultiOutlivesCallbacks`).

`LifecycleProofs` is about any timers and any number of signals.  `LifecycleInv` has
three parts beside the types.  `ThreadInv` says at which positions of main the
client's thread cannot be in the loop, which is what main's calls of PQfinish need
(`ThreadGoneFirst`); it rests on `thrd_join`.  `ConnInv` counts what is opened and
what is finished at each position, for the ways on which no init function fails
half-way (`EachFinishedOnce`).  `LoopInv` says that a timer that is armed is watched
and, while main keeps out of the loop, that the multi handle has been made whenever
the client's thread is in the loop, and that once it is gone no timer is armed and no
callback is under way (`CallbackFindsMultiAlive`): no callback comes after the stop,
because the stop closes every timer that is watched.

`GeneratorProofs` is about any directory with finitely many entries.  The invariant
says that the header has a definition and a count for each migration that has been
read; `Complete` is then a pigeonhole argument: if each of the names 1 to n is defined
and there are n entries, none is left to define another.

The assumptions are the named ASSUMEs of the modules (types of the constants, and
sentinels that are no values) and nothing else.

**Only model-checked**: liveness (`Converges`, `LoopWithWorkStops`, `SomeoneGetsThrough`,
`NothingLeft`, `Served`), since the prover has no rules for fairness and ENABLED.  Every
other property of a run that passes is a theorem.

## Not modelled, and why

* libpq, libcurl, libuv, libmicrohttpd, cJSON: modelled as the code uses them.
  `uv_async_init` on a loop that another thread runs is a data race inside libuv and
  is taken as atomic; signals are delivered to the main thread.
* A kernel that refuses to watch a descriptor in `uv_poll_init_socket` (its limit of
  epoll watches): nobody looks at the result, the handle stays uninitialised, and what
  `uv_poll_start` makes of it is undefined.  A lack of memory ends the process in
  libuv itself.
* `reachard_client_watcher_add` and `_delete`, which nothing calls: from which thread
  and when they would run is nowhere in the code.
* Conversions of strings, which are passed on as they are, and of booleans, which are
  only read; the name of a target.
* The values of the environment, and that the port is cut to 16 bits: only that reading
  them may fail.
* What the daemon's library does between `MHD_start_daemon` and `MHD_stop_daemon`,
  other than calling `reachard_handle` as `Requests` has it.

## Plan

Done, the most important behaviour first.

1. `TargetTable`, `Watcher` with its safety properties and convergence.
2. `StatusBoard` and the refinement; `BoardProofs`.
3. `WatcherProofs`: the inductive invariant and what follows from it.
4. `Lifecycle`: start-up, signals, shutdown, connections; `LifecycleProofs`.
5. `Migrate` and `MigrateProofs`.
6. `Requests` and `RequestsProofs`: calls of the HTTP library, uploads, endpoints, and
   what a request does to the table.
7. `Sockets` and `SocketsProofs`: poll handles and their batons, curl's timer, cleanup.
8. `Numbers`, `NumbersProofs` and `UpdateQuery`: ids, columns as text, the builder of the
   UPDATE.
9. `Generator` and `GeneratorProofs`.

Left:

* The two uncalled functions of the watcher, once the repository calls them.

## Running it

    tlc -config WatcherOverlap.cfg MCWatcher      # and likewise for the other runs
    tlc -config Sockets.cfg Sockets               # needs no MC module
    for m in Watcher Board Numbers Requests Sockets Lifecycle Migrate Generator; do
      tlapm ${m}Proofs.tla
    done
