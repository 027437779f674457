# Verification of Remote-Monitior-CloudServer

The server accepts TCP connections of devices and phones, gives each one a
thread, finds the frames in its bytes, and answers them from a SQLite file:
devices come online, send heartbeats and publish samples; phones ask for the
last sample of a device and page through its history.  The modules in this
directory model that behaviour in TLA+, TLC checks small instances of them, and
TLAPS proves the central properties for every value of their constants.

Run `tlc -config ConnTable.cfg ConnTable` and so on; PROJECT.json lists all runs.
`tlapm ConnTable_proofs.tla`, and the same for the other six `_proofs` modules,
checks the proofs.

## 1. Inventory

| Component | Source | State | Operations |
|---|---|---|---|
| Connection table, accept loop | server.c, main.c | `s_scb[]`, `SocketUsed`, `mutex`, main's index; the kernel's descriptors | scan, accept, `connect_in`, `thread_socket`, `connect_out` |
| Client object | clientClass.c | one `clientClassTypedef` per thread: slot, socket, database handle, receive channel, history cache | `api_cc_init`, `api_cc_deinit` |
| Frame parser | proc.c | ring buffer, parser state, length, content, lock | `procInit`, `readSocket`, `getProc`, `makeAproc` |
| Dispatch and handlers | app.c | the client object | `app_process`, six `deal_*` handlers |
| History transfer | app.c, database.c | `pRecord`: buffer, place, numbers of packages and records | `deal_phone_query`, `deal_phone_follow_ack`, and every message that interrupts it |
| Device database | database.c | `TotalTable`, one child table per device, the static buffer `cmd_exec` | `api_init`, `api_deinit`, `api_dev_online`, `api_phone_online`, `api_devPublish`, `api_phoneQuery` |
| Test data, SQLite, build | database.c (`createDbForTest`), sqlite3*.h, Makefile | - | not modelled |

**How they interact.**  `main` scans `s_scb[]` for a free slot, accepts into it
and calls `connect_in`, which starts a detached thread.  The thread reads its
descriptor from the table, and `app_process` reads it again through
`api_cc_init`, which opens the database.  Then it alternates between `recv`,
which fills the ring, and `getProc`, which empties it; a complete frame locks the
channel, is dispatched on its control byte to a handler, and the channel is
unlocked.  The handlers call the database and `send` their answer.  When `recv`
fails or nothing arrives for 60 s (accepted sockets inherit the timeouts of the
listening one) the session frees its history buffer and closes the database, and
`connect_out` gives the slot back.  Threads share the table (partly under the
mutex), the file (under SQLite's lock) and the buffer `cmd_exec` (under nothing).

**What is hard.**

- *The whole.*  One process serves everybody: a kill, a crash, or SIGPIPE from a
  send on a reset connection ends all sessions.  A client gives up and reconnects
  while its former session still works through what it had received.  The result
  of `send` is ignored.
- *Table.*  main's scan is unlocked, the threads look their descriptor up twice
  and unlocked, the slot is freed before the descriptor is closed, and the
  counter lags behind the slots on both sides.  `pthread_create` may fail.
- *Database.*  A handler is several statements; other threads run in between, a
  statement may be refused up to 21 times, the process may be killed between two
  statements, and an error is printed in a way that kills it.  `CREATE TABLE` is
  composed in a buffer all threads share.  Ticks are written signed and compared
  unsigned.  Table names ignore letter case, the rows of TotalTable do not.
- *Parser.*  The ring has no check for room and indices that wrap; TCP cuts and joins frames; the state survives from call to call but
  the checksum's accumulator does not, and frames follow damaged ones.
- *History.*  A phone may send follow-acks at any time; queries, heartbeats and
  disconnections interrupt a transfer that owns heap memory.

**What makes each component correct.**  A slot belongs to one thread and a
descriptor to one slot; nothing is leaked; a free slot is offered.  What was
acknowledged is stored and found again, under the right device, also after a
restart; no error of one session hurts another one; every handler ends.  Every
intact frame is dispatched once, as sent, and nothing is written outside the
buffers.  The packages of a transfer are in order, complete, inside the buffer,
and its memory is freed exactly once; a package that `send` has lost shows as a gap in
the numbers.  An answer reaches the client that asked.

## 2. Modules

| Module | Models | Runs (section 3) | Proofs |
|---|---|---|---|
| `SlotPool` | what the table promises: a bounded pool of connections | through `ConnTable` | refined |
| `ConnTable` | server.c, main.c | `table` | `ConnTable_proofs` |
| `ReportStore` | what the database promises: a store of reports | through `DeviceStore`; part of `CloudServer` | refined |
| `DeviceStore` | database.c under concurrent threads | `store_*` | `DeviceStore_proofs` |
| `ByteQueue` | what the receive channel promises: a queue of bytes | through `RecvRing` | refined |
| `RecvRing` | the ring of proc.c and its indices | `ring` | `RecvRing_proofs` |
| `Framing` | `getProc` on top of that queue, and the dispatch | `framing_*` | `Framing_proofs` |
| `HistoryPaging` | a phone's history transfer | `history*` | `HistoryPaging_proofs` |
| `Session` | a phone, its session and the connection; extends `HistoryPaging` | `session` | `Session_proofs` |
| `CloudServer` | devices, table, sessions and database together; extends `ConnTable`, with `ReportStore` | `server` | `CloudServer_proofs` |

The layers meet at their abstractions: `RecvRing` implements the queue that
`Framing` parses; `Framing` delivers the messages that `Session` and
`CloudServer` start from; `DeviceStore` implements the `ReportStore` that
`CloudServer` uses; `HistoryPaging` is the state of `Session`, and `ConnTable` the
table of `CloudServer`.

The `MC...` modules hold the small values of the constants.  A definition whose
name has an underscore and a suffix after the name of another one
(`OutClear_ClosesFirst`) and whose comment begins with "mutant" is a plausible
bug: put in the place of that definition, it must break the property that PROJECT.json
names, for `Session` and `CloudServer` also where the definition is in the module
they extend.  No specification uses it.

### ConnTable

`s_scb`, `client_info`, `SocketUsed`, `mutex` are the variables of server.c (a
slot's address is only present or zeroed); `open` is the kernel's set of accepted
descriptors.  `mpc` and `s_scb_nbr` are main's place and index, and `tpc`, `tslot`,
`tfd`, `ccfd` each thread's place, argument, `socket_id` and `cc.socket`.  One
iteration of the scan is one step.  `connect_in`'s critical section is one step,
since everything in it is touched only under the mutex; `connect_out` is four
steps (`OutLock`, `OutClear`, `OutForget`, `OutClose`), because main watches
`socket_id` without the mutex.  `AppProcessReturns` stands for a whole session.
A failing `pthread_create` leaves the slot as it is, and `pthread_detach` of an
uninitialised id either does nothing or ends the process.

### DeviceStore

The file is `totalExists`, `total`, `tables` and `child`; a row is the online tick
and the last sample, a child table maps stored ticks to samples.  `pc` says which
statement a thread executes next, `cnt` how many retries it has left, `req` the
request, `res` its outcome.  `ackedOnline` and `ackedPublish` are history: what
was acknowledged.  Each SQL statement is one step: it takes effect (`Exec...`), is
refused because another connection holds a lock (`ExecBusy`), or fails
(`ExecFails`).  `PrintFirst` and `PrintSecond` are the two halves of the `snprintf`
into `cmd_exec`.  The step `Killed` may happen anywhere.  With `ENABLE_DBG`, as the
code is committed, a failed statement in `bsp_insert`, `bsp_find` or `bsp_change`
ends the process; without it the handlers return `FALSE` (but `api_devPublish`
ignores a failed UPDATE).  Identifiers are opaque; `Name` folds them the way
SQLite compares table names.

`ReportStore` has the reports, what each device shows, and which reports have been
acknowledged; a report can be added and acknowledged and never removed.
`DeviceStore` maps its child tables to the reports, the sample in `TotalTable` to what
is shown, and `ackedPublish` to what is acknowledged.  A device may go back to
showing zeros (`Register`), because two sessions that bring one device online may:
see section 3.

### HistoryPaging

`pRecord` is the cache of app.c, with the buffer's size for its pointer; `heap`
counts what the session has allocated; `frame` is the last history frame handed to
`send`.  Actions are messages, with everything that `app_process` does before the
handler (dropping an unfinished transfer) in the same step.

### Session

The phone is external: it sends a query, a follow-ack, a heartbeat or any other
message, reads what arrives, and goes away at any moment.  `toServer` and `toPhone`
are the two directions of the connection, at most `Window` messages each.  `Process`
is a turn of `app_process`: the message leaves the connection, `Handle` does to the
transfer what the handler does (the actions of `HistoryPaging`), and `Send` says
what becomes of the answer: it is on its way; it is lost, because the connection is
down, or full with answers the phone has not read for the 10 s of SO_SNDTIMEO; or it
ends the process, because nobody handles SIGPIPE.  A send that blocks until the phone
reads is a `Process` that comes after that.  `EndSession` is the end of the loop, with
the freeing of the transfer.  `asked`, `last`, `got` and `missed` are what the phone
knows: the packages it has asked for, the last one it has read, and the records and gaps
so far; `owed` is history, the history frames that are neither read nor lost.  An
`Orderly` phone asks only for packages of its transfer, as far ahead of what it has read
as it likes, and starts over when nothing is on its way; other phones send anything at
any time.

### CloudServer

`owner`, `alive` and `backlog` are the connections as the devices and the kernel see
them, `behind` is the connection behind each descriptor, `inbox` and `answer` are what
is on its way.  `job` is the message that a thread is handling: received, stored
(`Insert`), shown (`Change`), answered (`SendAnswer`); between these the other
threads, main and the devices run.  Everything a thread reads and writes goes
through `ccfd`, its own copy of the descriptor.  A device sends its reports in order,
tries the last one again or goes on to the next when its connection breaks; what it
sent before may still be handled later by the session of the old connection.  `Killed`,
or SIGPIPE in `SendAnswer`, ends the process, and `Restart` starts it with
`FreshTable` and the database as it was.  `excused` is history: the devices with two
sessions at once, or whose UPDATE has failed, of which only half of
`AckedReportsKept` holds.

### RecvRing

`buf`, `pRead`, `pWrite` and `isLocked` are the fields of `recvChannelfTypedef`; the
indices count modulo `IndexRange`, 2^16 in the program, and are reduced to the ring
only where they are used.  `ReadSocket` writes without looking at the read index,
and `NotFound` is the end of getProc's loop.  Which byte completes a frame is left
to `Framing`: here any byte may.  A channel that stays locked is abandoned; until
then the ring is a `ByteQueue`.

### Framing

`input` is what the ring holds (`RecvRing` shows that it is a queue), `wire` what TCP has in flight, `expected` the
intact messages not yet dispatched.  Each `case` of `getProc` is an action that
consumes one byte; `sum` is its local variable, zero at every call.  `ReadSocket`
takes any number of bytes.  `Unmatched` is the dispatch of a control byte without
a handler: the loop looks at 21 entries of a table of 6, so it may find nothing
(and leave the channel locked), call what it finds, or crash.

## 3. Runs

| Run | Bounds | What it shows |
|---|---|---|
| `table` | 2 slots, 3 descriptors, 3 threads | the table's invariants, `ImplementsPool`, `FreeSlotOffered` |
| `store_shared` | 2 threads, 2 devices, 1 retry | `ImplementsStore`, `AckedPublishFound`, `PhoneToldTruth` |
| `store_live` | 2 threads, 1 device, 2 retries, no debug prints | `HandlerEnds`, `AckedOnlineReady`, and `AckedPublishFound` where a failed UPDATE is acknowledged |
| `history` | the program's own sizes | all of `HistoryPaging` but `LastPackageCompletes` |
| `ring` | 4 places, indices of 8 values, up to 3 bytes per `recv` | `ImplementsQueue`, `DrainedBeforeRecv` |
| `framing_segments` | content of 3 bytes, segments up to 9 bytes | `ContentInBounds`, `DispatchedAsSent`, `EmptyFrameInert`, `NoneMissed`, `MessageDispatched` |
| `framing_bytewise` | one byte per `recv`; damaged frames, a control byte without a handler | `DispatchedAsSent` |
| `session` | the program's own sizes, an orderly phone that asks ahead, 2 queries, 2 messages in each direction | `PackagesArriveInOrder`, `HistoryArrivesWhole`, `NothingLeftBehind`, `AskedIsAnswered` |
| `server` | 1 device, 2 connections, slots, descriptors and threads, 2 reports | `AnswersToAsker`, `AckedReportsKept` |
| `history_multiple` | as `history` | finding: an exact multiple of a package |
| `store_torn_create` | as `store_shared` | finding: the shared buffer |
| `framing_stale_sum` | as `framing_segments`, damaged frames | finding: the sum is not reset |

**Why the bounds are enough.**  Two slots and a third thread and descriptor let a
slot be refilled while its former thread is still leaving, and the table be full
with a client waiting; the proofs cover every other size.  Two sessions are
enough for every race between two statements, and `cmd_exec` is torn by two.
The width of a tick is cut to one or two bits; what matters is which side of the
sign bit it is on; the runs stay below it (see below for what lies above).  `HistoryPaging` needs no scaling down.
In `RecvRing` the indices have twice as many values as the ring has places, as
they have 32 times as many in the program: they wrap in every run of eight bytes,
and the proof covers every size.  In `Session` two queries let one interrupt the
other.  The phone asks ahead of what it reads, so that a third answer finds the two
places of the connection taken and is lost while the connection is up; with results of
up to twelve packages one transfer loses several of them, apart or in a row, or the last
one, and the phone goes on behind each.  In
`CloudServer` one device with two connections is enough for every race between two
of its sessions, and for the reuse of slots, descriptors and threads, for which the
identity of the device does not matter; two reports tell an older one from a newer;
the proofs cover any number of each.
In `Framing`, content of up to three bytes, frames of up to eight and segments of
up to nine let a segment end anywhere in a frame and hold the end of one frame
and the head of the next; `WireMax` (bytes in flight when the client may send
more) and `ExpectedMax` (undispatched messages) bound the client.  `framing_segments`
leaves out damaged frames and a lone 0xa5, which make the parser miss the frame
behind them.  The proofs cover all other messages, sizes and ways to cut the stream.

**Fairness.**  `table`: main's own steps, and each thread's steps inside
`thread_socket` and `connect_out`, are weakly fair, as the kernel schedules
runnable threads; when `accept` returns and when a client ends its session is not
assumed.  The mutex needs no strong fairness: it is held for two assignments, and
the property holds although a thread may overtake main, because there are
finitely many threads in `connect_out` and no new ones while main waits.
`store_live`: a thread in a handler keeps running; nothing is assumed of messages,
kills or restarts.  `framing_segments`: the session's thread keeps running and TCP
delivers what was sent.  `session`: the session takes the messages that have arrived,
and a phone reads what arrives, sooner or later.  Nothing is assumed of `EndSession`, of
the phone's sending, or of which sends find room.  `server` checks safety only.

**Findings.**  Three runs end in a violation; PROJECT.json quotes the comment each one
contradicts.  A history whose length is a multiple of 20 records (and more than
one package) loses its last 20.  Two devices coming online together may leave one without
a table.  A damaged frame takes the next one in the same segment with it.

The models contain more divergences, which need no run of their own; each
shows when a constant or a definition is changed as said:

- with the debug prints compiled in, as they are, a statement that fails in
  `bsp_insert`, `bsp_find` or `bsp_change` takes the process down (`%s` with a
  character, database.c:189, 225, 242, 292): `Failed` goes to `"faulted"`;
- `api_dev_online` looks a device up and REPLACEs its row in two statements
  (database.c:373 and 384), although the comment at 395 promises an update of a known
  device: a second session of the device can wipe the last report.  `ReportStore`'s
  `Register` without the right to do so for a known device is violated;
- the row of a device with two sessions may show an older report than the last one
  acknowledged (database.c:463; database.c:8 says "上一次上报数据", the data last
  reported): without `excused`, `AckedReportsKept` fails;
- `pkgSent`, "已经返回的包数" (clientClass.h:15, the packages already returned), also
  counts packages whose `send` failed (app.c:288, 309), and no message asks for one
  again: without `missed`, `HistoryArrivesWhole` fails;
- a history frame does not say which query it answers: with `Orderly = FALSE`,
  `PackagesArriveInOrder` fails, since a phone that queries again while a follow-ack or
  a package of the transfer before is on its way takes that package for the new one's;
- a control byte without a handler may leave the channel locked for ever (app.c:384):
  with `Message <- WithUnknown` and
  `CHECK_DEADLOCK FALSE`, `MessageDispatched` fails;
- a frame of length 0 behind a damaged one is dispatched on the control byte of the
  damaged one (proc.c:121): with `Junk <- StraysAndDamaged`, `EmptyFrameInert` fails;
- reports with a tick of 2^31 or more are stored under a negative key (`%d`,
  database.c:175) and never found: add 1 to `Tick` in `DeviceStore_shared.cfg`,
  and `AckedPublishFound` fails;
- table names ignore letter case, so ids that differ in it only share a table: let
  `Name` map two devices to one, and `ImplementsStore` fails;
- a file that stays locked looks like an unknown device to a phone (database.c:444):
  with `ENABLE_DBG = FALSE`, `PhoneToldTruth` fails;
- a stray 0xa5 in front of a frame hides the frame (proc.c:94): add `<<H1>>` to
  `Strays`, and `NoneMissed` fails;
- when `pthread_create` fails (server.c:121) the slot stays occupied by a socket
  that nobody serves or closes: `CreateThreadFails` leaves it in `s_scb`.

## 4. Proofs

`ConnTable_proofs` proves every safety property of `table`, for any number
of slots, descriptors and threads, from `ConnTableAssumption` (at least one slot,
finitely many descriptors, -1 not among them).  None of the properties is
inductive alone.  `IInv` adds:

- `MutexInv`: while a thread is in `clear` or `forget` the mutex is held, and no
  second thread is there;
- `MainInv`: the slot main has filled belongs to no thread yet, and the slot main
  waits on in `accept` is free;
- `ForgetInv`: while a thread is about to zero a slot's address, nobody else holds
  that slot, except main before it has got the mutex.  This is why the unlocked
  scan is harmless;
- `OpenInv` and `FdInv`: which descriptors are open, and that those in the table
  and those about to be closed are all different.

`InitIInv` and `NextIInv` (one lemma per action) make it an invariant; the
theorems follow from it.  `CounterExact` needs cardinalities and so a second
invariant, `CountInv`, on top of the first.  `Refinement` maps the table to
`SlotPool`: `serving` is the set of descriptors in the table, `closing` those held
by departing threads; accept joins, the clearing of the slot leaves, `close`
closes, and all other steps stutter.  It uses `FdInv`, without which the clearing
of one slot might not take its descriptor out of `serving`.

`HistoryPaging_proofs` proves every property of `history`, for all sizes of
records, frames and results with at least one record per package and at most 255
packages (`HistoryPagingAssumption`; the packages are numbered in a byte).  The
invariant says of a live cache that it is between two packages: `pUpload` is the
packages sent times their size, at least one is left, and the last one begins
inside the buffer; the arithmetic is in `Division` and `Packages`.  `Completeness`
proves `OtherSizesComplete`, from a further invariant (`CompleteInv`) that ties the
last package to the end of the buffer: the finding `history_multiple` is the only
way in which a transfer can be incomplete.

`RecvRing_proofs` proves every property of `ring` for all sizes of the ring, of a recv
and of the indices, as long as the ring's size divides the number of index values and
a recv fits the ring (`RecvRingAssumption`; 2048 divides 65536).  Its `IInv` adds to the
types that the indices are equal whenever the session is at `recv` with the channel
unlocked, and never further apart than one recv.  The arithmetic is in lemmas about
`Advance`: two advances add up (`AdvanceTwice`), and bytes less than a ring apart lie in
different places (`OtherPlace`), for which the divisibility is needed.  `Refinement`
follows: a `recv` into the empty ring makes the unread bytes exactly what was
received (`UnreadReceived`), and a byte taken leaves the tail (`UnreadTaken`).

`DeviceStore_proofs` proves the type invariant, that acknowledged reports are found
again, and that the sessions implement the store of reports, for any number of
sessions, devices and retries, from `DeviceStoreAssumption` and `NoRowAssumption` (the
absent row is not a row).  `IInv` adds to the types:

- `RequestInv`: the place of a thread tells which request it executes, so that the
  UPDATE after the INSERT is that of the same report;
- `BufferInv`: a thread that executes the shared buffer has written to it;
- `StoredInv`: a thread before its UPDATE has stored its report;
- `AckedInv`: every acknowledged report is stored.

Every statement ends in one of three ways, and each has a lemma: the thread goes on to
its next statement (`GoesOn`), its handler returns (`GoesBack`), or the process is lost
(`Dies`).  What an action then has to show is that the file loses no report (`Grows`).
In `Refinement` the REPLACE is the store's `Register`, the INSERT into the child table
its `Store`, the UPDATE with which `api_devPublish` returns its `Finish`, and the return
after a failed UPDATE its `Acknowledge`; all other steps stutter.

`OnlineReady` and `ToldTruth` need three more invariants about what a thread has already
done for the device it serves: `RowInv` (an acknowledged device has a row, and so has
the one whose tick is updated), `TableInv` (a device has its table once its CREATE TABLE
has been executed) and `WholeInv` (the shared buffer holds what the thread has written
to it).

Four of the theorems have a hypothesis, and each is one that a finding or divergence of
section 3 shows to be needed: `AckedFound` and `ToldTruth` hold for ticks below the sign
bit (`TicksBelowSign`); `Refinement` if SQLite tells the names of different devices
apart (`NamesDiffer`); `ToldTruth` with the debug prints compiled in, as they are
(`ENABLE_DBG`); and `OnlineReady`, for any number of sessions and devices, in every
execution in which the shared buffer is not disturbed (`Undisturbed`): while a thread
composes CREATE TABLE for a device that has no table yet, no thread does so for another
device. For devices that have their table nothing is assumed. `Undisturbed` is a
condition on interleavings that nothing in database.c establishes; `store_torn_create`
shows the harm without it, and `OnlineReady` that there is no other.
`ReadyUndisturbed` says it of any set of devices: those whose own CREATE TABLE is not
disturbed are ready, whatever happens to the others.

`Framing_proofs` proves every safety property of the `framing_*` runs for all messages,
sizes of `contentBuf`, segments and bounds. `ParserTypeCorrect` and `BoundsKept` assume
nothing of what clients send (`SafeInv`). The others compare what the parser finds with
what was sent. `Items` are what clients send, each with the message in it if it has one,
and `Streams` is the least set of pairs of bytes and messages that holds the empty pair
and is closed under putting an item in front (`LeastStreams` is its induction rule).
`ParseInv` says that the bytes to come, with what getProc has already consumed of an
item put in front (`Pending`), are a stream whose messages are `expected`. One lemma
per state of getProc shows that a byte consumed moves `Pending` on by one. `CallInv`
says that `sum` is 0 in front of every checksum, which is where a damaged frame in the
same segment would break the argument. The checksum is a fold; that folds of the same
bytes agree, and stay in a byte, is an induction over the numbers, stated of sets of
numbers (`AllNumbers`) because that needs no operator as a parameter. `EmptyInv`
(contentBuf starts with 0 between frames) gives `InertFrames`. `OpenInv` (the channel
is locked only while a handler runs) turns the invariant into `AllDispatched`; it needs
`KnownInv`: behind a damaged frame an empty one is dispatched on the damaged one's
control byte.

The hypotheses are about the clients. `WholeDispatch` assumes that what clients send
besides messages is stray bytes, that is, bytes behind which getProc looks for a head
again; or also damaged frames, if every recv returns one byte (`Undisturbed`).
`AllDispatched` assumes the same, and that every control byte has a handler
(`AllKnown`), and `InertFrames` that no frame is damaged (`Undamaged`). Section 3 has a
violation for each of them left out: `framing_stale_sum`, the lone 0xa5, the unknown
control byte, the frame of length 0. That the values of `framing_segments` satisfy all
of them, and those of `framing_bytewise` `Undisturbed`, is an ASSUME of `MCFraming`,
which TLC evaluates.

`Session_proofs` begins with `RunsTransfer`: every step of a session with its phone is a
step of `HistoryPaging` or changes nothing of the transfer. So the theorems about the
transfer hold in a session, and the invariants of this module only relate the transfer
to the connection. `NoLeakAtEnd` needs that a session that is over has cleared its
cache (`OverInv`); it holds for every phone. `ArriveInOrder` and `ArrivesWhole` are
about an `Orderly` phone, any sizes and any `Window`, however far it asks ahead and
whichever packages `send` loses. Their invariant is `OrderlyInv`:

- `RequestInv`: which requests may be on their way, given what the phone has read;
- `AnswerInv`: the history frames on their way are of the phone's transfer, each in the
  place its number says, with growing numbers, all above that of `last`;
- `AgreeInv`: the session's cache is in the transfer the phone asks for, and not behind
  the frames on their way. Lost packages move it ahead, never into another transfer;
- `ReadInv`: the records read and the packages missed add up to the place of `last`.

`CloudServer_proofs` starts from the invariant of `ConnTable`. Not all of it survives a
process that ends in the middle of a step, so `TableInv` has its safety properties
unconditionally (`TableSurvives`) and the whole of it while the process lives.
`AnswersReachAsker` and `AckedKept` follow from `ServerInv`, which adds

- `JobInv`: a thread's job is for the connection behind its own descriptor, also after
  its slot has been refilled;
- `UseInv`: a device uses one connection at a time, and unless it is `excused` no session of an
  earlier one is still at work;
- `OnePlace`: a report is on its way, or handled by one thread, or answered, never two of
  these;
- `CurrentInv`: a report that nothing can overtake is the last one its device has sent;
- `PromiseInv` and `StepInv`: what a thread has stored is stored, and what is
  acknowledged is stored, and shown or followed by a newer report.

Every safety invariant and action property of a passing run is proved, and so are the
refinements of `ConnTable`, `DeviceStore` and `RecvRing`. Liveness (`FreeSlotOffered`,
`HandlerEnds`, `MessageDispatched`, `AskedIsAnswered`) is
model-checked only: the prover does not treat fairness. The three findings are
counterexamples of TLC.

## 5. Not modelled

Socket set-up, the debug prints (except what the failing ones do), the values in a
sample, SQLite's inside and its memory, `createDbForTest`, the timeouts as durations
(they are the ends of sessions and the lost sends), failing `malloc` and
`sqlite3_open`, frames of which `send` took only a part (they count as lost).  The
handlers' length checks are seen by their effect: a message of the wrong length is
one that no handler acts on.  Of the repository's 14497 lines, 12827 are SQLite's
vendored headers, which hold no behaviour: what is modelled is most of the other 1670.

## 6. Plan

1. Done: all modules model-checked; every safety property of the passing runs, and the
   three refinements, proved.
2. Done: `AckedOnlineReady` for any number of sessions and devices, in every execution
   that does not disturb the shared buffer; the transfer of a phone that asks ahead,
   with packages lost on a live connection.
