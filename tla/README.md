# net_engine in TLA+

This directory specifies and verifies the concurrent core of net_engine: the
synchronisation primitives under its threads, the TCP server built on them, the
object pool behind its sockets, the byte streams of its connections at either
end, the threads of its stress client, and the lock-step game of the demo from
the server's threads to the Unity client's players.
Paths below are relative to `src/NetEngine/` unless they start with `src/`.

* [Inventory](#inventory): the parts of the system
* [Modules](#modules): what models what
* [Runs](#runs): what TLC checks, with which bounds
* [Fairness](#fairness)
* [Proofs](#proofs)
* [Findings](#findings)
* [What is not modelled](#what-is-not-modelled)
* [What could come next](#what-could-come-next)

## Inventory

| Component | State | Operations | Hard behaviour | Correct when |
|---|---|---|---|---|
| `Semaphore` (`Src/semaphore.*`) | `m_wait_ref`, `m_weakup_ref`, a mutex, a condition variable | `Wait`, `Weakup` | barging waits, spurious returns, notify_one picks any sleeper | it is a counting semaphore and loses no wakeup |
| `CellThreadService` (`Src/cell_thread.*`) | `m_isRun`, `m_mutex`, `m_sem`, three callbacks | `Start`, `Close`, `CloseWithoutWait`, `OnWork` | the worker is detached and joined through `m_sem`; the mutex is held while joining | `Close` returns, and then no worker is left |
| `CellTaskService` (`Src/cell_task.*`) | `m_taskBuff`, `m_taskPool` | `AddTask`, `Start`, `Close`, `OnRun` | unlocked reads of the buffer, final drain | tasks run once, in order, before `Close` returns |
| `ObjectPool` (`Src/object_pool.h`) | free list through the blocks, `m_ref` | `InitPool`, `Alloc`, `Free` | allocation and release by many threads in any order, heap blocks when the pool is empty | a block has one owner; no node is lost |
| `TCPServer` (`Src/tcp_server.*`) | `m_cells`, `m_sock`, `m_connCount` | `Start`, `Close`, `OnRun`, `Accept`, `AddClient2Cell`, events | cells are read without their locks | every accepted client is served once and closed in the end |
| `Cell` (`Src/cell.*`) | `m_clients`, `m_clientsBuff`, `m_fdReadBak`, `m_connDelta` | `Start`, `OnRun`, `AddClient`, `ReadData`, `Recv`, `OnClientExit`, `ClrClient`, `Close` | cached descriptor set, descriptors reused, select may fail | the cached set is never stale, hangups are noticed |
| `ClientSocket` (`Src/client_socket.*`) | descriptor, receive and send buffers | `Send`, `SendImm`, `GetPackageLength`, `CheckHeart` | partial sends, messages cut by the stream | the stream is a sequence of whole messages |
| lock-step `World` (`LockStepDemo/World.*`, `Player.*`) | `m_sessions`, `m_msgQueue`, frames, game state | `Tick`, `PushMsg`, `RegisterUser`, `DeleteUser`, handlers, `FrameTurn`, `Broadcast` | two threads and no lock; the queue points into a stack | every client gets the same frames |
| lock-step `Server` (`LockStepDemo/Server.*`, `LockStepServer.cpp`) | none | `OnJoin`, `OnExit`, `OnMessage`, main loop | runs on the cell's thread | see `World` |
| `MyServer`, `EasyTcpServer` | none | `OnMessage` replies | the reply is buffered and nothing flushes it | a reply is refused only when the buffer is full |
| `TCPClient`, `EasyTcpClient` (`Src/tcp_client.*`, `EasyTcpClient/client.cpp`) | `m_sock`, `m_isConn`; `g_clients`, `g_readyCount`, `g_runing` | `Conn`, `Send`, `OnRun`, `CloseSock`; `SendFunc`, `RecvFunc`, the start barrier, shutdown | two threads use one client without a lock; one deletes it | no thread touches another client's socket; all start, all end |
| Unity networking (`src/UnityLockStepDemo/Assets/Scripts/Net/`) | `m_readBuffer`, `m_getData`, `m_recievedMsgs` | `GetMsg` | a timer starts a callback every millisecond, whether or not the last one is done | the messages come out whole and in order |
| Unity game (`Main.cs`, `Player.cs`, `PlayerManager.cs` under `src/UnityLockStepDemo/Assets/Scripts/`) | `Player` objects, `m_allPlayer`, frame numbers | `OnLogin`, `OnSight`, `OnFrameInit`, `OnFrameTurn`, `Start`, `KeyPressEvent` | a message may come before the object it is for has started; one `Player` may stand for several users | bodies that the same frames have moved for the same users have moved by the same keys |
| `MemManager`, log, time, `CellNetwork`, protobuf, generated code | - | - | - | not part of the core |

How they interact:

```
 main thread -- Start/Close --> TCPServer --owns--> Cell 1..n --owns--> CellTaskService
                                    |                  |                     |
                                    +---- CellThreadService (one worker each)+--> Semaphore
 acceptor worker: accept -> AddClient2Cell -> Cell::AddClient -> m_clientsBuff
 cell worker:     m_clientsBuff -> m_clients -> select -> Recv -> OnMessage / OnExit
 lock-step demo:  cell worker -> World (RegisterUser, PushMsg, DeleteUser)
                  main thread -> World::Tick -> handlers, frames -> ClientSocket::SendImm
 ClientSocket:    allocated from ObjectPool by the acceptor, freed by whoever
                  drops the last shared_ptr, which also closes the descriptor
 stress client:   main -> SendFunc threads -> barrier -> RecvFunc threads, two on
                  each TCPClient
 Unity client:    timer callback GetMsg -> m_recievedMsgs -> Main.Update -> Player
```

The hazards of this code, each at its line and with the properties that cover it,
are listed in `PROJECT.json`. Where the code does what the hazard fears, and a model shows
it, no property can forbid it: the hazard then has a note, which names the property that says
what holds otherwise.

## Modules

| Module | Models | State and actions |
|---|---|---|
| `CountingSemaphore` | what a semaphore promises | `permits`, `waiting`; `Post`, `TakeNow`, `Block`, `Resume` |
| `Semaphore` | `Semaphore` | the two counters, and where each thread is in `m_cv.wait`. Both operations hold the mutex between two sleeps, so each such stretch is one action: `WaitThrough`, `WaitBarge`, `WaitSleep`; `WeakupAnswer`, `WeakupStore`; after a wake-up `Leave` or `SleepAgain`; `SpuriousWakeup` belongs to the condition variable |
| `CellThread` | `CellThreadService` | `m_isRun`, `m_mutex`, the semaphore (an instance of `CountingSemaphore`), and the place of each detached worker in `OnWork`. Owners do `Start`, `Close`, `CloseReturn`; a worker does `LeaveLoop`, or `SelectFails` and `CloseWithoutWait`, then `OnDestory`, `LastWeakup` |
| `CellTask` | `CellTaskService` | the two lists and the worker's place in `OnRun`; the unlocked `empty()` (`Peek`) and the locked move (`Move`) are separate actions, and so are the steps of the iterators |
| `BlockStore` | what an allocator promises | how many owners each block has |
| `ObjectPool` | `ObjectPool` | `m_header` and the `m_next`, `m_ref`, `m_inPool` of each block; `AllocNode`, `AllocHeap`, `FreeNode`, `FreeHeap` |
| `NetServer` | `TCPServer`, `Cell`, the life of `ClientSocket` | main thread, acceptor and one worker per cell, each with its place in the code; connections with the descriptor they hold. A thread's service appears as `isRun` and its worker's place |
| `MCNetServer` | | adds the symmetry of the descriptors |
| `NetServerProofs` | | theorems about `NetServer`, and about `ObjectPool`, which its `ClientSocket`s come from |
| `Framing` | `Cell::Recv`, the receive buffer of `ClientSocket`, `GetPackageLength` | the byte stream of one connection, the buffer with `m_lastPos`, and the place in `Recv`'s loop; a byte is `<<message, index>>`. `Recv` takes any part of the stream that fits, `Message` delivers one message and moves the rest, `Incomplete` and `RecvNothing` are the two ways out |
| `SendBuffer` | `ClientSocket::Send` and `SendImm`, `MyServer`'s reply | the first `m_lastSendPos` bytes of the buffer and the bytes on the wire; send takes all, some or none of what it is given |
| `ClientStream` | the Unity client's `GetMsg` over `IoBuffer` | `m_readBuffer` with its position and limit; `Receive`, `TakeMessage`, `Tear` |
| `MCStreams` | | the three ends of a stream side by side, for TLC |
| `EasyTcp` | `EasyTcpClient`, `TCPClient` | the place of every sending and receiving thread, its client, and what it holds in a register between the steps of `CloseSock` |
| `FrameServer` | what the lock-step server promises its clients | the log of frames, and to each connection a stream of messages; `Login`, `Sight`, `Take`, `CloseFrame`, `SendFrame` |
| `LockStep` | the Unity game | `FrameServer` behind a server that broadcasts session by session, and each client's `Player` objects with the frames they heard and ran |
| `World` | lock-step `World`, `Player`, `Server` | the cell's thread (`OnJoin`, `OnExit`, `OnMessage`, `SlotReused`) and the main thread's places in `Tick`. Every lookup, insertion, removal and iterator step on a shared container is one action |
| `CellThreadProofs` | | theorems about `CellThread` and `Semaphore` |
| `StreamsProofs` | | theorems about the three ends of a stream in `MCStreams` |
| `CellTaskProofs`, `EasyTcpProofs`, `WorldProofs`, `LockStepProofs` | | theorems about the module of that name |
| `InductionLemmas` | | induction over the numbers, and what it says of `FlattenSeq`, for those proofs |

Composition: `CellThread` uses `CountingSemaphore`, which `Semaphore` is proved to
implement. `CellTask` and `NetServer` use what `CellThread` shows: `Close` joins the
worker, except after the worker stopped its own service, and the two can wait for
each other. `World` uses what `NetServer` shows about connections: joined once, left
at most once, descriptors reused only after the last reference is gone; and what
`Framing` shows: the messages of a connection arrive whole and in order. `Framing` is what
`NetServer` abstracts to `RecvData`.

`World` implements `FrameServer` (`ImplementsFrameServer`): the frames are
`m_oldFrameInfo`, the frame to come is `m_curFrameInfo`, a connection's stream is what
was sent to it. `LockStep` composes `FrameServer`, and not `World`, with the clients, so
the clients are checked against the promise and the promise against the threads. What
`LockStep` takes about the stream between them, whole messages in order, is what
`SendBuffer` and `ClientStream` show, and its conditions (no short send, no torn or
overlapping turn of `GetMsg`) are conditions of `LockStep` too. Leaving is checked in
`World` only: `LockStep`'s connections stay.

The definitions named `Bug...` are variants of the definition below them with a
plausible mistake. No specification uses them; they record, for every property, a
mistake that breaks it (`mutants` in `PROJECT.json`).

Abstractions that a reader should know of:

* `m_isRun` is read without the mutex in `IsRun()`. The models read the current
  value. Every loop that reads it also sleeps, calls select or takes a lock, so the
  compiler cannot keep it in a register across rounds, and on the supported
  platforms a store becomes visible; a late view of it is one more round.
* Container operations that overlap without a lock (`World::m_msgQueue`,
  `m_sessions`; `Cell::m_clientsBuff.size()`; `CellTaskService::m_taskBuff.empty()`)
  are undefined behaviour in C++. The models make each operation indivisible and
  let them come in every order.
* A message in `World` is its type and, for a frame, the sender's uuid and one key
  (a fresh number). A client names the uuid it was given. The `MessageBody` a queued
  pointer points to is one variable, `slot`, because `Cell::Recv` builds every message
  in the same stack slot of the same thread.
* `DispatchCommand` reads the type of a message twice, from the slot as it is at that
  moment: `FindHandler` for the `find`, and after `GetUser`'s two lookups `CallHandler` for
  the handler that is called. A type without a handler is the value `junk`.
* `World`'s cell never fails its select: after a failure it would handle nothing more
  and drop its clients without an `OnExit`, which is `NetServer`'s subject.
* In `Framing` the number in a header that is not one may be anything up to the size of
  the buffer; a longer message never ends there. The buffer holds such a number only after
  a memmove has left bytes behind. `recv`
  returns what is left of the stream in any portions; the peer's hangup, which may
  come in the middle of a message, ends the stream where it is.
* `World` takes the 100 ms of `Tick` and everything the peers do as choices.
* `SendBuffer` is one call at a time: one thread sends on a socket. A short send stands
  for an error too, which takes nothing.
* In `NetServer` a connection's data is there or not. A peer that hangs up behind data is
  `leaving` until `recv` has returned the data, and only then do `select` and `recv` show the
  hangup.
* `ClientStream` takes no message whose length `CPacket` refuses: the exception leaves the
  buffer flipped, as a turn that finds no whole message does. It tells its story up to the first turn that finds no whole message, or the
  first two callbacks that overlap. Both really happen, and what the buffer holds after
  them is arbitrary: the buffer stays flipped in the one case, and two threads write it
  in the other.
* In `EasyTcp` a send, select or recv may fail at any time, and a send may end the
  process: the client does not call `CellNetwork::Init`, so SIGPIPE is not ignored.
  `CloseSock` is three steps, and the number its `close` gets is the one its test read
  or the one `m_sock` has by then, since two threads race on it. A thread that uses a
  deleted client is in the place `undefined` for good.
* In `LockStep` a `Player` carries, since the server last placed its body, which frame moved
  it for which users and how many `Player` objects ran that frame (`since`, `times`). After
  `OnSight` one of two clients has two `Player` objects (`Main.cs:88`), and each that runs
  a frame moves all bodies; `SameBodies` therefore compares bodies, of any two objects, and
  not clients.
* In `LockStep` the server may take a report of keys again or never, since it reads it
  from `World`'s slot. A body's place is the sequence of the keys it has moved by, and the
  server places bodies at the origin only, as `SetPlayerInfo` does.

## Runs

| Run | Instance | Checks |
|---|---|---|
| `semaphore` | 4 threads, at most 2 spare permits | answers never outnumber the threads on their way to take one (`NoLostWakeup`), and the class implements `CountingSemaphore`, safety and progress |
| `cell_thread` | 2 owners, 4 starts | `JoinBalance`, `ClosedMeansJoined`, `RunningIsServed`; a `Close` that does not return is in the deadlock `Stuck` and in nothing else (`CloseReturnsOrStuck`) |
| `cell_task` | 4 tasks, 2 lives | order, drain before `Close` returns, what a restart repeats, every task runs |
| `object_pool` | 4 nodes, 2 heap addresses | the free list is exactly the free nodes, the assertions hold, one owner per block |
| `net_server` | 2 cells, 3 connections, 3 descriptors (symmetric), 1 failing select | safety of the server: one place per connection, exact count, no use of destroyed cells except after a self-stop, no open socket after `Close` |
| `net_server_live` | 1 cell, 3 connections, 2 descriptors, 1 failing select | select gets exactly the clients' descriptors (`FdSetFresh`), accepted clients are joined, hangups noticed, `Close` returns, each with the one exception the failing select causes |
| `framing` | 3 messages of 3, 4, 7, 8 or 9 bytes, buffers of 8, headers of 2 + 1, 2 callbacks | each of the three ends of a stream. `Cell::Recv`: messages are delivered whole, in order and once (`Framed`) and as soon as they are there (`Prompt`), until a memmove leaves bytes behind; no message that fits ends the connection (`ExitJustified`). `ClientSocket`: what is sent is whole messages in order, and none is refused that fits, until send takes less than it is given (`SentWhole`). `GetMsg`: messages come out whole and in order, and no byte in between is lost, as long as every turn finds a message (`Unbroken`) |
| `framing_tail` | as `framing`, without messages of 7 bytes | violated: see [Findings](#findings) |
| `world` | 2 connections, 2 descriptors, 4 messages, 2 frames | sessions belong to their clients (`SessionOfClient`), messages are handled for their connection (`HandledForItsConnection`), keys are in exactly one frame (`KeysInOneFrame`), the sessions kill the process only through a phantom (`PhantomsKill`), and the server keeps `FrameServer`'s promise: unique uuids, and the frames of one log without a gap (`ImplementsFrameServer`) |
| `world_assertion` | 2 connections, 1 descriptor | violated: see [Findings](#findings) |
| `lock_step` | 2 clients, 3 frames, 1 key, 1 report taken | a `Player` waits for the frame that comes next (`InStep`), misses no frame but the first it hears and the one a late login announces (`MissedFrames`), and two bodies that the same frames have moved for the same users have moved by the same keys, as often if as many `Player` objects ran each frame (`SameBodies`) |
| `easy_tcp` | 2 pairs of threads, 2 clients each, 1 descriptor | no client loses its socket to another's `CloseSock` (`OwnSocket`), only a receiving thread uses a deleted client, and only at exit (`DeletedOnlyAtExit`), the threads all start (`AllStart`) and after exit all end, except those waiting at the barrier for one that exit made return (`ExitEnds`) |

Why the bounds are enough. `semaphore`: one waiter overtakes, one is overtaken, one
returns spuriously and one posts; two spare permits let two waits go through.
`cell_thread`: a worker that stopped by itself, one started after it, the Close that
uses the stale wakeup, and another start. `cell_task`: a batch of two, a task added
during it and one during the drain, and a restart. `net_server`: two cells
to choose between, a cell with two clients, a descriptor reused by the third
connection, and one self-stop, in the acceptor or in either cell. In `net_server_live` several
clients share the cell and a descriptor is reused while another is in the set; a
second cell would add nothing to what one client can wait for. `framing`: three messages
are one that goes, one behind it that may be cut, and a rest behind that; the sizes
are the smallest, one that lets a small one be followed by less than itself, one that
fills the buffer exactly, one that almost does and one that does not fit.
For the send buffer they are two that fill it together, one that fills it alone
and one that never fits. For `GetMsg` two callbacks can overlap, and
`CPacket`'s limit of 5 refuses a message that would fit the buffer, as its 65535 does.
`easy_tcp`: with one descriptor every second socket fails and every new one reuses a
number, which is what a double close could hit; two pairs meet at the barrier, and with
two clients a thread can be at another one than its partner. `lock_step`: a
login before the game, one during it, and three frames around it: one that is missed,
one that is first and one that shows who is in step; a key that moves a body shows which
bodies it moved.
`world`: two connections on two descriptors, one of which may be reused after an exit;
four messages are a login and a ready for each, or a login, a ready and two frames.

`CHECK_DEADLOCK FALSE` stands where the system may stop: a closed server or service,
all tasks run, every bounded input used up, a dead process, or the deadlock `Stuck`,
which is a property's subject.

## Fairness

All fairness is weak and says that a thread the operating system runs goes on:

* `Semaphore`: a woken thread gets the mutex in the end. Nobody has to call `Wait` or
  `Weakup`, and spurious returns are never relied on.
* `CellThread`, `CellTask`: a worker that can take a step does, and so does a `Close`
  that can return. Nobody has to call `Start` or `Close`; select does not have to fail.
* `NetServer`: the acceptor, every cell's worker, and the main thread once it is
  inside `Close`. Calling `Close`, a failing select, and the peers are not fair.
* `EasyTcp`: every sending and every receiving thread goes on, and their calls return.
  Nobody has to type exit, and main need not return.
* `World`, `LockStep`, `Framing`, `SendBuffer` and `ClientStream` have only safety
  properties.

## Proofs

`CellThreadProofs` has two parts, about `Semaphore` and about `CellThread`.
For every finite set of threads and every bound on the spare permits,
`SemaphoreSpec => [](SemTypeOK /\ CountExact /\ NoLostWakeup)` and
`SemaphoreSpec => ImplementsSafety`.
`NoLostWakeup` is not inductive without `CountExact`: a `Weakup` that finds nobody
asleep must know that the blocked threads are all on their way, which is what the
equation between counters and blocked threads gives. Each action's proof computes
the change of the two cardinalities from `FiniteSetTheorems`. The refinement maps
`permits` to the answers plus the spare permits, and `waiting` to the blocked threads;
`WaitBarge` becomes a `TakeNow` and `WaitSleep` a `Block`, for which `CountExact` shows
that there is, or is not, a permit.

For every finite set of owners and every number of starts,
`JoinBalance`, `ClosedMeansJoined`, `OneLoop` and `RunningIsServed`. The inductive
invariant `IInv` adds to `JoinBalance` that `waiting` is empty or the holder of
`m_mutex`, that workers come in the order they were started, and that a running
service has its newest worker in the loop. `ClosedMeansJoined` is the arithmetic of
`JoinBalance`: with the mutex free, the service stopped and no self-stop the right
side is 0, so no worker is live.

`CellTaskProofs`: for every number of tasks and lives, `InOrder`, `ClosedMeansDrained` and
`RepeatsOnlyDrained`. None is inductive. The invariant says where every added task is:
run, in the pool behind the iterator, or in the buffer (`CoverInv`); that no list holds a
task twice (`DistinctInv`); that what has run, the rest of the pool and the buffer are
consecutive numbers in one life (`OrderInv`), which is what makes the unlocked `empty()`
harmless: it can only postpone a move, never reorder one; and that a task in the buffer
that has run before was run by a drain (`RepeatInv`).

`NetServerProofs`: for every number of cells, connections, descriptors and failing
selects, all six safety properties of the two server runs. Its first four parts are about
them, each on top of the one before. `ThreadInv` orders the threads: the acceptor is gone
before the first cell goes, and a cell's service stops only by `~Cell` or by its own worker. `PlaceInv` gives each open connection one home and each descriptor one
connection; it shows that `m_clients[fd] = client` in `Join` never replaces a client, and
that no connection is left when `Close` returns. `FreshInv` says that the backup set is
that of the clients unless `m_connDelta` is set. `CountInv` counts: what joins was in no
cell's clients, what leaves was in one, and what a cell forgets moves from one side of
the sum to the other.

The fifth part of `NetServerProofs` is about `ObjectPool`: for every pool size and every
set of heap addresses, `FreeListExact`, `AssertsHold` and `ImplementsStore`. They need
that `m_header` is a free node, which the links alone do not keep true: after `AllocNode`
the header is whatever the old header's `m_next` was. The invariant `FreeList` therefore names the list as a sequence of nodes, `chain`, that is
exactly the free ones; `AllocNode` takes its first element off, `FreeNode` puts one before
it. `RefExact` adds that `m_ref` counts the owners and never exceeds 1, `KindExact` that
`m_inPool` tells a node from a heap block. `FreeListExact` follows the links with a
recursive function; that it comes by the elements of `chain` one after another and ends
with them is an induction over its length, and nothing about the steps of the pool.

`WorldProofs`: for every number of connections and descriptors, `SessionOfClient`,
`HandledForItsConnection` and `PhantomsKill`. The invariant holds `m_sessions` and
the joined clients together while the process is alive, and says that the front of the
queue, once read, is what the main thread handles: pushes go to the back.

`KeysInOneFrame` and `ImplementsFrameServer` rest on two more invariants on top of that
one, each with the help of those before it. `GameInv` has the users and the keys:
the counter of users is exactly their number, so the next uuid is new; what was taken
from a user is the keys of the closed frames, in order, and those of the frame to come.
`StreamInv` is about what was sent: each session has been told of the frame that is due to
it. Which frame that is depends on where `Broadcast` is: a session the iterator has yet
to reach is one frame behind those it has left. The refinement then goes action by
action. The steps of the queue, `GetUser`'s two lookups and the iterator's misses are
stutters; `HandleLogin` is a `Login`, a message of `Broadcast` is a `Sight` whose list
`FlattenOnes` shows to name each user once, or a `SendFrame` that `StreamInv` shows to be
the one expected.

`LockStepProofs`: for every number of clients, frames, keys and reports, the three
properties of the run `lock_step`, and `TypeOK`. None of the three is inductive: each
compares what a client has with what it has yet to be sent. The invariant `GameInv` says of a
stream that each `SCFrame` brings the frame due after the message about frames before it,
and that an `SCFrameInit` that announces frame 0 says so of the last frame too (`Fits`); of
each `Player` it says what the last such message that its client has handled told it
(`Told`): it misses no frame and waits for the one after it, or it was told to begin at a
frame, or has heard nothing. `InStep` is both together. `MissedFrames` is the history of
`Told` (`Missed`): a frame heard out of turn is the first one heard or the one that an
`SCFrameInit` announced, and it is not frame 0, for which the test of `OnFrameTurn` holds by
`Fits`. For `SameBodies` a body's moves are a function of the log and of what has moved it,
`since` and `times`, and their keys one of the log and `since` alone (`BodyOK`, `KeysOf`); the
keys that the client itself has pressed occur in neither. All this is stated of one stream, one log and one client's objects, so two
lemmas cover all actions: the server only makes streams and log longer
(`ServerStep`), and a client's step leaves everybody else alone (`ClientStep`).

`StreamsProofs`: for every number and size of messages, all sizes of buffers and
headers and every way to cut the stream, the five properties of the run `framing`. The
stream is one flattened sequence; `FlattenPlaces` gives what the proofs know of it: the
place where each message ends, and that its bytes and no others lie before that place.
`CellInv` says that `received` is the end of the last message delivered plus `m_lastPos`,
that the buffer holds the bytes of the stream behind that end, and that before a `recv`
they are fewer than a message. From this the header at the front is the next message's
(`HeaderFacts`), so `Lengths` has one element, and what is delivered is that message
(`BodyFacts`). `Prompt` and `ExitJustified` are its last part: less than a message is
pending, unless that message does not fit. `ClientInv` says the same of `GetMsg`,
with the bytes that a callback has received but not yet put, of which there is at most
one. `SocketInv` says that the wire and the buffer are together what was promised, that
the World leaves nothing in the buffer and `MyServer` sends nothing, and why the lost
messages did not fit.

`InductionLemmas`: the library's induction theorems take a predicate, which the provers
cannot instantiate. That every set of natural numbers has a least element needs none
(`LeastNat`), and with the set of the numbers that a formula holds for it is induction
(`UpTo`). A recursive function is to the provers whatever satisfies its equation;
`FlattensExists` and `FlattensUnique` show by `UpTo` that there is exactly one for
`FlattenSeq`. `FlattenAppend`, `FlattenOnes` and `FlattenPlaces` are what the proofs cite.

`EasyTcpProofs`: for every number of threads, clients and descriptors, `DeletedOnlyAtExit`
and `OwnSocket`. `DeletionInvariant` fixes the roles and the order of deletion: a client
is deleted by its sender, after the loop, from the first on. `OwnSocket` rests on the
barrier: as long as some thread still opens sockets none has passed the barrier, so
nobody is in `CloseSock`, and once somebody closes nothing is opened any more, so a
number that was closed stays closed.

The assumptions are those named in the modules (`SemaphoreAssumption`,
`CellThreadAssumption`, `CellTaskAssumption`, `ObjectPoolAssumption`, `NetServerAssumption`,
`WorldAssumption`, `LockStepAssumption`, `EasyTcpAssumption`, `FramingAssumption`,
`StreamsAssumption`): finite sets of threads, natural bounds, at least
one cell and one client per thread, messages that have at least a type and a receive
buffer that holds at least a header, and markers (a null pointer, an absent entry, a
closed descriptor) that are not one of the things they stand beside.

Only model-checked is what is outside the prover: liveness (`ImplementsProgress`,
`CloseReturnsOrStuck`, `TaskRuns`, `Served`, `ExitNoticed`, `CloseEnds`, `AllStart`,
`ExitEnds`). Every safety property of a passing run has its theorem.

## Findings

`world_assertion`: `World::GetUser` (`LockStepDemo/World.cpp:56`) looks a session up
twice, with `find` and with `operator[]`. When the cell's thread deletes the session
between the two, `operator[]` leaves an entry with an empty `PlayerPtr` for a descriptor
that is about to be reused. The next client on it makes `RegisterUser`'s
`assert(m_sessions.find(client->Sockfd()) == m_sessions.end())` (`World.cpp:85`) fail.
`PhantomsKill` of the run `world` says the rest: the assertion fails in no other way,
such an entry is also what an empty `PlayerPtr` in `Broadcast` or `SendLoginInfo` comes
from, and `DeleteUser`'s assertion never fails.

`framing_tail`: after a message of `body_size` bytes `Cell::Recv` (`Src/cell.cpp:274`) moves
`body_size` bytes to the front, not the bytes that remain, and sets `m_lastPos` to what
remains. When a small message is followed in the buffer by more bytes than it has, the
end of the buffer is then not the tail of the stream that `m_lastPos`'s comment
(`Src/client_socket.h:45`) says it is, and what is read from it is no message. The invariants
of `framing` show the other side: until that happens framing is exact.

Behaviour the models make precise, without a text in the repository that says
otherwise:

* `Close` and a worker whose select fails at the same time wait for each other for ever
  (`Stuck` in `CellThread` and `NetServer`; `Src/cell_thread.cpp:46`).
* A cell whose select failed keeps its place in `m_cells`, looks like the least loaded
  cell and swallows new clients (`Served`; `Src/cell.cpp:112`).
* After a self-stop a later `Close` may return while its worker runs, and `~Cell` may
  destroy a cell its worker still uses (`ClosedMeansJoined`, `NoWorkerInDestroyedCell`).
* A task service that is closed and started again repeats the tasks of the final drain
  (`RepeatsOnlyDrained`; `Src/cell_task.cpp:75`).

* `DispatchCommand` may call another handler than the one it looked up, or an empty
  `std::function`, which ends the process, because it reads the type again after `GetUser`
  (`CallHandler`; `LockStepDemo/World.cpp:73`).
* `OnSight` makes a second `Player` object for a user its client does not know, and a body is
  moved once for each object that runs the frame, so two clients show it at the same place
  only if as many ran it (`SameBodies`; `Main.cs:88`).
* After a short send the next message follows the part that was sent, and the receiver
  takes its bytes for a header (`SentWhole`; `Src/client_socket.cpp:79`). `MyServer`'s
  replies are never sent: they fill the buffer (`Src/my_server.cpp:41`).
* `GetMsg` loses what is pending when a turn finds no whole message, because it leaves the
  buffer flipped (`Unbroken`; `C_TcpClient.cs:265`).
* A client that logs in during the game does not run the first frame it is sent, as
  `OnFrameInit` waits for the last frame and not for the next (`MissedFrames`;
  `Player.cs:132`).
* In the stress client a receiving thread may use a client that its sender has deleted
  (`DeletedOnlyAtExit`; `EasyTcpClient/client.cpp:132`), and a thread may wait at the
  barrier for ever for one that exit made return early (`ExitEnds`; `client.cpp:96`).

## What is not modelled

The socket calls' own behaviour beyond success, failure and readiness; the log, the
clock and the statistics of `Time4Msg`; `Cell::WriteData`, `Cell::CheckTime`,
`AddSendTask`, `CheckSend` and `World::Broadcast_but`, which nothing calls; `MemManager`,
whose operators are commented out; what `TCPClient::Recv` cuts out of the bytes, as it is
only logged (the lengths it reads come from a buffer that nothing writes); the Unity
client's connecting and sending, one blocking call each, its menu and its drawing;
what an `Add` to `m_recievedMsgs` without the lock and a `RemoveAt` leave of the list
(`C_TcpClient.cs:277`); the overflow of `len + HEADER_LEN_BYTES` (`Src/client_socket.cpp:39`) for
a length near the largest `int`, which a buffer only holds after bytes were left behind;
generated and vendored code, which is most of the repository: the protobuf library
alone is all of `Src/google`. `CreateSock`, `Bind` and `Listen` run before any thread
exists. The `components` of `PROJECT.json` give the reason for each part.

Hazards without a property have a note in `PROJECT.json`. They are what a model shows the
code to do (a deadlock, a short send), what C++ leaves undefined (a torn `std::queue`), what the platform limits (`FD_SETSIZE`), what no caller
does (`Start(0)`), and where the code promises nothing to hold it to (`m_readyCount`).

## What could come next

* `World` with a cell whose select fails, composed with `NetServer` instead of its
  promise.
* `LockStep` with clients that leave and come back, once `OnSight` keeps one `Player` for
  each user.
