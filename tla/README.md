# cpp-shared in TLA+

A verification development of `src/`: TLA+ modules translated from the C++
source, configurations that TLC checks them with, and theorems that TLAPS proves
for every value of the constants.

The repository is a set of small header-only C++ components (`src/src`) and a
TCP server and client built in the same style (`src/tcpserver/src`). What its
parts have in common is hand-written concurrency: a state word, a queue or a
map, a mutex and a condition variable, threads that are started, told to stop
and joined. That is where the code can go wrong in ways its tests (`src/test`,
whose `main` calls none of them) do not reach, and what this project is about.

Paths below are relative to `src/`.

## 1. Inventory

| Component | Source | State | Operations | Talks to |
|---|---|---|---|---|
| Pipeline | `src/pipeline.hpp` | `state`, `dataQueue`, `mapper`, 4 threads | registerHandler, dispatch, start, stop, impl (the loop) | callers on any thread; handlers |
| ObjectPool | `tcpserver/src/tcpserver.h` | list `pool`, mutex | get, push, clear | both threads of the server |
| Server daemon | `tcpserver/src/{tcpserver,serverd,serverhandler}.cpp` | `clients`, `fdset`, `dataQueue`, `state`, `isRunning`, router | start/init, run, process, stop, getClient, broadcast, TcpServer_Show | kernel sockets, ObjectPool, a signal handler |
| Socket (server) | `tcpserver/src/socket.hpp` | `fd`, host, port | tcp, bindTo, listening, accepting, sendMessage, recvMessage, destroy | kernel |
| TcpClient (client daemon) | `tcpserver/src/{tcpclient,clientd,clienthandler}.cpp` | `isRunning`, socket, one thread | connectTo, start, run, stop, send loop of main | kernel sockets |
| LazyFSM | `src/LazyFsm.h` | `status`, `currentEventID`, `events`, one thread | registerEvent, setEvent, start, stop, run, transit | callers on any thread; actions |
| LazyAllocator | `src/LazyAlloctor.hpp` | multimap `container` | pop, push, clear | callers on any thread |
| tcppipe: Select | `src/tcppipe.hpp` | `socketMap`, `isRunning`, two threads | AbstractServer::start, run, receive, the destructors | kernel sockets |
| tcppipe: Epoll, TcpServer | `src/tcppipe.hpp` | `socketMap`, `fd2Socket`, epoll set, `isRunning`, one thread | AbstractServer::start, TcpServer::run, Epoll::run, receive, the destructor | kernel sockets, every TcpPipe of the program |
| tcppipe: TcpClient, TcpPipe | `src/tcppipe.hpp` | socket, `isRunning`, one thread | connectHost, send/push, receive, destructor | kernel, server |
| Protocol | `src/tcppipe.hpp` | none | build, parse | TcpClient::send |
| Buffer | `src/buffer.hpp` | two halves, their lengths | write (appends or swaps) | none |
| Singleton, SpinLock | `src/singleton.hpp`, `src/spinlock.h` | shared_ptr, mutex; atomic flag | instance; lock, unlock | callers on any thread |
| Subject, Observer | `src/observer.hpp` | vector of observers | attach, detach, notify | observers, which call back |
| Factory, Interfaces | `src/factory.hpp`, `src/interface.hpp` | maps from names | registerType, get; registerMethod, invoke | registrars, callers |
| PluginLoader | `src/pluginloader.h` | library handle | open, close, parse, destructor (two platforms) | dynamic linker |
| Log | `src/log.hpp`, `src/logger.hpp` | `on`, mutex, the struct of localtime | write, show, clear | files, clock, callers on any thread |
| Samples, tests | `test/*.cpp`, `testplugin/*` | the static `impl` of libanimal | Animal, its five functions; the test functions | the headers |

### Where the components are hard, and what makes them correct

* **Pipeline**: several workers wait on one condition variable, the owner's
  `stop()` spins over stores of `STATE_TERMINATE`. Correct: a work queue (each
  item once, in order), `front()` only on a queue with items, no item behind
  `STATE_IDEL`, no lost wakeup, `stop()` gets the threads out.
* **ObjectPool**: correct if no packet is handed out while somebody has it, and
  the list stays bounded.
* **Server daemon**: `run()` sweeps a map that it edits, with descriptors it
  closes; `process()` looks clients up in the same map without a lock; a signal
  handler runs `stop()` on top of either thread, with whatever mutex the
  interrupted code holds. Correct: select never sees a closed descriptor,
  clients of the table are watched and the watched ones are in the table, queued
  packets are handled, packets are never shared, `stop()` ends.
* **LazyFSM**: `stop()` joins under the mutex its thread needs; `start()`,
  `stop()` and `setEvent` decide by a status word. Correct: no lost wakeup, the
  thread only executes registered events and follows the table, start creates
  the thread, stop returns.
* **LazyAllocator**: an unlocked test before a locked insertion, and rounding in
  `std::size_t`. Correct: bounded container, blocks long enough.
* **TcpClient** (daemon): a thread that blocks in `recv` against a `stop()` that
  joins it; a signal on either thread. Correct: it ends by `stop()` only, never
  reads a closed descriptor, and `stop()` returns.
* **Send loops**: `sendMessage` computes what to offer the kernel next, in two
  ways, near the end of the data. Correct: they offer something, stay near the
  data, and report what was sent.
* **tcppipe servers**: a map filled on one thread and walked on another
  (Select); two tables, an epoll set and reused descriptor numbers (Epoll);
  `start()` and `run()` called by every TcpPipe on one static server. Correct:
  an event finds its Socket, messages are read, one client's end concerns no
  other.
* **tcppipe client**: a destructor that joins a thread in `recv`, or no thread.
* **Subject**: observers call attach and detach from inside `notify()`, under
  the loop's iterators, and may be destroyed while they are attached. Correct: who
  stays attached is told once, nobody who is gone is called.
* **Singleton**: a test of a `shared_ptr` outside the lock, next to its
  assignment. Correct: one object, and it lives as long as somebody has it.
* **Buffer, Protocol**: pure data paths. Correct: what goes in comes out, whole
  and in order.
* **PluginLoader, Animals**: a handle, the linker's count of references and one
  static object of the library. Correct: the handle is there while the library
  is.
* **Factory, Interfaces**: tables of pointers whose lookups insert. Correct: a
  name leads to what was registered under it last.
* **Log**: the time of a line comes from a struct that all threads share.
  Correct: a line has its own time, and the file's times go up.

## 2. The modules

| Module | Models | Kind |
|---|---|---|
| `WorkQueue` | what a queue served by threads promises | abstract specification |
| `Pipeline` | `pipeline.hpp`, implements `WorkQueue` | component |
| `PipelineProofs` | theorems about `Pipeline` | proofs |
| `ObjectPool` | `ObjectPool` and its clients' contract | component, and the abstract pool of `TcpServer` |
| `ObjectPoolProofs` | theorems about it, and so about every client that keeps its contract | proofs |
| `Sockets`, `SocketsProofs` | kernel and peers, as seen through `Socket`; lemmas for the three servers | environment, proofs |
| `TcpServer` | the server daemon, composed of `Sockets` (EXTENDS) and `ObjectPool` (INSTANCE) | composition |
| `TcpServerProofs` | theorems about it, the refinement of the pool among them | proofs |
| `Connection` | the variables that the two clients have alike | declarations |
| `TcpClient` | the client daemon, with `main` of `clientd.cpp` | component |
| `SendLoop` | both `sendMessage` loops | component |
| `SelectServer`, `SelectServerProofs` | class Select over `Sockets` (EXTENDS), and theorems | component, proofs |
| `EpollServer`, `EpollServerProofs` | class Epoll under TcpServer and TcpPipe, over `Sockets` (EXTENDS), and theorems | component, proofs |
| `PipeClient` | the client of a TcpPipe | component |
| `LazyFSM` | `LazyFsm.h` | component |
| `ThreadProofs` | theorems about the three classes that own one thread: `LazyFSM`, `TcpClient`, `PipeClient` | proofs |
| `LazyAllocator` | `LazyAlloctor.hpp` | component |
| `Observer` | Subject and its observers | component |
| `Singleton` | `singleton.hpp`, and its callers' copies | component |
| `Buffer` | `buffer.hpp` | component |
| `Protocol` | build and parse of `tcppipe.hpp` as operators, and `send` to a destination | operators over bounded inputs |
| `PluginLoader` | `pluginloader.h`, both platforms, over the linker | component |
| `Animals` | class Animal of `testplugin` and its library | component |
| `Registries` | Factory and Interfaces | component |
| `Log` | class Log and class LogWriter | component |
| `MCLifetimes` | `ObjectPool`, `Observer`, `PluginLoader`, `Animals`, `Registries` side by side | instance |
| `MCShared` | `LazyAllocator`, `Singleton`, `Log` side by side | instance |
| `MCBytes` | `SendLoop`, `Buffer`, `Protocol` side by side | instance |
| `PartsProofs` | theorems about the components of these three instances | proofs |
| `MCTestInvoke` | `test_invoke` of `test/main.cpp` over `Registries` | instance |
| `MCPipeline`, `MCTcpServer`, `MCLazyFSM` | model values, symmetry, tables | instances |

Operators marked `Broken variant of A` belong to no specification. They are the
mutants of `PROJECT.json`: with the variant in A's place, TLC must find the
named property violated.

The small components share nothing with each other. Where three or five of them
are checked in one run, its MC module instantiates each, and a variable (`part`,
`sharedPart`, `bytesPart`) says which one a behaviour is about: that one takes its steps, the others rest
in an initial state. What TLC explores is the union of their state spaces, never
the product.

### Pipeline

`state`, `queue`, `mapper` are the members; `pc[w]` is where worker `w` is in
`impl()`, `value[w]` its local item; `owner` is where the owning thread is in
`start()` or `stop()`. A critical section is one action. Reads of `state`
outside the mutex (`start`, the loop condition of `stop`) are actions of their
own. `Start` and `Spawn` are separate, because the threads run as they are
created. `condit.wait` is `Sleep` / `SpuriousWake` / the notifications, and
`notify_one` picks any waiting worker. `finished` and `passes` are history:
items done, and stores of `STATE_TERMINATE` in the current `stop()`.

### ObjectPool

`Fetch` and `Recycle` are `get()` and `push()` on the list and the heap; `held`
is the clients' side. `Forget` is there because `run()` really loses packets.

### Sockets and TcpServer

A connection number stands for the descriptor and for the `Socket` object that
`accept` gave; numbers are not reused. A peer is the string `ip:port`, which is
the key of `clients`; keys are numbers so that the map has its order. `remote`
is the far end, `unread` the messages in the receive buffer, `sockets` the
connections whose `fd` is not -1.

The main thread (`ioPc`) goes through `run()`: `Select`, `Accept`, `Admit`, then
the sweep of the map with the iterator `it`. It keeps the queue's mutex over
`IoLocks`/`IoPushes` and the pool's over `IoLocksPool`/`IoGets`, since the
handler may interrupt it in between. `processThread` (`wkPc`) goes through
`process()`: check, wait with a deadline, take, handle (`WkIgnores`, `WkShows`,
`WkCrashes`), send, recycle. `SignalIo` and `SignalWk` are the signal on one
thread or the other; `sig` is where `stop()` is, and the main thread stands
still while it runs.

`SecondSignal` is a second one, on top of the first handler, of `run()` or of
`process()`. It finds `isRunning` at 0, so it neither joins nor closes anything
and goes to the queue: `second` says on which thread it is, `SecondDrains` is
its loop, and `SecondRaces` is its loop next to the other thread's pop, after
which nothing is defined (`proc = "lost"`), like the `front()` of an empty queue
(`WkTakesNothing`). When it interrupts code that holds the pool's mutex, it
waits there for ever (`poolMutex = "below"`).

What the source leaves undefined is a choice of the model: `it++` after `erase`
returned `end()` (the library walks to the rightmost node or its child, or never
ends on an empty tree), `getClient` next to an insertion or an erase (a miss, a
hit or a crash), and the `memset` of 1024 bytes over the 954 of `packet->data`
(nothing, another packet's header, or a crash).

### LazyFSM

`status`, `currentEventID` and `events` are the members, `pc` is the thread.
`run()` keeps the mutex from the end of its wait through the action, so `mutex`
is a variable. `currentEventID` starts as any id: the member is uninitialised
and `start()` makes the machine ready before `setEvent` assigns it. `StopLoop`
is the store under the lock and the join after it; the join's branch is never
taken, which is what `StopNeverReturns` says.

### LazyAllocator

`where`, `length`, `asked`, `key` say of each block where it is, how long it was
made, for which size it was last popped and under which it is filed. `push` is
`PushTests` (outside the lock) and `PushFiles` (under it). `Round` works modulo
`Width`, the size of `std::size_t`.

### TcpClient

`main` walks `main()` and the `stop()` at its end, `rx` walks `run()`.
`signalled` is the flag of `clientd.cpp`, `isRunning` the member. A signal is
`SignalMain`, or `SignalRx` when it interrupts the `recv` of the other thread
(the handlers are set without `SA_RESTART`); both may come again and again.
`RxIsEmpty` is a `recv` of 0 bytes from a closed connection, which comes back at
once. A send to a server that is gone may kill the process (`SIGPIPE`).

### SendLoop

One behaviour is one call: `packet` is the loop of `tcpserver/src/socket.hpp`,
`string` the one of `src/tcppipe.hpp`, which stands there twice. `pos` is what
the kernel took, `past` (history) the end of the furthest range it was offered:
where it exceeds `size`, memory behind the data was read. `Room` is `bufLen`. A
send that fails changes nothing in the packet loop, so it is a stutter; in the
string loop it is `StringEnds` before the end.

### SelectServer

`ac` is `Select::run` on `ioThread` and `rx` is `Select::receive` on
`recvThread`; `socketMap` maps a peer (its name) to a connection, whose Socket
is open while it is in `sockets` of `Sockets`. Between accept and insert
(`InFlux`) the tree may be rebalanced under the walk: the walk goes on anywhere,
or ends the process (`RxCrashes`). Select is the Windows build's server; a
select on the descriptor of a destroyed Socket fails there, which is `RxFails`.
`user` is the program: in `start()` (`tcp`, `bind`) and `run()` of the static
server, once per TcpPipe, and at its end, where `~TcpServer` joins `ioThread`,
`~Select` stores `isRunning` and joins `recvThread`, and `~AbstractServer`
destroys the sockets.

`start()` and `run()` ask `isRunning` only, which `ioThread` sets later. A
second TcpPipe that comes before gives the member `socket` a new socket under
the thread's feet, and its `run()` assigns over a joinable thread, which ends
the process; `raced` is the history of that. So the sockets of `start()` have
names: `socket` is the member, `listens` are those that listen, the forgotten
ones included (`SO_REUSEADDR` lets two listen on the port), `via` says in whose
queue a connection waits, and `asked` is the one that `ioThread` called `select`
or `accept` on (`AcSelects`, `AcFails`, `AcWakes`, `AcAccepts`, `AcMisses`).

### EpollServer

Descriptor numbers matter here, so `file` says what each number is open on, and
`NewFd` is the lowest free one. `user` is the program in `start()` or `run()` of
the static server, once per TcpPipe; `io` is `ioThread` in `Epoll::run`; `batch`
is what of `eventList` is still to be handled. `IoAccepts` and `IoReceives` are
one event each. `reset` marks connections whose events carry more than
`EPOLLIN`. `raced` is history: a later TcpPipe did not see the first one's
`isRunning`. The Linux branch of `tcppipe.hpp` does not compile as it stands
(`OK` for `TCPPIPE_OK`, base members in a constructor's initialisers); the
control is read as written. `ExitBegins`, `ExitThrows` and `ExitJoins` are the
destructors of the static server at the program's end: `~TcpServer` joins a
thread or throws, and `~AbstractServer` then destroys every socket of
`socketMap`, also those whose client is there. The process has no other open
files than the server's: the numbers run out by connections and by the sockets
that racing calls of `start()` forget.

### PipeClient

`user` is the program with its TcpPipe, `rx` is `receive()`. `server` is the
far end: `own`, the Epoll server of the same program, which by `Epoll::receive`
sends nothing and closes a connection only when it was closed at the other end,
or when the program ends, after its TcpPipes, or `other`. `isRunning` starts with any value: no constructor sets it.

### Observer

`slots` is the storage of the vector and `size` its length; `erase` shifts down
and leaves the last slot as it was, `push_back` moves to new storage when the
old one is full. `at` and `end` are the two iterators of the loop in `notify()`:
they are not renewed when the vector changes, so `at` may pass the new end and
read stale slots, and `moved` says that they point into storage that is freed.
`stayed` (history) are the observers that were attached once, before the walk
and during all of it: what a walk owes is owed to them.

`Destroy` may take an observer at any time, attached or not: `~Observer()` is
empty, and `test_observer` of `test/main.cpp` ends with three destroyed
observers in the list of a `Singleton<Subject>`. `Dangling` are the places of
such entries, and a `notify()` that comes to one crashes.

### Singleton

The `shared_ptr` is two words; its assignment stores them in either order
(`Assigns`), next to threads that test the object outside the lock (`Tests`) and
copy both (`Copies`). A copy that lacks the counter is no owner. `Owners` are
those the counter knows, `ptr` among them until the program ends (`Exits`).

### Buffer, Protocol

A half of `Buffer` is the sequence of the numbers of the writes in it; `past` is
how far a `memcpy` went behind the half. In `Protocol` a string is a sequence of
tokens: commas (`"comma"`), the field words that `find` looks for, and anything else.
`Build` and `Parse` are operators; `Send` and `Receive` apply them to every
destination and data of the bound.

### PluginLoader, Animals

`refs` is the linker's count, `handle` the member. `dlclose` answers 0 when it
was granted and `FreeLibrary` anything but 0, and both classes test for `ret !=
0`: `CloseElsewhere` and `CloseOnWindows` are what comes of it. `Animals`
abstracts the loader to who has a handle, and adds the one static `impl` of the
library, which every constructor makes and every destructor deletes. `exports`
are the functions that the library has: the shipped one has all four, as
`lib/animal.h` declares them `extern "C"`; with one missing, its pointer is null
and the call of it is fatal.

### Registries

Registrars live at addresses that are used again (`there`, `standing`); the map
of Factory keeps the pointer of one that is gone. A name that is unknown gets a
null entry by `operator[]`, and the call on it is fatal. `invoke` casts the
method to the caller's signature: with another one it runs wrongly, or crashes.
`MCTestInvoke` walks through the calls of `test_invoke` in their order.

### Log

`tm` is the static struct of `localtime`; a call takes the clock (`Clock`),
fills the struct (`Localtime`), reads it (`Formats`) and appends (`Files`).
`writer` chooses the class: LogWriter's `write` holds the mutex from its first
step, Log's only around the file, and LogWriter's `show` never.

## 3. The runs

| Run | Question | Instance |
|---|---|---|
| `pipeline` | Is it a work queue, does its state tell the truth, are accepted items served, what does one store of `STATE_TERMINATE` do? | 4 workers as in the code, 2 items, one of a type that may be registered or not, fairness |
| `server` | Do select's set, the table, the queue and the pool stay consistent under two signals? | 2 peers, 3 connections, 3 packets, 1 unread message |
| `server_live` | Are queued packets taken, does `stop()` end the process? | 1 peer, 2 connections, 3 packets, two signals |
| `fsm` | Lost wakeups, the table, start and stop | 5 events in a cycle with a branch and an exit from the table |
| `client` | Does the client stop, and what does it take for its thread to end? | 2 unread messages, any number of signals |
| `select_server` | What ends the accept thread and the receive thread, is what arrives read, does the program end? | 2 TcpPipes, 3 peers, 3 connections, `FD_SETSIZE` 1 |
| `epoll_server` | Do events find their Sockets, is what arrives read, who closes first, what kills the process? | 2 TcpPipes, 2 peers, 3 connections, 4 numbers |
| `pipe_client` | Can a TcpPipe be destroyed? | 8 unread messages, both kinds of server |
| `lifetimes` | Who holds a pointer to what is gone, or keeps what nobody will use? | pool: 5 packets, limit 2; 3 observers, 4 slots, 2 walks; 3 opens; 3 Animals over a library with any of its functions; 2 names, types, signatures and addresses |
| `shared` | What does the step outside the lock cost? | allocator: 2 threads, 4 blocks, capacity 2, granule 4, 16 values of `size_t`; singleton: 3 threads; log: 2 threads, 3 times, 3 lines |
| `bytes` | What is lost, read past the end, or misread? | send loops: buffer of 6, sizes 0 to 17; Buffer: capacities to 4, 9 writes of up to 3; Protocol: 2 strings of up to 3 of 4 tokens |
| `test_invoke` | Does `test_invoke` run its methods as they were registered? | the six calls of the test; it does not |

**What they show.** These results are worth a reader's attention; each is stated
as a property that holds of the code as it is.

* `Pipeline::stop()` leaves its loop at the first `STATE_NONE` a worker stores
  (`OneExitPerPass`): with four workers it may reach the joins with sleeping
  ones left, who never leave (`NobodyLeavesDuringJoin`). Only a stop that
  happens to store `STATE_TERMINATE` four times returns.
* `LazyFSM::stop()` and the destructor never return once the thread was started
  (`StopNeverReturns`). An event set before `start()` leaves the machine without
  a thread for good: whatever is called afterwards, there never is one
  (`SetBeforeStartIsFatal`, a property of all that follows such a state).
* The server stops cleanly but for named places: the signal inside one of the
  two mutexes (`JoinReturns`), and the sweep after `stop()`, whose erase of the
  last entry is followed by `it++` on `end()` (`ShutdownEnds`, `ioPc = "hung"`).
  A peer that reconnects under its old name before its dead entry is swept is
  watched, never read and never closed (`StrayOnlyByNameReuse` says that this is
  the only way). The pool, once over its limit, is frozen for good
  (`PoolFreezes`).
* A second signal while `stop()` joins or drains may pop from a queue that is
  empty or in other hands; before and behind that, `stop()` may be repeated
  (`QueueTells`). A second signal that falls into a critical section of the pool
  stops the process for good (`poolMutex = "below"` in `JoinReturns` and
  `ShutdownEnds`).
* `TcpClient::stop()` returns when the server says something or closes; with a
  silent server it stays in its join (`StopReturnsWhenHeard`).
* Both send loops give the kernel ranges that end behind the data, by less than
  a buffer (`PastIsBounded` in `LoopsAreBounded`). The packets the daemons send
  have the size of the buffer, and for them the loop is exact unless the kernel
  takes a part (`PacketsAreExact`). What the loop for strings reports as sent
  was taken by the kernel byte for byte (`TrueIsExact`, proved); a string longer
  than the buffer that is no multiple of it can only be reported as sent after a
  partial send.
* `Select`: one client that leaves ends `receive()` for all (`OneLeaveEndsAll`),
  and nothing else does (`EndsByALeave` in `SelectSafe`). The accept thread
  gives up on a full map, a server that never listened, or a second TcpPipe that
  raced with it (`EndsWhenFull`). The program ends in order only when it gave up
  before (`EndIsRare`); from there it does end (`ExitReturns`). It aborts only
  by the race of two TcpPipes, or without any.
* `Epoll`: its tables stay right under reuse of numbers (`TablesAgree`), with
  the exception of `socketMap`, where a name that returns is not entered again
  (its part `InMapUnlessReused`). Two TcpPipes made in a row, as in
  `test_tcppipe`, may end the process (`FailsOnlyByRace`: only that does, or a
  program that ends without any). A connection that is reset is kept until the
  program ends (`ResetIsKept`), and so long the server closes no connection
  whose client is there (`ClosesAfterClient`): what `PipeClient` assumes of its
  own server. The end of the program closes them all, once `ioThread` is out of
  its loop, which it leaves only when its epoll descriptor is gone.
* A TcpPipe connected to the server of its own program is never destroyed, once
  its thread is in `recv` (`OwnServerKeepsIt`); one that could not connect ends
  the process when it is (`FailedConnectIsFatal` in `PipeSafe`).
* A list of living observers that is not changed during `notify()` is told once
  each; one entry erased during the walk skips at most one observer and repeats
  at most one, and only an entry erased, storage replaced during the walk, or an
  observer destroyed while it is attached crashes it (`WalkSurvives`).
* `instance()` makes one object and returns it to everybody, the unlocked test
  notwithstanding; who copied the pointer between its two words may outlive the
  object, and then only after the program began to end (`OneForAll`).
* `Buffer::write` loses one write per swap, keeps the order of the rest and
  writes past a half by less than one write (`LosesOnePerSwap`).
* `parse` throws on every message that `build` makes, unless the destination has
  the word `content:` in it; the data is never found (`DataNeverArrives`).
* On Windows a library that was closed keeps its handle, and one that could not
  be closed loses it; elsewhere the two agree (`HandleTells`). An Animal that is
  destroyed makes the others mute, and one whose library did not open, or lacks
  a function that is called, is fatal (`AnimalsAgree`).
* `get` makes the type last registered, as long as that registrar stands,
  whatever its address was used for before; only a stale or unknown name, or a
  method of another type, ends the process (`LookupsTell`). What `invoke` runs
  the property does not say: with a method of another type it need not crash.
* A line of LogWriter's file has its own time as long as nobody calls `show`; a
  line of Log only when no two calls overlap (`TimesAreTrue`).
* `test_invoke` registers `A-Show` with an object and a text
  (`test/main.cpp:204`) and invokes it with the text alone
  (`test/main.cpp:209`). `RunsAsRegistered` is what the test expects; the run
  shows the method called under a type it does not have.

**Bounds**, and why they suffice.

* Workers: the code has 4, and so has the run; the theorems cover any number.
* Items are dispatched once each: two items are two in the queue, two in hands,
  or one next to the other, and every race of the code is about the last item.
  `passes` counts up to one more than the workers, since no property looks
  further.
* `MaxConns` = 3 over 2 peers: one peer can reconnect under its old name, and
  the sweep meets a dead entry before, at and after a live one. `MaxUnread` = 1:
  a second message would be read on the next turn. 3 packets: one in `run()`,
  one in `process()`, one in the queue. `MaxObjects` = 0 in the safety run makes
  the list reach its limit at once; 1 in the liveness run.
* The allocation of packets is bounded: with none left the main thread waits in
  `get`, which the code does not do. `OutOfPackets` names those ends.
* Two signals per behaviour in the server: a third one would find `isRunning` at
  0 as the second does. Any number in the client.
* `SendLoop`: with a buffer of 6 the sizes 0, 1, 3, 5, 6, 7, 12, 13, 17 are
  empty, below, at and above half a buffer, one and two buffers, and one off
  each. The theorems cover every buffer and every size.
* `SelectServer`: `FD_SETSIZE` = 1 fills the map with two of the three names;
  the third connection is refused, or brings a name back. Two TcpPipes are one
  race, with a socket that is replaced, forgotten or asked in vain; the theorem
  covers any number of both. `EpollServer`: two connections are
  open at a time; four numbers hold them, the listening socket and the epoll
  set, so that the socket of a racing `start()` makes accept fail, or finds no
  number itself.
* `Animals`: the library has any of the 16 sets of its functions.
* `Observer`: three observers, so that one stands before, at and behind the
  place that changes or dangles; two walks, so that the second meets what the first left;
  up to two entries erased in one walk. `Registries`: two addresses for two
  names, so that a registrar can take the place of another one. `Log`: two
  threads are enough for one to overwrite the other's struct, three times for
  the file's order to be reversed. `Buffer`: nine writes fill the largest half
  more than twice.
* The allocator's `Width` is a multiple of its granule, as 2^64 is of 1024;
  sizes lie on, before and after the granule, and in the last granule.

Many properties are conjunctions of named parts (`SelectSafe`, `EpollSafe`,
`PipeSafe`, `QueueTells`, `ClientsAgree`, `WalkSurvives`, `PoolServes`,
`LoopsAreBounded`): the parts say what they are about, and the run checks all of
them. The type invariants of `Pipeline`, `LazyFSM`, `ObjectPool` and `SendLoop`
are proved (section 4) and so have no place in a run.

Deadlock checking is off where the system really stops: the processes of server
and client end, the machine and a TcpPipe hang in their joins, a send loop
returns, the threads of Select return, and the bounded inputs of the other
components run out.

**Fairness.** A runnable thread is scheduled (weak fairness of the steps of each
thread). Strong fairness is asked where a thread competes for a mutex that is
free again and again (`Sleep`/`Leave`/`Take` against the loop of `stop()`;
`WkTakes`/`WkTakesNothing`/`WkWaits`; `WkRecycles`; `Wait` of the machine): the
code relies on `std::mutex` not starving a thread for ever. `WkTimesOut` is
strongly fair since spurious wakeups do not move the absolute deadline of
`wait_for`. Callers, signals, peers, failures and spurious wakeups are owed by
nobody. Nor is the end of a send: `sendMessage` repeats a failing `send` for
ever, and does so on a destroyed `Socket`; the liveness of the server is stated
under `SendsEnd`. In `TcpClient` a sleep ends and a send need not;
`StopReturnsWhenHeard` states as its premise what it needs of the server.
`IoWaits` of Epoll is fair since `epoll_wait` returns when there is something to
return, `RxStep` of Select since its selects time out, and `ExitStep` of Select
and `SecondDrains` of the server are steps of a thread that runs.

## 4. What is proved

All theorems hold for every value of the constants under the modules' named
assumptions. These say what the constants are and no more: bounds are natural
numbers, `MaxFd`, the number of descriptors, is not zero, the value that stands
for nobody (`NoData`, `NoThread`, `NoObserver`, ...) is not one of the things,
and the sets that are counted are finite. TLC evaluates them in every run.

Every safety property and every action property that a passing run checks is
also the statement of a theorem; the runs' remaining properties are liveness. A
temporal theorem is always the same three facts: the initial states satisfy the invariant, every
action keeps it (one step of the proof, or one lemma, per action and part), and
it implies the property.

* **Pipeline** (any number of workers, items and types). The inductive invariant
  of `PipelineProofs` joins `TypeOK` with what makes `READY` and the queue
  agree, restricted to the time before the first stop for `IDEL`. From it:
  `TypeCorrect`, `FrontIsDefined`, `IdleIsEmpty`, both as `StateIsTrue`, and the
  action property `JoinIsTooLate` (in the join the state is `NONE` or `IDEL` and
  nobody stores `TERMINATE`). `OneStoreOneExit` needs a second invariant that
  counts: the exited workers, plus one for a pending `TERMINATE`, are at most
  `passes`; its steps use the cardinality facts of finite sets.
  `ImplementsWorkQueue` is the refinement: initial states map to initial states
  and each step to `Submit`, `Take`, `Finish` or a stutter, under the invariant
  that an item is in one place only.
* **ObjectPool**: `PoolTypeCorrect`, `NoPacketServesTwice`, `FreeListIsBounded`,
  `FreeListFreezes`, from one invariant: the list holds allocated packets, once
  each, none of them held, and at most `MaxObjects + 1`.
* **Sockets** (`SocketsProofs`, lemmas only). `NetInv`: connections are made and
  accepted in the order of their numbers by peers that have a name, so a
  connection that is accepted is newer than all before it (`PeersKeepOrder` and
  the lemmas about accept, read and destroy). The three servers build on it.
* **TcpServer** (any number of peers, connections, messages and packets, any
  limit of the pool, up to two signals). The invariant has a part for each group
  of variables, so that a lemma about an action looks at the group it changes:
  `TableInv` (what is watched was accepted, an entry stands under its peer's
  name, the connection at `Admit` is the newest), `ControlInv` (which mutex is
  held at which place, where the signals can be), `QueueInv` and `HandsInv` (a
  packet is in the queue once, or in one thread's hand). From it `TypeCorrect`,
  `StateTellsOfQueue`, `TableAgrees`. That the newest connection is admitted is
  what makes `ClientsAgree` inductive: a stray one can only be an old one whose
  name came back. `ServerUsesPool` is the refinement of `ObjectPool`: `Held`,
  the packets in the hands and in the queue, is the pool's `held`; each action
  is `Get`, `Push`, `Forget` or a stutter. Through it the theorem about the pool
  becomes one about the server: `NoPacketServesTwoMessages`.
* **SelectServer** (any number of TcpPipes, peers, connections, any
  `FD_SETSIZE`). `ThreadsShareTheMap` is `SelectSafe`. With two sockets on the
  port connections may be accepted in another order than they were made, so the
  proof has a part of its own for the peers: `PeerInv`, earlier connections of a
  name are closed when the next one is made, without which an insert could put a
  destroyed Socket back in. Every entry of the map was accepted from the peer
  whose name it has and the walk stands on an entry (`MapInv`); without the race
  there is one `start()`, over when the thread runs, which asks the one socket
  there is (`RaceInv`); and the map is empty until the thread runs, or for good
  when that socket is none (`EmptyInv`).
* **EpollServer** (any number of peers, connections, descriptors and TcpPipes).
  `EventsFindTheirSockets` is `EpollSafe`. `FilesInv` says that a connection is
  open on one number and `fd2Socket` is right about it; `SetsInv` that a number
  is in the epoll set, or in the list of events, only while it is what it was
  put there for: a number that is closed and used again within one batch would
  break this, and does not, because only `IoReceives` closes, its own number.
  `NamesInv`, `UserInv` and `RaceInv` are about `socketMap`, the program's calls
  of `start()`, and what is left to prove of `FailsOnlyByRace` when none raced.
  `ServerClosesLast` and `ResetsStay` are action properties from the same
  invariant; both except the step that ends the program, which `JoinStep` shows
  to keep the invariant as well.
* **LazyFSM** (any table of events; `ThreadProofs`): `TypeCorrect`,
  `NoLostWakeup`, `StopHangs`, `SetBeforeStartHasNoThread`. The invariant says
  who holds the mutex where; in the join it is `stop()`, so that the thread
  cannot pass its wait. That a machine set before `start()` never gets a thread
  is a box within a box: the state from which it holds (a status, no thread,
  nobody behind the test of `start()`) is kept by every step, since without a
  thread no step takes the status back to `NONE`.
  `CrashHasTwoCauses` adds `EventInv`: once an event was set, the current one is
  in the table until `transit` finds none for its state, and a crashed thread
  has one that is not in it.
* **The two clients** (any number of unread messages; `ThreadProofs`).
  `ClientEndsInOrder`: the place of `main()` tells the flag, the member, the
  thread and the descriptor (`MainTells`). `PipeLivesAndJoins` is `PipeSafe`,
  from `UserTells`: a connected TcpPipe that lives has `isRunning` true, one
  that is not connected has no thread. `OwnServerKeepsTheThread` is a leads-to
  that needs no fairness, for its right side holds at once and from then on: the
  own server sends nothing and does not close, so `rx` stays in `recv`.
* **The parts** (`PartsProofs`). The three MC modules put components side by
  side; the module extends them, so that each theorem is about the property
  that the run checks.
  * LazyAllocator: `AllocatorTypes`, `PoolKnowsLengths`, `BlocksAreLongEnough`
    (from a lemma that bounds the rounding, wrap-around included) and
    `ContainerIsBounded` (the container and the threads past the test are fewer
    than the capacity plus the number of threads); `PoolKeepsServing` joins
    them.
  * Singleton: `OneObject`, for any set of threads. `MadeIsStored` says that
    only the holder of the mutex assigns, that an object once made is stored
    whole or being assigned, and that nobody copies before its first word is
    there.
  * Log: `TimesOfLines`. While no two calls overlapped there is one call at a
    time, whose struct and text have its time, and no line is later (`Alone`);
    `show` is the only way for two calls of a LogWriter to overlap.
  * Send loops: `LoopTypes`, `OverrunIsBounded`, `NoEmptyOffer`,
    `FullPacketsAreExact`, `TrueMeansSent`, all of them together as
    `LoopsStayBounded`, from two lemmas about one offer and an invariant that
    knows of a packet of the buffer's size that it is either untouched or taken
    whole.
  * Observer: `WalksSurvive`, for any observers and any length of the list. The
    invariant counts ahead: an observer that the walk has passed untold is lost
    now (`Passed`), and one that it has told and will meet again is told twice
    now (`Doubled`); neither set ever has more members than entries were erased
    (`DetachKeeps`: an erased entry moves one more behind the walk and leaves
    one more copy ahead of it), and at the end of the walk they are the
    observers missed and the ones told in excess. Until something is erased the
    walk stays within the list, so that a call of nobody who lives is a call of
    an entry that dangles.
  * PluginLoader: `HandlesTell`; a function that `open` gave has its library as
    long as no close was granted. Animals: `AnimalsShare`. Registries:
    `LookupsFindTheirs`, about what `get` makes and what can be fatal. The
    properties of the last two are inductive as they stand.
  * Buffer: `BufferKeepsOrder`. That a swap loses at most every other write
    needs one write more in hand: a half that is not empty has taken a write
    since the last one was lost.
  * Protocol: `ParseMissesData`, for strings of any length. There is no
    induction in it: `MessageFacts` says which token stands at which place of
    what `build` makes, `CutFacts` where `parse` cuts it, and `ShiftFacts` that
    a word found behind `to:` is found at the same distance in the destination.
  * `LifetimesHold` and `BytesHold` say the same of the instances as a whole.

Only model-checked: the liveness properties (`Served`, `StopReleasesAWorker`,
`Taken`, `JoinReturns`, `ShutdownEnds`, `Reacts`, `StopReturnsWhenHeard`,
`OneLeaveEndsAll`, `MessagesAreRead`, `ExitReturns`, `DataIsRead`), which rest
on fairness and are out of the prover's reach, and `RunsAsRegistered`, which is
false. `PoolNoAlias` and `PoolFreezes` are proved of `ObjectPool` itself, whose
specification is one of the components of `MCLifetimes`; `PoolFreezes` is checked
there, and for `PoolNoAlias` the proofs suffice: that of the pool, and
`NoPacketServesTwoMessages` of the server whose threads use it.

## 5. What is not modelled

* Pipeline: a `registerHandler` next to running workers; `max_queue_len`, which
  nothing enforces; several owners.
* Server: a third signal, `broadcast` (no caller), `TcpServer_Forward` (not in
  the router), `ObjectPool::clear`, the value of select's `tv` (Linux counts it
  down to zero, after which the loop polls), `FD_SETSIZE`, partial messages, and
  the reuse of a descriptor number between its load and the send.
* LazyFSM: `currentState` (assigned, never read); actions that call `setEvent`,
  which would lock a mutex their own thread holds.
* LazyAllocator: a second push of one block; the code keeps the caller's pointer
  and offers nothing to state a property on.
* tcppipe: a torn read of `socket.fd` next to a racing `start()`; other open
  files of an Epoll server's program, with which already the first `start()`
  could run out of numbers, and a Windows system out of sockets; a peer that
  returns under its address after a reset while its old Socket is open;
  `Protocol::append`, which returns an empty string; `send` to a destination as
  a step of a TcpPipe (no caller; its message is in `Protocol`, and to the
  threads it is another `push`).
* SendLoop: sizes at which `int` or `unsigned long` wrap around; no caller comes
  near them.
* SpinLock: one atomic exchange in a loop and one store, with no caller; there
  is no second piece of state that a property could relate it to.
* Factory, Interfaces: `operator[]`, which reads a method and changes nothing,
  and the registration of a ready `Method`, which does what the other
  `registerMethod` does.
* Log: levels, layout, and the two functions' answers to a file that does not
  open (LogWriter is taken to have opened it).
* Observer: a new observer at the address of a destroyed one, which would be
  told in its place.
* PluginLoader: several loaders over one library; `Animals` has several handles.
* Samples: `test/observer.cpp` and `test/factory.cpp`, straight-line callers,
  and the other functions of `test/main.cpp`, whose `main` calls none of them.

## 6. Plan

1. Done: Pipeline, ObjectPool, the server daemon with two signals, LazyFSM,
   LazyAllocator, their runs, and proofs of all but the server.
2. Done: the client daemon, the send loops with their proofs, the servers and
   the client of tcppipe, the destructors included.
3. Done: the small components, as modules of their own, checked side by side.
4. Done: the proofs of every safety and action property of the runs: the three
   servers with the refinement of the pool, the clients, the machine, and the
   small components.
5. Next, composition: TcpPipes over `EpollServer` and `PipeClient` together.
   What the client assumes of its own server is `ClosesAfterClient`, a theorem
   about the server now; the two specifications are still separate.
6. Next, proofs of what liveness rests on and is not liveness itself: that the
   steps which fairness asks for are there (a queued packet always has a thread
   or a wakeup on its way), stated as invariants.
