# Parking lots, checked

A TLA+ development for the three parking-lot systems of this repository:
`parkingsim` (cars as threads), `netparkingsim` (a lot behind a text protocol
over TCP, in Java and, with asio, in C++) and `rpcparkingsim` (a lot behind
serialized method calls). Paths below are relative to
`src/com/github/kochab/vsys/`.

## The system

| component | state | operations | interacts with |
|---|---|---|---|
| synchronized lot (`rpcparkingsim/SynchronizedParkingLot.java`; `netparkingsim/core/SynchronizedParkingLot.java` has the unit methods) | `count`, the monitor | `park`, `park(n)`, `unpark`, `unpark(n)`, `remaining` | called by all session threads |
| atomic lot (`netparkingsim/cpp-asio/src/atomicparkinglot.C`) | atomic `count` | `park`, `unpark`, `remaining` | called by the one thread of the ASIO server |
| car simulation (`parkingsim/Car.java` and three lots) | list of cars, a lock; per thread where `run` is | `run`: sleep, look for room, park, sleep, unpark | cars share the lot; exceptions of the lot end the thread |
| demo, car factory | - | start 100 cars for each lot of 100 spots | builds cars and lots |
| network server (`netparkingsim/ParkingLotServerMain.java`, `server/`) | lot, one thread per session | accept; free, in, out, quit, unknown | TCP; sessions share the lot; quit ends the process |
| network client (`netparkingsim/ParkingLotClientMain.java`, `client/`) | command under way, host it is at | unicast, broadcast | TCP, one connection for each command and host |
| RPC server, session, service, client (`rpcparkingsim/`) | lot, one thread per session, object streams | in(n), out(n), free, hello, exit | TCP, Java serialization, reflection |
| ASIO server, ASIO client (`netparkingsim/cpp-asio/src`) | lot, one request per session | the text protocol | TCP, one thread |
| asio's scheduler and reactor (`netparkingsim/cpp-asio/asio-1.10.2/include/asio/detail/impl`, `task_io_service.ipp` and `epoll_reactor.ipp`; vendored) | queue of operations, count of the work, the sleeping threads; per descriptor what waits | `run`, `post`, `stop`, `reset`; register, start, cancel, close; `epoll_wait` | threads share it; runs the handlers of the ASIO server |

What is hard, component by component, with the properties that make it right:

* **lots**: a test and an update that must not be separated, int overflow,
  negative amounts. Right: a call takes effect at once, all or nothing, within
  the bounds (`Linearizable`, `OccupancyBound`), also beside callers that pass amounts
  the lot cannot cope with (`ContractKept`), the monitor excludes
  (`MonitorInv`) and is released (`MonitorReleased`).
* **cars**: check and act are two calls, an interrupt skips `unpark` but takes the lock
  once more to report itself, exceptions pass through a lock. Right: to its callers a list of cars is a counting lot (`Linearizable`), the
  books are exact (`LotLedger`), nobody is refused while a spot no car has had is left
  (`TurnedAwayForCause`), every thread ends (`EveryThreadEnds`).
* **network**: sessions run at once, a quit stops them anywhere, answers get
  lost, nothing times out, a broadcast goes from host to host. Right: the lot
  agrees with the requests granted, a command moves one car at most, no client
  hangs and quit reaches whom it should (`OnItsWay`, `NoHang`, `QuitSpreads`).
* **RPC**: stream headers are read in the accept loop, requests that get no
  answer, half-sent requests, exceptions of a stream, opened for reading or for writing, that end
  `main` and leave the sessions. Right: each client gets the answer to its own request, the remote calls are
  calls of one lot (`Linearizable`), nobody who has sent something hangs (`OnItsWay`, `NoHang`), threads end.
* **ASIO**: exceptions leave the only thread and end the process, a connection
  is reset between the effect of a request and its answer, a broadcast stops at the
  first server that is down. Right: the books, the outcome of a broadcast, a server
  that ends only for a cause.
* **scheduler and reactor**: a wake-up goes to one thread and is decided from what
  was true before the mutex was given up; work is counted outside the mutex; a descriptor
  is linked into a queue that may still hold it; an edge is reported once; the state of a
  socket is free before the socket is closed. Right: the
  count is exact (`WorkCounted`), nothing is linked twice or lost (`QueuedOnce`), no
  wake-up is lost (`NoneStranded`), and the users see a pool that makes one upcall for each
  handler and stops when it is told to, or when nothing is left (`ServesAsPool`).

`PROJECT.json` lists the hazards one by one, at their lines.

## The modules

`ParkingLot` states what a lot promises: a call is invoked (`Call`), takes
effect at one instant (`Grant`, `Refuse`, `Report`) and returns. It knows nothing of
monitors or of the width of integers.

`SynchronizedParkingLot` is the Java class. A thread enters the monitor
(`Enter`), tests (`Admit`, `Reject`), reads `count` (`Load`), writes it (`Store`) and
leaves (`Exit`); `++count` is a read and a write, as the language says. `JavaInts` has the
ints of the Java programs: `Wrap` is their arithmetic, with `MaxInt` for `Integer.MAX_VALUE`. Nothing
restricts the amounts, as nothing does in the code; `Safe` says of a call that its amount is one the lot can
cope with, and `ContractKept` what such a call can rely on whatever the others do. `Linearizable` instantiates
`ParkingLot` with `count` for `occupied` and the position of the thread for the stage of
the call. Admitted calls take effect in `Store`, the others in the test.

`AtomicParkingLot` is the C++ class: the same, without the monitor, and with an
update that is one step.

`CarPark` is `parkingsim`. `phase[c]` is the place in `Car.run`, `step[c]` the place in
the method of the lot that it calls. The three lots take a monitor, a
`ReentrantLock` or the lock inside `ArrayBlockingQueue`; in the model they are one
`lock`, taken by `Acquire` and given back by `Release` on every path. `room[c]` is
the answer of `remainingCapacity()` that the thread acts on after it has left the
lock. Printing a car prints its lot, which takes the lock again: the phases
`announcing`, `leaving` and `refused`, and `reporting`, in which a car says that it was interrupted. The list of cars is a set, since `run`
parks a car once. `Linearizable` maps it to `ParkingLot`: the number of cars for `occupied`, and for
the call of a car where its thread is between `Acquire` and `Release`; `AddCar`, `RemoveCar`, `ParkThrows`
and `RemainingCapacity` are the instants at which calls take effect.

`Connections` is TCP as java.net gives it, and external: a backlog entry before
the accept, one line of room each way, closed or reset ends. `ParkingLotServer`
adds the accept loop (`Accept`) and the session threads: `ReadLine`, `Handle` (the
effect on the lot), `Reply` (the answer), `Exit` (`System.exit` in the middle of
whatever the other sessions do), `EndOfStream`. `AcceptFails` is an accept that throws, as it does when
the sockets that sessions never close have used up the descriptors: it ends the process as a quit does. `Capacity` may be
any number: `main` prints that a number of spots below 1 is invalid, and goes on with it. The call of the lot is one step
because `SynchronizedParkingLot` is proved to look like one. `ParkingLotClient` is
the loop of `main`: `Type`, `Connect`, `Send`, `Receive` and what becomes of null
responses and exceptions, which `main` never catches. `NetParkingSim` composes the two.
A connection is named by client, command and host, so that what each session was
asked and answered remains on record and the properties can speak of it.

`ObjectStreams` is TCP and the java.io object streams of `rpcparkingsim`, external: what
is sent and not yet read in each direction, where a header counts as an object. `RpcServer` has
`main` (`Accept`, `AcceptFails`, `Greet`, `GreetFails`, where either stream's constructor throws because the client has gone) and the `Session` threads: `ReadMethod`, `ReadArgs`,
`Invoke`, `WriteReply`, `EndOfStream`. `Invoke` reaches what reflection reaches: the service,
and of `java.lang.Object` a method that returns a String, one that returns something else
and one that throws. When `main` dies the process lives on until the last session ends
(`LastThreadEnds`), and the listening socket is closed when it is collected
(`CollectListener`). `RpcClient` is `main` of the client with its two writes and its reads as
steps of their own, because it may die or be killed between any two.
`RpcParkingSim` composes them, and maps them to `ParkingLot`: a client is a thread of the abstract
lot, its call is under way from the moment the request is sent, and takes effect in `CallLot` (`CallOther` for `free`).

`BreakableConnections` adds to `Connections` a reset by the network, which may overtake what is on
its way. `AsioParkingLotServer` has the handlers of the one thread, `AsioParkingLotClient` the
`main` of the C++ client; every call of asio that can throw has an action in which it does
(`LogThrows`, `SendThrows`, `WriteThrows`, `ReadThrows`, `PrintThrows`). `MaxSockets` is how many
connections a server has descriptors for; the others wait in the backlog, and `NoHang` holds all the same. The lot is one step
per call since one thread makes all calls (`SoloRefinement` of `AtomicParkingLotProofs`).
`AsioParkingSim` composes them.

`TaskIoService` is the vendored scheduler: what `task_io_service` does under its mutex without a
break is a step, and the signal after the unlock is another. `at[t]` is the place of a
thread in `do_run_one`, `own[t]` and `credit[t]` its private queue and count, `call[t]` what is left
of a function of the scheduler that it has called from elsewhere (the locked half of a
post, a signal, a stop). `pending` is kept for the properties: the handlers that are due.
`EpollReactor` is the reactor under it: `Register`, `StartOp`, `CancelOps`, `Deregister` and
`CloseSocket` (the two steps of a close), `Poll`, `PerformIo` with the compensation of the count when nothing could be performed, and
the network (`Arrive`, `ArriveLate`). epoll is external: it reports a descriptor once per edge. A descriptor of the
model is a descriptor state. `Deregister` gives it back to the pool, from which `Register` may take it at
once. The socket itself leaves the epoll set there if `accept` made it (asio takes such a one for a possible
duplicate and says `EPOLL_CTL_DEL`), and only with `CloseSocket` if `open` made it; until then `closing` names the state on whose
behalf epoll still watches it, and `late` is the set of such sockets with an event. `Overlapping` says whether
the program opens sockets in one thread while another is between the two steps. If `epoll_ctl` fails in
`register_descriptor`, the socket is given up and the state is left over, neither used nor free, so `Register` has no outcome for it.
`AsioIoService` composes the two and states the properties. It is a model of the library for any
number of threads; the repository's server runs it with one.

`HandlerPool` states what that library promises its users, who know nothing of queues,
wake-ups and reactors: items are given to the service (`Post`), threads are outside `run`, inside, or
bound to serve (`Enter`, `Leave`, `Turn`, `TurnBack`), and each item that is due gets one upcall
(`Begin`, `End`). A user may ask for a stop (`Ask`); the service decides to stop by itself only
when nothing is due and nobody is in an upcall (`GiveUp`), and once stopped (`Stop`) no thread
turns to anything more until `Reset`. A thread that had already taken a descriptor when the stop came
still makes the upcall for it, which is why a thread bound to serve is told from one inside.
`ServesAsPool` instantiates it in `AsioIoService`: `pending` without the upcalls under way for
what is due, the places of `do_run_one` grouped in three, and the calls of `stop_all_threads` under way for
those about to stop the service. `GiveUp` is the race the refinement is about: `run` reads
`outstanding_work_` without the mutex, and a handler that ends may bring it to zero while others post.

The operators called "a slip" next to a definition are variants with a
plausible bug; each property fails with one of them in place of the definition.

`MC...` modules hold values that a configuration cannot write. The `...Proofs` modules
hold the theorems.

## The runs

| run | instance | shows |
|---|---|---|
| `lot` | 3 threads, 2 spots, n in {-1, 2, 5, 6}, 4-bit ints | mutual exclusion and valid updates; the contract kept on every call with a safe amount; monitor released |
| `lot_negative` | n = -1 | **violated**: `OccupancyBound` |
| `atomic_overshoot` | 3 threads, 2 spots | the counter overshoots by 2 at most |
| `cars_full` | 3 cars, 2 spots, two cars may be interrupted | exact books, nobody turned away without cause, refinement of `ParkingLot`, threads end |
| `cars_race` | 3 cars, 1 spot | **violated**: `LeavesPolitely` |
| `net_safety` | 2 clients with a command each (all five kinds), 2 servers with a spot each | books, one grant for each command, outcome of a broadcast; answers and quits are on their way |
| `net_liveness` | the same, `in` and `quit` | no hang, quit spreads, sessions end |
| `rpc` | 2 clients, one types two lines and one types one, any line; 3 spots, two cars at a time | own answers, refinement of `ParkingLot`, what ends `main`; headers, answers and exits are on their way; no hang, threads end |
| `asio` | 2 clients, one command each (one of them only `in`), 2 servers with a spot each, one connection that may be reset | books, one grant, outcome of a broadcast, what ends a server; answers and quits are on their way; no hang, quit arrives, sockets closed |
| `asio_quit` | 2 clients that type `quit` | **violated**: `QuitIsBroadcast` |
| `io_service` | 2 threads that run, one that sets up and posts; a handler, two operations on a descriptor, two messages | count of the work, queues, wake-ups, refinement of `HandlerPool` |
| `io_overlap` | the same with one message, and `Overlapping` | **violated**: `QueuedOnce` |

Why the bounds are enough. Three threads are one that tests, one that is between
test and update, and one that waits, which covers every kind of interference; the
bounds of `OvershootBound` are reached exactly. n = 5 is the largest amount that
keeps `n + Capacity` in four bits, 6 the least that does not, and -1 the nearest below the safe ones. Three cars for two spots make
the last spot contested while another car may leave. One spot per server makes the
second `in` of a host fail, so a broadcast moves on; two hosts are the fewest for
that. `MaxCommands` bounds what the users type and nothing else; with one command each, the
clients still grant, refuse, take out each other's cars and shut hosts down under
each other. Clients are interchangeable and the safety run uses that symmetry.

In `rpc` the client with two lines shows what a request leaves behind for the next one, and
the other interferes at any point; two cars against three spots make the second `in 2` fail while one
spot is free, which a test for a single spot would not notice. In `asio` one fragile
connection is enough: a reset ends a server or a client, and the clients then meet a server
that is down as well as one that is up; the other client keeps to `in`, so that it contends for the
spot. The first server has a descriptor for one connection, the second for both. In `io_service` two threads are one that blocks in epoll and one that runs or sleeps
beside it, and the third caller sets up and posts from outside; two operations with two messages
are the fewest for which `perform_io` completes one, queues another and can find nothing to perform.
`MaxData` bounds what the network lets pile up, `MCUses` says which caller uses what: a stop, a cancellation
or a close comes from an upcall, so that the other thread may be at any place of `run` when it does. Threads
and operations are interchangeable. The theorems below need none of these bounds.

Fairness. `lot` assumes that the thread inside the monitor runs; not that it
is fair to those who wait, as Java does not promise that. `cars_full` assumes that sleeps
end and threads run; weak fairness is enough for the lock as each car takes it
five times at most. `net_liveness` assumes that clients, accept loops and sessions are
scheduled; it does not assume that users type, kill or end anything, or that accept ever fails. `rpc` assumes the
same of clients, sessions and `main`, and that the JVM ends with its last thread; nothing makes the
collector run. `asio` assumes that clients run and that the thread of each server runs handlers
while any are ready, in no particular order. `io_service` assumes nothing: `NoneStranded`
states as an invariant what the liveness of the scheduler rests on, that something on its way will come
by the queue. The three invariants `OnItsWay` do the same for
`NoHang`, `QuitSpreads`, `QuitArrives`, `Welcomed` and `ExitEndsServer`: they say that in every
state what is waited for is there or in the hands of somebody who runs, so that fairness has only to move it on.
In `rpc` there is one exception, which the property names: a client in the backlog of a server whose `main` has
died waits for its header until the listening socket is collected or the process ends.

Deadlock is checked in all runs: `Done` and `Idle` are the states in which the
programs are over or wait for connections.

### What the violations show

1. `park(n)` takes any int (`rpcparkingsim/SynchronizedParkingLot.java:19`). A negative
   `n` passes the test and drives `count` below 0: "in -1" on an empty lot is granted,
   while `TestService.java:78` expects "capacity underrun" of the equivalent "out 1".
   For an `n` near `Integer.MAX_VALUE` the sum in the same test wraps and the lot takes in more cars
   than it has spots; `lot` includes such an amount, and `Safe` draws the line.
2. Between `remainingCapacity()` (`parkingsim/Car.java:27`) and `park` (line 29) another
   car may take the spot. The exception ends the thread; the message of line 36 for a
   car without a spot is not printed. In `Demo` this cannot happen (`NoneTurnedAwayCorrect`).
3. "Broadcast quit signal to all servers" (`netparkingsim/cpp-asio/src/asio_parkinglot_client.C:50`)
   stops at the first server that is down: connecting throws (line 54), the client
   ends, and the servers behind it go on.
4. The reactor says that a descriptor state it reports has left the queues (`epoll_reactor.ipp:373`).
   `deregister_descriptor` gives the state back (line 337) before the socket is closed
   (`reactive_socket_service_base.ipp:90`, `106`), without taking it out of the epoll set unless `accept` made
   it. A socket that another thread opens in between gets that state, one `epoll_wait` may report it for both, and
   line 430 links it twice. The repository's server has one thread, in which nothing happens in between.

## The proofs

Checked by TLAPS, for every value of the constants.

* `SynchronizedParkingLotProofs`. `MonitorCorrect` and `ContractCorrect` hold for every int as
  amount and as capacity: the monitor makes the guard and the value read valid at the write, which is
  what `MonitorInv` adds to make it inductive (without `pc[t] = "store" => acc[t] = count`
  a lost update could not be excluded), and with that each step of a call whose amount is safe is a step of
  `ParkingLot` when the lot is within its bounds. `OccupancyCorrect` and `Refinement` follow for
  `SafeAmounts`, when nobody passes a negative amount or one that overflows when added to the capacity;
  `lot_negative` shows that the first half cannot be dropped, and for the second `count + n` wraps
  to a negative sum that passes the test. `ContractArithmetic` is the
  lemma that under `SafeAmounts` the wrapped guards are the intended ones.
* `AtomicParkingLotProofs`. `OvershootCorrect`: N threads overshoot by N - 1 at most. The
  bound is not inductive; `PendingBound` counts a thread that has passed the test as
  if it had moved, and is. `SoloRefinement`: one thread gets the whole contract.
* `CarParkProofs`. `LotInv` is inductive: to `CapacityBound` and `LotLedger` it adds that the
  lock excludes, that a spot found free is free until the car is added, and that only cars
  that read of room go on to park. `TurnedAwayCorrect` counts the cars that have been in the
  lot: who is refused, or dies of the exception, met as many others as there are spots.
  `TypeCorrect` is the first part of it. `NoneTurnedAwayCorrect` follows for a lot with a spot for every
  car, as in `Demo`. `Refinement` rests on `LotLedger`: a list changes its size by one only if the car that
  is added was not there and the one that is removed was, and `unpark` could otherwise throw in a lot
  that is not empty, which no counter does. Only the thread that has the lock is in a call, so the
  others keep theirs (`OneThread`).
* `NetParkingSimProofs`, for any number of spots, none or less included. `TypeCorrect`, `LedgerCorrect`, `OneGrantCorrect` and `BroadcastCorrect`. The
  books change with the request of one connection, but that they are right needs to know that a
  connection carries one request, and that a client asks the hosts in turn: `Inv` says of each
  connection how far it is (`OneRequest`, `Progress`), and of two hosts of a command that the second
  is not asked before the first has answered without moving a car (`InTurn`). `OnItsWayCorrect`
  rests on a second layer, `Ahead`, inductive together with `Inv`: an end of a
  connection is what the process it belongs to says (`Honest`: a server that is up has hung up on
  nobody), what the client waits for and what became of its quits, host by host (`Settled`), and that
  "quit" is the last command and goes to every host (`QuitsLast`).
* `AsioParkingSimProofs`. The same four and `EndsForCauseCorrect`. What differs is
  that the client leaves a host after a quit without reading, so a host that was sent
  nothing but a quit counts as passed too (`Harmless`). `EndsForCause` is inductive with it. The second
  layer is as above, but a server may hang up on a connection that was reset or that it has
  answered, and a quit that was sent may be `Left` unread when its client is gone.
* `RpcParkingSimProofs`. `Exchange(c)` describes client, session and what is on the way between them
  together, one case for each stage of a request. It is the invariant behind `AnswersCorrect` and
  `AcceptsCorrect`, and it is what `Refinement` needs: that a session invokes exactly the call its
  client has sent, once, and that a client that died between two writes has sent none. The users may type any
  int; `Refinement` alone, and the bounds of the lot in `TypeCorrect`, ask for `SafeAmounts`, as the programs check nothing.
  `OnItsWayCorrect` adds `Attached` (a connection
  that is open has main or a live session behind it, one in the backlog a listener) and `Due` (a session
  that waits for a request with nothing to read has answered the last one).
* `AsioIoServiceProofs`. `TypeCorrect`, `WorkCountedCorrect`, `QueuedOnceCorrect` and `NoneStrandedCorrect`:
  the types and all invariants of `io_service`, for any number of threads, callers, handlers, operations and
  descriptors. All are for programs in
  which no socket gets the state of one that another thread has not finished closing (`~Overlapping`): `io_overlap`
  shows what happens otherwise. `Inv` has seven parts:
  * `Shapes`: the types, and what a thread can hold at each place of `do_run_one`.
  * `Linked`: `QueuedOnce` restated over `Lies(kind, owner, index, operation)`, a relation that the proofs
    can take apart, which the set of slots is not. Every step moves an operation from one place
    to another; each has a lemma that says which.
  * `Apart`: a state whose socket is still being closed is in use by no other, and belongs to one close. So no two
    events of an `epoll_wait` have the same state.
  * `WorkCounted` itself, which is inductive with the shapes and `Linked`: a handler that
    ends is counted off once because it is linked once.
  * `Interruptible`: a thread blocks with `interrupted` set only if the interrupter has an event
    to report. Without it a post could find `interrupted` set and wake nobody.
  * `Wakeful`: the first half of `NoneStranded` without the data that epoll may report. The
    invariant is not inductive with it: another thread may take that data and leave the
    one that blocks without a reason to return.
  * `Known`: the second half.
* `HandlerPoolProofs`. `PoolCorrect`: every step of scheduler and reactor is a step of `HandlerPool` or leaves
  its variables alone. Sleeping, waking, polling and the reactor's own steps are hidden
  (`QuietPool`, `QuietCaller`); the others map one to one. It rests on `Inv` above in two places:
  an operation taken from the queue or from a descriptor is due because it is linked nowhere
  else (`LinkedDue`), and a count of zero means that nothing is due and nobody in an upcall
  (`NothingLeft`), which needs that continuations not yet counted belong to a thread that is still at work.

The assumptions are those the modules name: a finite set of cars, of threads, of handlers and
operations, of descriptors; a `Capacity` in the range of its type; amounts that
are safe and `~Overlapping`, where the theorem says so; markers such as `NoThread` and `Nothing` that are none
of the things they stand in for (in `Connections`, `Nothing` is also none of the words on the wire, and in
`AsioParkingLotServer` no connection).

Only model-checked: everything with fairness, which is out of the prover's reach
(`MonitorReleased`, `EveryThreadEnds`, `NoHang`, `QuitSpreads`, `SessionsEnd`,
`Welcomed`, `ExitEndsServer`, `ThreadsEnd`, `QuitArrives`, `SocketsClosed`). All the other properties of the
passing runs are theorems.

### What a handler that throws leaves behind

A handler that posts a continuation and then throws leaves `run` with the continuation in the
private queue of its thread. `work_cleanup` moves it to the queue on the way out and wakes nobody,
which is right when the handler returns, as the thread then runs on, but not when it leaves.
Until a thread calls `run` again the continuation waits while others sleep. `NoneStranded` counts a thread
that has been thrown out (`"caught"`) as one that comes back; without that it fails.
The server of the repository has one thread and ends with the exception, so nothing waits
for it there.

## Not modelled

* Start-up: arguments, host names, bind failures. An argument that holds several hosts
  (`netparkingsim/ParkingLotClientMain.java:58`) is parsed in straight-line code before anything runs. An
  invalid number of spots stops the C++ server (`netparkingsim/cpp-asio/src/asio_parkinglot_server.C:119`) but
  not the Java server (`netparkingsim/ParkingLotServerMain.java:38`), so it is an instance of the latter.
* How many sockets the sessions of the Java server have left open
  (`netparkingsim/server/ServerSession.java:36`), as when they come back is up to the collector. That
  accept fails for want of descriptors is modelled, at any time.
* Requests of two and more arguments, which `rpcparkingsim/Session.java` takes and no client
  sends; the random names and delays of cars; the text of answers beyond ok, fail, a
  number and unknown; buffers that are not terminated in the C++ server.
* The memory read by an endpoint index out of range in the C++ client, beyond its end.
* The rest of the vendored asio library, which is nearly all of the repository by lines:
  `run_one`, `poll` and `poll_one`, the hint that only one thread runs, timers, strands,
  resolvers, buffers, ssl, serial ports, and the platforms other than Linux. Most of it is
  templates that forward to a few services, or code the programs never reach; what they use of it
  is in their models as a call that completes or throws, and the two parts with
  concurrency of their own that the server runs on, scheduler and reactor, are
  modelled. The operations of a descriptor are of one type there (reads or accepts), as
  each type has its own queue and the types do not interact but for the order of completion.
* Tests and build files, read for what they say of the programs.

## What could follow

1. Timers (`timer_queue`) and the timer descriptor of the reactor, under `EpollReactor`.
2. Strands (`strand_service`), with the promise that no two handlers of a strand run at
   once, over `TaskIoService`.
3. The composition of `AsioParkingLotServer` with `AsioIoService` for several threads, which needs
   a lot that tests and updates in one step first (`atomic_overshoot`).
