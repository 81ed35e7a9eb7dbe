# TLA+ specifications of rust_async_await

The repository holds the programs of two books on asynchronous Rust: servers,
executors, actors, queues and smaller experiments that share no code but are all
about the same thing, tasks that hand each other work and wake each other up.
The modules here model the programs that have a protocol of their own, check
them with TLC on small instances, and prove with TLAPS, for every size, every
invariant the runs check and the safety part of both refinements.

The code is the reference. Comments in the modules name the functions, and
PROJECT.json ("map") gives the lines of each definition.

## 1. The system: components, state, operations, interaction

| Component | State | Operations | Talks to | Hard |
|---|---|---|---|---|
| Echo server, `kohno_book_chap5/io_multiplexing.rs` | `sync_channel` of runnable tasks; per task a future; `IOSelector`: request queue (mutex), eventfd, waker map (mutex), epoll set | `Executor::run`, `Spawner::spawn`, `Task::wake_by_ref`, `Accept`/`ReadLine::poll`, `AsyncReader::drop`, `register`, `unregister`, `select`, `add_event`, `rm_event` | executor thread → selector: queue and eventfd; selector → executor: channel | two threads, descriptor reuse, one-shot epoll, own bounded channel, clients that stall or leave, lines that are too long or no text |
| Key-value actors, `chap8/key_value_store_actor_model.rs` | bounded channels, map in memory, writer's map, `data.json` | `set`/`get`/`delete`, `router`, `key_value_actor`, `writer_actor`, `load_map`, `heartbeat_actor`, Reset | messages with oneshot replies; heartbeats back through the router | abort between any two awaits, two writers on one file, circular waiting on full channels |
| Parking server, `chap10/server`, `async_runtime/{executor,sleep,waker}.rs` | `FLAGS`, park tokens, one channel and one `Executor.polling` per worker | acceptor loop, `spawn_worker!`, `Executor::poll`, `handle_client`, `Sleep::poll` | acceptor → worker: channel, flag, unpark | flag and park race, spurious wake-ups, panics, requests in pieces |
| TCP client, `chap10/client`, `sender.rs`, `receiver.rs`, `data.rs` | socket buffers, `TcpReceiver.buffer` | `send_data`, `TcpSender::poll`, `TcpReceiver::poll`, `serialize`, `deserialize` | the parking server | partial writes and reads, WouldBlock, reset on close |
| Waker executor, `executor/src/main.rs` | `polling` queue, `waiting` map, channel of ids | `spawn_rcv`, `run`, `poll`, wakers | wakers of other threads → channel | a waker before, after and beside the insertion into the map |
| Event bus, `chap6/event_bus.rs` | chamber (tokio mutex): queue per id; `dead_ids` (own mutex) | `subscribe`, `send`, `poll`, `unsubscribe` by drop, `garbage_collector` | consumers, sender and collector through the two mutexes | collector's copy and clear are two critical sections |
| Stealing queues, `chap3/{3_1,3_4,async_queue}.rs`, `chap4/{mio_socket,socket}.rs` | two flume channels, worker threads, the `Runnable` of each task | schedule closure, High/Low worker loops, `Runtime::run`, `join!`, futures that wake themselves, wakes by smol's reactor, tasks that spawn (`CustomExecutor`) | main, workers and reactor through the channels | stealing, panics, tasks that never end, cores - 2 workers |
| Await-script programs (below) | tasks, mutexes, channels, counters shared or of a thread | straight lines of awaits on a runtime of one or more threads | each other, through what they share | lock order and time-outs, lost updates, a lock kept while spinning, looking once |
| Echo servers, `kohno_book_chap5/{epoll_server,tokio_echo_server}.rs` | epoll set and tables, BufReader and BufWriter of each connection | accept, `read_line`, echo, close | peers that send in segments, leave, reset | blocking reads, lines left in a buffer, no flush, one unwrap for everybody |
| Coroutines and their loops, `chap5`, `kohno_book_chap5/{coroutine,scheduled_coroutine}.rs`, test in `chap10/async_runtime/src/main.rs` | a vector, queue or channel of coroutines | resume, complete, put back | only turns | turns, the loop's end |
| Tasks behind a mutex, `tests/sharing_data.rs`, `chap2/logging.rs`, `chap5/coroutine_test.rs` | the mutex, the counter or the file | `CounterFuture::poll`, `AsyncWriteFuture::poll`, `MutexCoroutine::resume`, `count` | the mutex | `try_lock` without a queue, failing writes |
| Thermostat, `chap6/thermo_control.rs` | atomics `TEMP`, `HEAT_ON`, snapshots | three polls | the atomics | decisions on stale loads |
| Sequential patterns, timing demonstrations, pointer and TLS glue | little or none | | | not modelled, see 7 |

The await-script programs are `chap11/{11_3,11_4,11_5}.rs`, `chap8/{8_1,8_2}.rs`,
`chap7/{7_1,7_2,7_3,7_4_2}.rs`, `chap5/coroutine_send.rs`, `chap9/9_1/async_mod.rs`,
`tests/{wake_from_outside,counter_future_test}.rs`, and accept and read of
`chap4/mio_socket.rs`.

What makes each correct:

* **Echo server.** No task is lost between channel, queue and waker map, none is
  in two of them; the selector's asserts and unwraps hold although descriptors
  are closed and reused while requests about them wait; neither thread blocks on
  its own channel or on the eventfd; clients get their lines back once, in order,
  and whole unless a line is longer than the server's write takes at once.
* **Key-value actors.** Cache, log and file agree in order; a caller is answered
  once or told that its request was dropped; nobody waits in a circle; without
  Resets the whole is one atomic map.
* **Parking server.** A parked worker can be woken; a connection is never lost or
  in two places; the decoder sees the beginning of what was sent; every
  connection is polled until it is answered.
* **TCP exchange.** The client ends, takes only a whole answer for an answer, and
  the server decodes nothing that was not sent.
* **Waker executor.** No wake-up is lost, `run` returns when all futures are done
  and not before.
* **Event bus.** Each subscriber gets each event since its subscription once and
  in order; the collector takes no live queue and all the dead ones it sees.
* **Stealing queues.** A live task that is not asleep has one `Runnable`, however it
  is stolen and whoever wakes it; main returns whenever there is a worker for what
  it waits for.
* **Await scripts.** No update is lost that a mutex, or there being one thread,
  protects; a counter is read with all that was awaited before; main returns, and
  its assertions hold.
* **Echo servers.** Pieces stay in order; tokio's server comes to the end of every
  connection, and the epoll server reads all that comes in whole lines, and has
  answered everything when everybody has finished.
* **Coroutines.** They take turns, in their order, and every loop ends.
* **Tasks behind a mutex, thermostat.** No lost update, no torn line, no task left
  behind; the room reaches the desired temperature and stays there.

## 2. Plan

Order of work, most important first (done unless marked):

1. `IoMultiplexing`, its abstract specification `LineEcho`, `IoMultiplexingProofs`.
2. `KeyValueActors` with the abstract `KvStore`.
3. `ParkingServer`, `ParkingServerProofs`.
4. `WakerExecutor`, `WakerExecutorProofs`.
5. `StealingQueue` with the programs of `QueuePrograms`, `EventBus`, and the proofs
   of both.
6. `TryLockTasks`, `Thermostat`, `TcpExchange`, composed in `SmallPrograms`.
7. `AsyncTasks` with the programs of `AsyncPrograms`, `EchoServers`, `Coroutines`, as
   further programs of `SmallPrograms`.
8. `KeyValueActorsProofs`, the counting of `ParkingServerProofs`, the refinement and the
   channel of `IoMultiplexingProofs`, `SmallProgramsProofs`.
9. *Open.* What is left is liveness, which stays with TLC (see 6).

## 3. Modules and how they correspond to the code

**`IoMultiplexing`.** Executor thread (`epc`), selector thread (`spc`) and the
clients. An action is what a thread does between two points at which the other
can see it: a whole poll, one push to the queue with its write to the eventfd
(`Request`), one descriptor of a batch (`DispatchFd`), one request of a drain
(`AddEvent`, `RmEvent`). The end of a drain with the read of the eventfd
(`DrainEnd`) is one action because the queue's mutex is held from the last
failed pop to the read. The epoll set is armed/disarmed (EPOLLONESHOT), and
`Close` gives the descriptor back while its REMOVE request may still wait. What a
client sends is numbered pieces; `Ends` tells which finish a line, `Long` and
`Garbled` which lines are too long for the BufWriter and which are not UTF-8: `write`
may pass on a part of the first (`Written`), and the second close the connection
(`ReadClosed`). `Crashed` (executor or selector panicked) is a state, not an excuse:
`SelectorNeverPanics` says the selector's never happens, `LineEcho` says when the
executor's may.

**`LineEcho`** is the promise to the clients: lines come back once and in order, only
long ones may lose their end (`cut`), connections are closed that ended or sent what
is not UTF-8, and the server stops only for a client that does not take its line, or
for want of descriptors. `Steps` is what may happen,
`Spec` adds that it does. The refinement mapping is `Echo`, at the end of
`IoMultiplexing`.

**`KeyValueActors`.** One action per step between two awaits of `router`,
`key_value_actor` and `writer_actor`; a generation is an actor and its writer, a
Reset aborts one and starts the next while the old writer goes on. `data.json` is
its length and the map it parses to, if it parses: `WriterTruncate` and
`WriterWrite` are the two halves of a save, `Overwrite` is a write over what
another writer left. `Drop` is what dropping a oneshot sender does to its caller.

**`KvStore`** is one map and calls that take effect at a moment (`Steps`), and that are
answered (`Spec`). `CurrentMap` of `KeyValueActors` is the refinement mapping: while the
actor loads, the map on its way from the file.

**`ParkingServer`.** The acceptor's send, load, clear and unpark are four actions,
and so are a worker's empty `try_recv`, store and park: that interleaving is what
the module is about. A worker that panics at `peer_addr` takes its connections
along. `handle_client` runs from await to await inside `Executor::poll`, and the
pending task goes to the back of the queue in the same action.

**`WakerExecutor`.** `poll` takes a task out (`PopFront`), polls it, and puts it in
the map (`Insert`) as separate steps, with wakers (`Fire`, `ExtraWake`) between any
two of them; `Recv` ignores ids with no task.

**`EventBus`.** The collector holds the chamber over its steps and `dead_ids` only
inside each (`GcClone`, `GcClear`), so `Unsubscribe` may fall between.

**`StealingQueue`.** A program is a record: what each worker thread tries in turn
(`loop`), the queue each task belongs to, how many polls it takes (0: it never ends),
which tasks may panic, which are woken from outside, what they spawn, and what main
does. A worker tries its queues in turn, then sleeps; a future that wakes itself, or
is woken while it is polled (`notified`), is scheduled again after its poll, another
one sleeps until `Wake`. `Started` is the LazyLock: no threads before the first task
of an order. `catch_unwind` is `RunPanics`; main passes a panic on, which is `step = 0`.

**`QueuePrograms`** is the mains of the five files that carry a copy of these queues,
as such records. Those with a `Runtime` have `cores - 2` High workers, for which
`CoreCounts` gives the number of cores; `3_4.rs` has three, `3_1.rs` one queue and one
thread. `MCStealingQueue` adds a main of ours for `try_join!`.

**`AsyncTasks`** runs tables of `AsyncPrograms`: a straight line of operations per task.
A task keeps its thread until it awaits something that is not ready, so that tasks
that share a thread interleave at awaits only and those of different threads
everywhere. `lock` is tokio's fair mutex, `block` the standard library's, which blocks
the thread; `take` looks once and, if it came too early, never again; `spin` loops
without an await. `await` is a join under a time-out, and `assert_eq` an assertion about a
counter: a main that fails one stops (`at = 0`), and the process with it. Sleeping futures that wake themselves are a `sleep`. What a program
computes is left out, unless it is a counter others read or write.

**`EchoServers`** has both servers on one set of variables: a peer's pieces are on the
net, in the BufReader, in the BufWriter or echoed. In `epoll_server.rs` one thread
handles the events of a batch and `EpollEcho` waits, with the batch in its hand, for
the end of a line; its unwraps (`EpollPanics`) end it for everybody. In
`tokio_echo_server.rs` each connection is a task of its own, which ends alone. A line as
long as the BufWriter does not go through it: `epoll_server.rs` hands it to the socket by
one `write` and does not look at the count. Its socket blocks, so that the count is
short only if the peer is gone meanwhile.

**`Coroutines`.** A ring is who takes turns in which order, how many resumes each needs
(random, or the time, is a number chosen in `Init`), who ends the loop and who may
panic. The executors of `chap5/executor.rs`, `scheduled_coroutine.rs` and `chap10` and
the loops over a vector differ in where the queue is kept, not in the turns they give.

**`TryLockTasks`.** The guard is taken and given back in separate steps so that
polls overlap. A poll that finds the mutex taken changes nothing but to wake
itself, so it is no step of the model; the mutant `TryLockOnce` is the poll that
forgets to. The u8 of `coroutine_test.rs` cannot overflow, since its
only main counts to 4.
`write_all` is two writes, either of which may fail. In `async_test`
one thread polls both coroutines; the model lets them overlap as well.

**`Thermostat`.** A poll's load and store are separate steps. Time goes in ticks,
and each future is polled at least once between two ticks.

**`TcpExchange`.** A `Data` is a sequence of units. `Write` is one `write` inside
`write_all`; `WriteWouldBlock` forgets how far it got, as `poll` does. The server
half is `handle_client` again, this time with the content of its buffer.

**`SmallPrograms`** runs the six modules `TryLockTasks`, `Thermostat`, `TcpExchange`,
`AsyncTasks`, `EchoServers` and `Coroutines`, one program in each behaviour; the tasks of
one kind share one mutex. `MCSmallPrograms` and the other `MC` modules give constants
their values and hold the properties that need TLC's instance.

Three properties count what the reader would rather see said directly: `OnePlace`,
`RequestsInFlight` and `EveryUpdateCounts` are cardinalities of sets of places or of
updates, so that the proofs can reason about the sets.

Definitions whose comment says *Mutant* are wrong versions of the definition that
follows: PROJECT.json ("mutants") pairs each property with one that breaks it.
No specification uses them.

## 4. Runs: what each checks, its bounds and what it shows

| Run | Instance | Shows |
|---|---|---|
| `io_server` | 2 clients × 2 lines, one of them long and one not UTF-8, 2 descriptors, channel of 3, clients may stall or close | invariants of the two threads, and that they implement `LineEcho` with its liveness |
| `io_whole_lines` (violation) | lines of two pieces | a line in two segments loses its first |
| `kv_resets` | 2 callers × 1 set, 1 Reset, files may fail | log, cache (`CacheInv`, with the types) and requests across Resets; every call ends |
| `kv_refines` | 2 callers × 2 calls of any kind, heartbeats of both actors, channels of 2 | refinement of `KvStore`; the file catches up |
| `kv_acked` (violation) | 1 caller, set and get, 1 Reset | an acknowledged value is gone |
| `park_safety` | 2 workers, 2 clients × 2 pieces, clients leave or reset | nobody deaf, every connection in one place, prefixes decoded |
| `park_live` | 1 worker, 2 clients × 2 pieces | the next request wakes a worker that missed one; all are served |
| `park_lost` (violation) | 2 workers, 2 clients | a worker parks beside a request |
| `waker` | 3 tasks × 2 awaits, 2 needless wakes | no wake-up lost; `run` returns exactly when it should |
| `bus` | 3 consumers, 3 events, stop at the third | order and completeness of delivery, collection of dead queues |
| `queue` | the five programs on 2 and on 3 cores, and one with `try_join!` and two tasks that fail | one `Runnable` per live task; main returns, or is starved by the background process for want of a High worker |
| `small_programs` | the mains of the mutex tasks; room 4 below the desired temperature, 3 ticks for 3 s; 3 units through a socket of 2, answer of 2, 2 blocked writes; 15 await scripts; both echo servers with 2 peers × 4 pieces, one of them not UTF-8; 7 rings of up to 3 coroutines | see `SmallPrograms`: 9 properties of the six modules |

Why these bounds are enough to see the interesting cases:

* Two descriptors and two clients with two lines: a descriptor is closed while its
  REMOVE waits and is reused by the other client, and both are in the same batch.
  `Cap = 3` is the number of tasks: `SendsNeverBlock` says that this suffices (1024
  in the code, so up to 1023 connections). With two descriptors `accept` never
  fails; the failing branch is in the model and in the proofs. The first line of one
  client is long, so that its answer may be cut, and its second is not UTF-8, so that its
  descriptor is closed while it is there; the other's lines are neither.
* One Reset makes two generations, which is what shares the file; a third would
  only repeat it. Channels of 2 with heartbeats get full, as 32 would.
* Two workers are needed for the acceptor's turn to pass on; the code has three.
  `park_safety` is symmetric in the clients and has only invariants;
  liveness is checked without symmetry.
* Two awaits per task let a stale id of the first meet the task waiting for the
  second; three tasks let `run` poll others between.
* Two cores is the least on which `num_cores - 2` is a number, and there no High
  worker exists; on three there is one of each kind, which is what stealing takes.
  With more the queues only hold less. Three High workers are in `3_4.rs`'s program.
* Two of everything in the await scripts (`Rounds = Room = 2`): two threads, two
  messages of room and two more to come, two tasks at a mutex.
* Four pieces, of which the first, second and fourth end a line, and a BufWriter of 2:
  two short lines fill it, and the third, of two pieces, goes past it, or, cut by the
  end of the stream, pushes them out. The fourth piece of one peer is not UTF-8. Two
  peers: one blocks the other.
* Three consumers: one subscribing, one reading and one dropping its handle.
* In `small_programs` the thresholds of the two coroutines are 2, as in the test, and the
  futures and tasks of `sharing_data.rs` update three times; the room starts 4 hundredths below instead of 10, which only
  shortens the way; and a socket takes fewer units than a message has, which is
  when `write_all` blocks. A real `Data` of this client fits any socket; `TcpSender`
  takes buffers of every size. Period 3 is the shortest that is longer than the
  display's delay of two ticks; polls are in fact milliseconds apart.

Deadlock is not checked (CHECK_DEADLOCK FALSE) where clients or callers may have
made all their moves and everything rests; that the rest is the right one is what
the liveness properties say.

## 5. Fairness

* `IoMultiplexing`: weak fairness of the executor and of the selector: threads run.
  Clients owe nothing. `LineEcho`'s liveness follows from that alone.
* `KeyValueActors`: weak fairness of each actor, since tokio polls what is ready, and
  strong fairness of the two sends of heartbeats, since tokio's semaphore serves
  senders that wait for room first come, first served. Timeouts, Resets, errors
  and calls are never forced.
* `ParkingServer`: weak fairness of acceptor and workers, and time passes (`Tick`).
  Spurious wake-ups are allowed and never relied on.
* `WakerExecutor`: `run` goes on, and what a future awaits happens.
* `EventBus`: strong fairness for what needs the chamber, as tokio's mutex is first
  come, first served; main sends all its events.
* `StealingQueue`: weak fairness of main and of every worker thread, which the
  operating system schedules; a task that sleeps is woken, by the reactor it has
  registered with.
* `AsyncTasks`, `Coroutines`: some task that can go on does. No task goes on for ever, so
  that no fairness between tasks is needed. Five seconds of a time-out pass only when no
  other task can go on (`TimeOut`): the others have milliseconds of work. Other sleeps
  may end at any time.
* `EchoServers`: the server goes on; peers owe nothing, neither the rest of a line nor
  an end.
* `TryLockTasks`, `Thermostat`, `TcpExchange`: weak fairness of each task, of each future and of time, of client
  and of server. `AllTasksEnd` needs no more because every holder of a mutex
  makes finitely many updates.

## 6. Proofs

All proofs are of safety, for every value of the constants under the named
assumption of the module (`ConstantsAssumption`, `ServerAssumption`,
`ExecutorAssumption`, `BusAssumption`, `QueueAssumption`, `KvAssumption`, `ProgramsAssumption`,
`ScriptsAssumption`: markers such as "no task" are not tasks, descriptors of listener and
eventfd are their own, sizes are naturals, programs and scripts are well formed). TLC
evaluates these assumptions in each run of the module. Where a theorem needs more it says
so itself, with an ASSUME of its own.

**`IoMultiplexingProofs`.** `ServerInvariant` proves `IndInv`, one lemma per action.
The properties are not inductive alone. `AtMostOneHome` and `StaleRemoveHarmless`
need each other: an ADD finds its slot free because its task is nowhere else, a
REMOVE hits nobody because the owner of its descriptor was being polled when it
was made. Both need `FdInv` (one owner per descriptor, and only the connection about
to be spawned owns one without a live task), `BacklogInv` and `QueueInv` (an ADD
carries the descriptor its task owns). `SelectorNeverPanics` needs `SelectorInv`: what
epoll may report, or has reported, has a waker. Theorems: `SelectorIsSafe`,
`OneHome`, `NothingIsLost`, `StaleRemovesAreHarmless`, `DrainsEnd`.

`ChannelHasRoom` (`SendsNeverBlock`) counts on top of it. Every task in the channel or in a
sender's hand is there once (`AtMostOneHome`), and all of them but `accept` own a descriptor
each, so `Cap > Cardinality(Fds)` is room enough. The hypothesis is what the code owes: 1024
slots, and a process that by default may open 1024 descriptors, of which six are in use
before the first connection. `LinesComeBack` is `Spec => Echo!Steps`, one lemma per action,
mapping it to a step of `LineEcho` or to none, for any sets of long lines and of lines that are
not UTF-8: what may be cut is a line of 8 KiB or more, whose `write` was short. It is for a finite number of clients whose
segments are whole lines (`Ends = 1 .. MaxPieces`), since for others it is false, which is
what `io_whole_lines` shows. That an executor's panic is one that `LineEcho` allows is its
hardest step: who gets no descriptor has as many connections before it as there are
descriptors.

**`KeyValueActorsProofs`.** `CacheInvariant` proves `CacheInv`, which TLC checks as well. Alone,
`CacheIsLogAhead` is not inductive: it needs `FirstIsLoad` (nothing but the Get is in a
writer's channel until its answer is taken, and a writer exists before its actor asks it)
and `GensInOrder` (a Reset starts a generation that was never used). No induction over the log
is needed, as `LogAhead` says of each key what its last write is; appending to the log and
taking its head are a lemma each. `FlightInv` says where each request is: in exactly one place
while its caller waits, in none otherwise. `RequestsAreInFlight` counts it, and
`RouterIsFree` follows, since a channel as long as there are callers cannot be full
of other callers' requests when the router holds one more. `FileIsCurrent` is about the first
generation when there is no other. `StoreIsRefined` is `Spec => Store!Steps` for
`MaxResets = 0` and `~MayFail`; its invariant `Calm` says that then actor and writer never end.
Both hypotheses are needed: `kv_acked` is what happens with a Reset.

**`ParkingServerProofs`.** `IndInv` is `NoDeafWorker` with `ConnectedOnly` (only connected
clients are anywhere in the server) and `Hands` (a hand is full exactly at the program
counters that pass something on), `ParkedIsIdle`, `DecodedIsPrefix` and the types; the
step lemmas are grouped by conjunct, because most actions leave most conjuncts
alone. Theorems: `WorkersCanBeWoken`, `PiecesAreKept`, `OnlyIdleWorkersPark`. `NobodyIsLost`
(`OnePlace`) rests on `LinesApart`: no connection is twice in a line (backlog, channels, queues
and hands), none in two lines, and those in a line are those the server has not finished.
A hand-over takes from one line and adds to another in one step, so that each action disturbs
two lines only.

**`WakerExecutorProofs`.** `IndInv` adds `OneHome` (queue, hands and map are disjoint and
are together what is unfinished) and `Hands`. `NoLostWake` is stated for the map *and*
for the task between poll and insertion, which is what makes it inductive: the early
waker is the case that the bare statement about the map does not carry. Theorems:
`WakesAreKept`, `RunFinishesAll`.

**`EventBusProofs`.** `IndInv` has the types, `LiveIsSubscribed` (a handle that is not
dropped has its queue), `NothingMissed` (what was read and what is in the queue end
with the event sent last) and `OnlyDeadAreCollected` (what the collector has copied,
and what is in `dead_ids`, belongs to dropped handles): `GcRemove` acts on a copy, and
only the last conjunct says that a copy does not get stale, since a dropped id is
never subscribed again. Theorems: `BusInvariant`, `NoEventIsMissed`, `LiveQueuesStay`.

**`StealingQueueProofs`.** `OneRunnable` is a sum of three cardinalities. The invariant
says the same without numbers: no task twice in a queue or in both (`QueuesOnce`), none in
two hands or in a hand and a queue (`HandsOnce`), and those with a `Runnable` are the live
ones that do not sleep (`LiveHaveOne`); `CountOnce` turns that into the sum. It also needs
`UnspawnedAreNew`: main and tasks spawn only what does not exist, which holds because
no task is spawned at two places. That is `SpawnsOnce` in `QueueAssumption`, a fact about
the form of the programs: a spawn makes a task of its own. The set of programs, their
workers and their tasks are any. Theorems: `QueueInvariant`, `RunnablesAreUnique`.

**`SmallProgramsProofs`**, for any numbers of tasks, rounds, peers, pieces and units:

* `CoroutinesTakeTurns`: the queue is in the order of turns, first by how many each has had,
  then by place in the ring, and nobody who needs a turn is out of it (`RingOrder`).
* `PiecesStayInOrder`: echoed, BufWriter, BufReader and net, one after the other, are what the
  peer sent, in order, as long as it is there (`EchoInv`): what a reset cuts off is lost.
* `ExchangesAreHonest`: as long as no write was blocked and repeated, what the server has
  decoded, its buffer and what is on the way are the beginning of what was sent
  (`ExchangeInv`).
* `UpdatesCount`, `LinesStayWhole`: who updates owns the mutex, and what it has read is still
  the value (`GuardInv`); a writer in the middle of its line is the last in the log
  (`LogInv`).
* `WaitersAreServed` (`NobodyWaitsInVain`): a task that awaits tokio's mutex is in its queue
  once, and either a task holds the guard and is still to give it back, or the first of the
  queue can take it (`QueuesInv`, `HoldersInv`). It says for any tasks what keeps
  `ProgramsEnd` from failing by a lost wake-up or a leaked guard.
* `RoomStaysNear` (`NeverFarOff`): the room is never more than two losses of heat colder than
  the colder of its first and its desired temperature, nor more than one warming warmer than
  the desired one, unless it began so. The display decides on a temperature that may be gone,
  and the heater warms on a `HEAT_ON` that may have been cleared, so the bounds hold only by
  the ages of the time snapshots: `ColdInv` says how much older than the loss's the heater's
  is when the room is that cold, `WarmInv` how long the heater can be on in a room that is
  too warm. The hypothesis, `Period > 2`, is that three seconds are longer than the two ticks by
  which a decision may be late.
* `UpdatesAreAdded`: a task about to store has kept its thread since its load
  (`PendingInv`) and has the mutex it locked (`HoldInv`); so another task about to
  store the same would be on the same thread, or own the same mutex (`OneStores`). What is
  not guarded is at most as much as was stored, and at least one.
* `ReadsAreComplete`: what main joined is over, and nothing of it is stored any more (`JoinInv`,
  `ReadInv`).

The last two are about scripts of a form, `WellFormed`, not about the fifteen: a store right
after its load, unlock by the owner, each task spawned at one place, and so on. The
assumption that the tables of `AsyncPrograms` have this form, `ScriptsAssumption`, is
evaluated by TLC for the numbers of rounds and of room of the run.

**`SequenceLemmas`**: what appending to, concatenating with, cutting and taking the head off a
sequence does to the set of its elements, to their number and to its having none of them
twice. All proofs but those of `EventBus` and `IoMultiplexing` use it.

Only model-checked: liveness (`RunReturns`, `MainsReturn`, `ConsumersEnd`, `EveryCallEnds`,
`FileCatchesUp`, `NextRequestWakes`, `ExecutorServesAll`, `SettlesAtDesired`, `ProgramsEnd`,
`SeenDeadAreCollected`) and the fairness of both refinements (`RefinesLineEcho` and
`RefinesKvStore` are the proved `Steps` and the liveness of `Spec`), which with fairness and
ENABLED is outside what TLAPS proves here. The safety that some of it rests on is proved:
`NoLostWake` for `RunReturns`, `OneRunnable` for `MainsReturn`, `RequestsInFlight` for
`EveryCallEnds`, `NobodyWaitsInVain` for the mutex's part of `ProgramsEnd`, `NeverFarOff`
for `SettlesAtDesired`.

## 7. What the models found, and what they leave out

Findings (each with a run that shows it):

* `io_multiplexing.rs:228`: every poll of `ReadLine` starts with a new `String`, so the
  part of a line read before WouldBlock is lost (`WholeLines`).
* `key_value_store_actor_model.rs:160-161, 180-182`: after a Reset the new writer reads
  and recreates the file while the old one has not written, so an acknowledged value
  may be gone (`AckedSurvivesReset`).
* `chap10/server/src/main.rs:24-31` against `103-108`: a request that arrives between
  `try_recv` and `store` is slept beside until the worker's next turn
  (`FlaggedWorkerIsWoken`; `NextRequestWakes` shows that the next turn does wake it).

What the code does, and no property promises otherwise (the hazards of PROJECT.json say
at each line what is promised beside it):

* `io_multiplexing.rs:329`: the count of `write` is not looked at. A line of 8 KiB or more
  goes past the BufWriter to a socket that does not block, and may come back in part.
  `LineEcho` has it as `cut`.
* `io_multiplexing.rs:241-242`: any error of `read_line` but WouldBlock, a line that is not
  UTF-8 included, closes the connection of a client that is still there.
* `async_queue.rs:67, 147` and its copies: on two cores no High worker exists, and the Low
  one never steals beside a background process, so that main waits for ever (the exception
  of `MainsReturn`); on one core `num_cores - 2` underflows.
* `mio_socket.rs:200`: an accept before the data has come drops the stream, and the
  future waits for a connection that does not come again. Of this program, as of
  `wake_from_outside.rs`, `ProgramsEnd` says nothing (`MayBeTooEarly`).
* `wake_from_outside.rs:62`: were the trigger earlier than the future's first poll, its
  loop would hold the mutex that poll needs. Three seconds of sleep are between.
* `epoll_server.rs:67-68, 81-82`: half of a line blocks everyone; a second line in a segment
  waits until its peer sends more, or ends; a reset, a peer that is gone, or a line that is
  not UTF-8 ends the server. `ServersServe` is what is left: what comes in whole lines is
  read, and when all have ended their sides, everything is answered.
* `tokio_echo_server.rs:28`: the BufWriter is never flushed; a short answer is dropped when
  the connection ends.
* `11_3.rs` deadlocks and `11_4.rs` loses updates, on purpose, and their assertions (lines 28
  and 29) fail then: `MayFail`. On the runtime of the comment in `11_4.rs:15` none is lost, and
  `ProgramsEnd` says that the assertion holds.
* `logging.rs:40`: a write that fails leaves a half line, which the next one follows.

And outside the models: `heartbeat_actor` never resets anyone, since its timeout branch
continues (`key_value_store_actor_model.rs:202`); an unsubscribe between the collector's copy
and clear is never collected (`event_bus.rs:86-87`); `raw_waker.rs` would free its pointer
twice, and is not used; `9_1/async_test.rs:12-13` returns `Ok(22)` where line 39 expects an
error; `basic_test` of `coroutine_test.rs` expects a yield at lines 87 and 89 from
coroutines whose threshold of 2 is reached there, and which complete.

Not modelled:

* Process crashes of the key-value store, between `set_len` or `File::create` and the write
  (lines 160-182). The same window between two generations is what `AckedSurvivesReset`
  shows.
* Lasting read errors of a socket (after a reset Linux reports one error, then the end
  of the stream); `accept` failing with EMFILE is in `IoMultiplexing` and in its proofs, but
  not in the run's instance.
* Wrap-around of the u32 subscription ids; clocks, except the thermostat's.
* Wording and rendering; key presses of the thermostat.
* `socket.rs`: `CustomConnector`, `SmolStream`, `SmolListener` forward calls between hyper, TLS and
  smol, and line 21 says that they no longer compile.
* `11_7.rs`: one task polls two futures by hand, in the same order every time (the guard of
  the first is gone when it is Ready, before the `drop` of line 35).
* `chap9` except `9_1/async_mod.rs`, `11_6.rs`: one await after the other, with the same end
  every time. `non_blocking_sleep`, the breakfasts: they print elapsed times. `7_4_1.rs` waits
  for ctrl-c. `not_coroutine.rs` is a loop that writes a file. `basic_actor` of `8_1.rs` is
  not started. The configuration of tokio in `chap7`.
* `raw_waker.rs`: pointers, unused. `executor/target` is build output.
