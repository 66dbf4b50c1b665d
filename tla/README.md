# TLA+ specifications of cpp-private

This directory models the parts of the repository that keep state shared by
threads or that follow a protocol: the thread pools and their queue, the
readers-writer locks, the connection pools, the timers, the TCP server, and the
HTTP classes, with the buffer and the parsers they build on. TLC checks small
instances of the modules; TLAPS proves, for every value of the constants, the
results listed under *Proofs*.

## Inventory of the system

The repository is a collection of C++ libraries. Its own code is in
`libpublic`, `libpublic/workpool`, `libnetwork/libtcp`,
`libnetwork/workflow-http`, `libredis` and `libdb`; `libnetwork/workflow`,
`libnetwork/libevent` and `libredis/hiredis` are vendored.

| component | state it keeps | operations | what is hard |
|---|---|---|---|
| `SyncQueue` (libpublic/syncQueue.h) | a FIFO queue, a mutex, a condition variable | `push`, `pop` (blocking), `tryPop`, `empty`, `size` | lost wakeups, several consumers |
| `WorkerPool`, `Worker` (workpool) | workers with a queue each, round-robin cursor, atomic counters, limit | `Start`, `Stop`, `AddTask` (round robin or hashed), `TaskCompleteStatus` | completion runs without the pool's mutex; counter and limit; a wait whose notifier holds no lock; Stop with work queued |
| `WaitGroup`, `WaitGroupWorkerMgr` (workpool) | the same, and a counter clients wait on | `AddTask`, `Wait`, `Reset`, `Stop` | `Done` before `Add`, early return of `Wait`, lost wakeup |
| `BatchWorker`, `BatchWorkerMgr` (workpool) | the same, and the batch being collected | `AddTask`, `Handle`, `TaskComplete` | batch limit and time-out |
| `Sync::RWMutex` (libpublic/rwmutex.h), `tcp::RWLock` (libtcp/rwLock.h) | reader and writer counts | read lock, write lock, unlock | mutual exclusion, lost wakeups, starvation |
| `TimeTicker`, `Timer` (libpublic) | timers in an ordered map, a ticking thread | `addTimer`, `addTimerAfter`, `start`, `stop`, `run` | callbacks run with the mutex held; catching up; stop and restart |
| `CTcpMaster`, `CWorker`, `CAcceptor`, `EventTimer`, `SyncList`, `Connection` (libtcp) | listening socket, per worker a list of new connections, a pipe and a map of live ones | accept, dispatch, send, close, keepalive check | hand-over between threads, ownership of connections, stale iterators |
| `CPGConnectionPool`, `CPGClient`, `CPGClientWrap` (libdb) | slots with connections, free list, idle lists by key | `getConnection`, `returnConnection`, `checkConnection`, `setMaxConnectionCnt` | slots that are free and occupied at once, broken connections |
| `CRedisClientPool`, `CRedisClient`, `CRedisClientWrap` (libredis) | slots with clients, lists of usable slots by host | `getClient`, `getClusterClient`, `returnClient`, `setClientCnt`, `checkConnection` | one client in two lists, slots lost, counts |
| `HttpEngine`, `Router`, `Context`, multipart, cookies (workflow-http) | routes, handler chains, per-request state | `AddRoute`, `Use`, `Start`, request handling | start before the handlers are complete, chain and abort index |
| `ByteBuffer`, `CLocaltime`, `CDatetime`, hashes, URL, strings, UUID, random numbers (libpublic) | none that is shared | pure functions | boundary values |

How the parts meet: every pool gives each of its worker threads a `SyncQueue` of
its own; `WaitGroupWorkerMgr` adds a `WaitGroup` to the same scheme. The TCP
server hands connections from the master's thread to the workers' threads through
a `CSyncList` and a pipe, and guards each worker's map with a `tcp::RWLock`. Both
connection pools are driven by their users' threads and by a ticker thread. The
HTTP classes sit on the vendored *workflow* library and run in its threads.

What makes each component correct:

* **SyncQueue** - FIFO, nothing lost or duplicated, no value left in the queue
  while a thread sleeps for it.
* **WorkerPool** - the counter is exact in spite of unlocked decrements, the
  limit holds, tasks of one key run in order, accepted tasks run, `AddTask`
  returns, round robin is even, a stopped worker takes at most one more task.
* **WaitGroup** - the counter is exact up to the window between push and `Add`;
  `Wait` returns neither too early nor never.
* **Readers-writer locks** - exclusion; no wakeup is lost; `RWMutex` prefers
  writers.
* **Connection pools** - a connection belongs to one user at a time, is connected
  to what was asked for, is not closed while used; the lists agree with the
  slots; no slot is lost.
* **TimeTicker** - callbacks neither early nor twice, no drift, none after
  `stop`, due ones fire.
* **TCP server** - one owner per connection, no descriptor in two maps, no
  connection forgotten between the threads.
* **BatchWorker** - as WorkerPool; no batch larger than the limit, none kept for
  ever.
* **HTTP** - a request goes to the first route that describes its path; its
  handlers run in order, each at most once, none after `Abort`; `IsAborted` is
  right; a request has all middlewares in its chain, one that is answered with
  404 or 405 too; a form is what was sent.
* **ByteBuffer** - what was put is read back.

The situations that tests hardly reach are listed, each at its line, under
`hazards` in `PROJECT.json`.

## Modules

| module | models | state and actions |
|---|---|---|
| `WorkerPool` | workpool/workerPool.cpp, worker.cpp | The members of the class keep their names; `apc`, `wpc` are program counters of the threads that call `AddTask` and of the workers. `CallAddTask`, `ChooseWorker`, `CheckLimit`, `Block`, `Relock`, `Push`, `CountTask` are the atomic steps of `AddTask`; `TestEnable`, `Pop`, `Execute`, `Uncount`, `NotifyOne`, `CountFailure` those of `Worker::Run`/`Handle` and `TaskCompleteStatus`; `StartWorker`, `StopWorker` one turn each of the loops of `Start` and `Stop`. Counters are modulo `Word`, which stands for 2^32. |
| `MCWorkerPool` | - | keys, hash values and the symmetry set for TLC |
| `SyncQueue` | syncQueue.h | one action per critical section: `push`, `popValue`, `popBlock`, `tryPop`; histories `pushed` and `popped` |
| `CondVar` | `std::condition_variable` (external) | what `notify_one` and `notify_all` do to program counters |
| `WaitGroupPool` | workpool/waitGroup.h, waitGroupWorkerMgr.cpp, waitGroupWorker.cpp | as `WorkerPool`, with `Add`, `Dec`/`Load`/`NotifyWaiters` for `Done`, `WaitTest`/`WaitCheck`/`WaitBlock` for `Wait`, and `Reset` between rounds |
| `BatchPool` | workpool/batchWorkerMgr.cpp, batchWorker.cpp | as `WorkerPool` for `AddTask`, except that `CountTask` comes before `Push`; `TestQueue`, `Gather` (one turn of the loop, the clock being a choice), `ExecuteBatch` for `Handle`, and `Uncount`/`NotifyAdder` for each call of `TaskComplete` |
| `PoolParams`, `MCBatchPool` | - | constants that `WaitGroupPool` and `BatchPool` share; symmetry for TLC |
| `RWLockSpec` | - | abstract specification of a readers-writer lock |
| `RWMutex`, `TcpRWLock` | rwmutex.h, libtcp/rwLock.h | one action per critical section; a woken thread re-evaluates its predicate in a step of its own |
| `ThreadSet` | - | the threads at a lock or a queue |
| `ByteBuffer` | libpublic/byteBuffer.h | the vector's memory and size apart, since the code writes behind the size; `Put`, `Get`, `Clear`, `Resize`, `Copy`; `lost` records which step has thrown away what was behind the size |
| `MCLibs`, `TcpParams` | - | both locks, `ByteBuffer` and `TcpServer` in one model, one of them used in a behaviour; the constants of `TcpServer` |
| `MCQueues` | - | `SyncQueue`, `WaitGroupPool` and `TimeTicker` in one model, one of them used in a behaviour |
| `SlotPool` | - | abstract specification of a connection pool |
| `PGPool`, `RedisPool` | libdb/PGConnectionPool.cpp, libredis/redisClientPoll.cpp and the wrappers | one action per outcome of an operation, since each runs under `m_mutex` from end to end; `checkConnection` is the ticker's turn |
| `SlotLists` | - | the users of both pools; `Ascending`, the order in which a loop meets slots, and `Without`, which is `std::list::remove` |
| `MCPools` | - | both pools in one model |
| `TimeTicker` | timeTicker.cpp, timer.cpp | `MakeTimer`/`addTimer`, `start`, `stop`/`clear`; the steps of `run` with the scan of the ordered map; `tickerMutex` is its `m_mutex`; `Tick` is the clock |
| `TcpServer` | libtcp/tcpMaster.cpp, acceptor.cpp, worker.cpp, eventTimer.cpp, syncList.h | `AccepCb`, `DispatchSfdToWorker`, `WritePipe` and their failures for the master; `ReadPipeCb`, `TakeHead`, `InitNewConn`, `CheckClientKeepaliveCb`, `ClientTcpEventCb`, `Erase`, `CloseConn` for a worker; descriptors are given out again once closed |
| `HttpContext` | workflow-http/context.cpp | `index`, the stack of running handlers, and the steps of `Next`: entering, calling a handler, its return, leaving; `Abort` |
| `Router` | workflow-http/router.cpp | `Match`, the loop of `GetRouterNode`, and `Describes`, `Values`, the definition by segments it is compared with |
| `HttpEngine` | workflow-http/engine.cpp, router.cpp, context.cpp | The owner of the engine: `Use`, `AddRoute`, `Start` followed by the turns of the loops that rebuild the error chains, each a `BeginPush` and an `EndPush` since `push_back` is not atomic, and `Stop`. The threads of the server: `HandleHTTPRequest` up to its call of `Context::CombineHandlers`, the loop of that with `TestSize` and `CopyElement`, and `Serve`. While a `push_back` changes the vector a thread copies, its test of `size()` has any outcome, and reading an element may be `CopyGarbage`, after which nothing is defined and the model stops. Uses `Router` |
| `Multipart` | workflow-http/multipart_parser.c, multipart.cpp, multipart.h | one action per case of the parser's `switch`, with the callback it makes; `last` says that a piece of the body ends there |
| `MCHttp` | - | the four modules above in one model, one of them used in a behaviour |
| `HttpCookie` | workflow-http/httpCookie.cpp, context.cpp | `Parse`, `String`, `SetCookie` |
| `WordArith` | - | lemmas on `%` |
| `WorkerPoolProofs`, `BatchPoolProofs`, `QueueProofs`, `TimeTickerProofs`, `PoolProofs`, `LibsProofs`, `HttpProofs` | - | theorems and proofs; the last three extend the MC module whose parts they are about |

An action is one step that other threads can see: a critical section, one access
to an atomic, one operation of a queue, one callback or one character of a
parser. `WorkerPool`, `WaitGroupPool` and `BatchPool` treat an operation of the
worker's queue as one step; `SyncQueue` models that operation in
detail and shows that it loses neither values nor wakeups. The map in
`PROJECT.json` gives for each definition the lines it stands for. Definitions
introduced by a comment "Mutant:" are plausible bugs; `PROJECT.json` pairs each
with the definition it would replace and the property that notices.

## Runs

| run | instance | what it shows |
|---|---|---|
| `pool_limit` | 3 adders, 3 tasks, 2 workers, limit 0, `Word` 8 | `CountExact`, `TotalBound`, `Balanced`, and that tasks run and `AddTask` returns. With the limit 0 (`m_nWorkerMaxTaskCount` * `m_nWorkerCount` = 0, the test being `>`) every second adder waits; three adders are needed for two to wait at once. |
| `pool_keys` | 2 adders, 4 tasks with two keys and none, 2 workers, a hash that is in range for one key and negative for the other, `Stop` at any time | `TypeOK`, `KeyOrder`, `StopDrain`. The adders are symmetric. |
| `queues` | 4 threads and 3 values at a queue; or 2 clients, 2 tasks, 2 workers, limit 0 at a wait-group pool; or 2 users, 2 timers (one `Once`), 2 runs, clock up to 2 at a ticker | Queue: `NoneStranded`, `Fifo`; a notified thread, a late consumer, a sleeper and a producer occur together. Pool: `CounterExact`, `WaitSound`, `WaitReturns`; one client waits inside the other's window. Ticker: `StopSilences`, `OnSchedule`, `OnGrid`, `DueFires`; two runs are what a stop and a start leave behind |
| `batch` | see `BatchPool.cfg`: clients and tasks enough for a full batch, a partial one and a client that waits for the limit, hashes in range and not, `Stop` at any time, the limit enabled or not | `BatchCountExact`, `BatchOrder`, `BatchStopDrain`, `BatchProgress` |
| `libs` | 4 threads at either lock; a buffer of capacity 2 or 5 for values of 1, 2 and 4 bytes, 2 puts between `Clear`s or `Resize`s; 3 connections, 2 descriptors, 2 workers and pipes of 1 byte | Locks: both implement `RWLockSpec`, counters exact, `WriterPreference` of `RWMutex`, `LockProgress` of both; four threads give two readers and two writers, waiting and inside, in every combination. Buffer: `RoundTrip`; the capacities let it grow at the first put, later, or not. Server: `OneOwner`, `AcceptedIsServed`; with fewer descriptors than connections one is given out again, to the other worker or the same. |
| `pools` | 3 users, 2 keys, 2 slots growing to 3 (Redis: also shrinking to 1), 2 resizes | both pools implement `SlotPool`, their lists are exact, and slots are not lost but in the cases named below |
| `http` | chains of up to 4 handlers, `abortIndex` 3 (the longest chain that Abort can stop is the 4), 5 calls of `Next`; 2 middlewares, 2 routes of 3 patterns (plain, parameter, wildcard), 2 methods, 2 starts, one thread that serves requests; all patterns up to 4 characters with all paths up to the bound; forms of two parts with every content of letters, hyphens, CR and LF up to the bound, every combination of headers, or a lost token | `ChainOrder`, `AbortedExact`, `Dispatch`, `SettledChain`, `RouterExact`, `FormExact` |
| `pg_broken`, `redis_grow` | as `pools`, without the restriction at issue | violations, see *Findings* |
| `engine_use` | as `http` | violation, see *Findings* |
| `buffer_grow` | a buffer of capacity 2 or 5 | violation, see *Findings* |
| `cookie_set` | texts of up to two items | violation, see *Findings* |

Bounds are constants of the modules, named there: `ResizeLimit`, `Runs`,
`MaxTime`, `MaxNext`, `MaxUse`, `MaxRoutes`, `MaxStarts`, `MaxPattern`, `MaxPath`,
`MaxContent`, `MaxPuts`, `MaxEmpties`, `MaxItems`, the finite sets of tasks, values
and connections, each used once. In the pools `Word` is 8 so that a count can pass
below zero and wrap.

`MCLibs`, `MCQueues`, `MCPools` and `MCHttp` check several objects that do not interact: the
variable `which` names the one that a behaviour uses, the others stay as they were
constructed, so that a run asks each object's questions of that object alone. One
thread that serves requests is enough in `http`: a request writes nothing that
another one reads, so that threads meet only the owner of the engine; the theorem on
`SettledChain` has any number of them.

Properties that hold with an exception say so. `AddTaskReturns`, `WaitReturns`
and `BatchProgress` except the case in which a notify, sent without the mutex, falls between a test
and the sleep it precedes (the variables `missed`): the code can lose that wakeup.
`WaitSound` allows an early return of `Wait` while another client is between the
push and `Add`. The TCP properties end with a failed write to the pipe, after
which the worker may use a freed `CONN_INFO`. The Redis properties leave out
raising the count while clients exist (`LateGrow`); `redis_grow` shows why.
`NoneLost` speaks of the PostgreSQL pool only while no connection broke and it was
resized at most once, and of the Redis pool only while it has its list of empty slots:
lowering the count (redisClientPoll.cpp:339), or closing clients (line 109), can
erase that list, nothing creates it again, and later requests are refused although
slots are empty. `ChainOrder` speaks of chains that `Abort` can stop, of at most
`abortIndex` + 1 = 64 handlers: in a longer one `Abort` jumps to the handler behind
`abortIndex`. `AbortedExact` holds as long as the handlers and the calls of `Next`
are at most 63 together. `SettledChain` is about requests that come when
`RebuildHandlers` has returned, and lets the middlewares be preceded by the older
ones that a second `Start` leaves in the chains; what engine.h promises of every
request is `InEveryChain`, which `engine_use` refutes.
`RoundTrip` leaves out what `buffer_grow` shows, what a copy of the buffer loses
in the same way, and the high half of 64-bit values in big-endian order, which
`htonl` cuts (byteBuffer.h:145, 355, 368). `TotalBound` is about the whole pool:
the comment in typedef.h:14 speaks of each thread's queue, but one queue can hold
all that the limit admits (workerPool.cpp:158).

Fairness: threads that can take a step do so (weak fairness of each adder,
client, worker, woken thread and run thread; in `TcpServer` of the master, of a
callback that has begun and of the callback of a readable pipe, since libevent
polls all descriptors in each turn; in `BatchPool` also of the turn in which a
worker finds its time up, since the clock goes on). No client is obliged to call anything, no
spurious wakeup has to happen, the clock need not advance, and connections need
not close. In `TimeTicker` the clock is not obliged either: `DueFires` is about
what is due already. `CHECK_DEADLOCK FALSE` stands where a model may end: the
thread pools when all tasks are done or they are stopped, `PGPool`, `TcpServer`
or `HttpEngine` after an undefined step, and the chain, the
form and the buffer, which come to their end.

## Findings

* `pg_broken`: `returnConnection` (PGConnectionPool.cpp:150) deletes a broken
  connection and lists its slot as free but leaves the pointer in it. Once that
  slot is at the front, every request for a new connection is refused.
* `redis_grow`: `setClientCnt` (redisClientPoll.cpp:295) lists the last existing
  slot as empty when it raises the count; a client in it is handed out twice.
* `engine_use`: `Engine::Start` (engine.cpp:17, 28, 40, 52) starts the server before it
  calls `RebuildHandlers`. A request answered with 404 or 405 in between runs none of
  the middlewares or only the first ones, though engine.h:49 says that they are
  "included in the handlers chain for every single request. Even 404, 405". Its copy of
  the chain (context.cpp:204) has no lock either and reads a vector that `push_back`
  (router.cpp:14) is changing, which is undefined. And since nothing empties
  `allNoRoute` and `allNoMethod`, a second `Start` doubles the middlewares in them.
* `buffer_grow`: the constructors of `ByteBuffer` reserve memory without giving the
  vector a size; the first `append` beyond it (byteBuffer.h:392) resizes from 0 and
  overwrites with zeros all that was put before.
* `cookie_set`: `HttpCookie::String` (httpCookie.cpp:97) returns an empty text for a
  cookie that has a name, its test being the negation of the one intended, so that
  `Context::SetCookie` adds no header.

## Proofs

TLAPS proves, for every value of the constants that satisfies the modules'
`ASSUME`s:

* `WorkerPoolProofs`: `TypeCorrect`, `CountIsExact`, `TotalIsBounded` - for any
  adders, any finite set of tasks, any number of workers less than `Word`, any
  limit, with or without keys and `Stop`. `CountExact` is not inductive by
  itself: that the push adds one to the outstanding tasks needs that the adder's
  task is new (`OfferInv`) and that the adder holds the mutex (`MutexInv`), that
  the completion takes one away needs that the worker's task is counted
  (`HoldInv`) and was not given to two workers, which needs that no queue holds a
  task twice (`QueueInv`). `TotalBound` needs besides that an adder past the
  test has room (`LimitInv`); this step uses `CountExact` to conclude from the
  value of the atomic, modulo `Word`, to the number of tasks, for which the lemmas
  of `WordArith` are there. `IInv` is the conjunction; `TypeStep`, `MutexStep`,
  ..., `LimitStep` show one conjunct each to be preserved, action by action.
* `WorkerPoolProofs`, second part: `KeysInOrder`, `StopDrains` and
  `RoundRobinIsBalanced`, from `OrderIInv`, which holds along with `IInv`. Tickets
  number the pushes (`TicketInv`); a task that was pushed is in the queue of its
  worker, where tickets ascend, in the hands of that worker, or has run
  (`PlaceInv`); and a worker begins its tasks in the order of their tickets, one
  after another (`WorkerOrder`). `KeyOrder` follows because one key means one worker
  (`KeyInv`), and the hash is a function. `DrainInv` ties the number of late pops
  to the place between the test of `m_isEnable` and the pop, the only place from
  which a stopped worker can still start a task. `BalanceInv` says how far the
  round has come: workers up to `m_nWorkerIndex` were dealt one more than the
  others, but for the task of an adder between its choice and its push.
* `BatchPoolProofs`: `BatchCountIsExact`, `BatchesInOrder`, `BatchStopDrains`. The
  frame is that of `WorkerPool` (`MutexInv`, `OfferInv`, `DistinctInv`); here the
  counter is raised before the push, so that tasks being counted are a phase of
  their own (`PhaseInv`), a worker has a batch and not a task (`BatchInv`: the
  size of the batch and how much of it is reported, by the place of the worker), and
  no task is there before `Start` has returned (`StartInv`). `PassInv` says that
  what a worker executed, gathered and has in its queue is what was pushed to it, in
  that order; `DrainInv` ties the batches after a `Stop` to the test of the queue
  that came before it, and `LimitInv` that a client past the test has room.
* `QueueProofs`: `CounterIsExact` and `WaitIsSound` for `WaitGroupPool`. `IInv` is again who
  holds the mutex and who owns which task (`MutexInv`, `OfferInv`, `HoldInv`,
  `WaitingInv`, `DistinctInv`), with `CounterExact` itself: `Add` is the only step
  that closes the window, and only one client can be in it since `AddTask` holds
  `m_mutex`; without that the error of the counter would be the number of clients.
  `WaitSound` is an action property and follows from `CounterExact` at the moment
  Wait reads the counter.
* `LibsProofs`, locks: `CountersAreExact`, `Refinement` and `WritersArePreferred` for
  `RWMutex`, `TcpStatusIsExact` and `TcpRefinement` for `TcpRWLock`: exact
  counters, and that both implement `RWLockSpec`, for any finite set of threads.
  In each, type correctness and the exactness of the counters are inductive
  together; the lemmas say how a step of one thread, and a wakeup, change the
  sets that are counted.
* `QueueProofs`, for `SyncQueue`: `NoWakeupLost` and `FirstInFirstOut`, for any
  finite set of threads and any values. `NoneStranded` counts woken threads against values, a
  form that is inductive.
* `TimeTickerProofs`: `StopIsSilent`, `CallbacksOnSchedule` and `NextTimeOnGrid`,
  for any users, timers, durations, runs and clock. The invariant says that
  `m_mapTimer` holds a timer at most once (`PlaceInv`), that a timer which a user
  is adding is not in it and has not run (`AddInv`), where the iterators of a scan
  are and that the one scanning thread holds `m_mutex` (`ScanInv`, `ScanMutexInv`), that
  each next time is the first one plus a multiple of the duration (`GridInv`) and
  that a `Once` timer is erased after its callback (`OnceInv`). `GridInv` has to include the timer whose callback is
  running, since its reset comes after the callback. It assumes that `Nil` is no
  timer.
* `LibsProofs`, server: `OneOwnerHolds`, for any connections, descriptors, workers and
  sizes of the pipes. `PlaceInv` says of each connection that it is in one place or,
  if it is not open, in none; the lemmas `OneMoves`, `OneLeaves` and `NoneMoves` are
  the three things a step can do to the places. That a worker's insertion into
  `m_connMap` does not displace another connection needs that open connections have
  descriptors of their own (`FdInv`), and this in turn that a descriptor is closed
  only with its connection, whose only owner closes it. `ListInv` is needed for the
  head of a list to be gone once it is taken, `ArgInv` for what `CloseConn` and the
  keepalive check have in their hands.
* `HttpProofs`, a chain: `ChainOrderHolds` and `AbortedIsExact`, for chains of any
  length, any `abortIndex`, any number of calls of `Next` and any width of the
  index that they cannot exhaust (`IndexAssumption`; `Word` stands for 2^64). The
  invariant `IInv` says where the index is: at the running handler or the next one,
  behind the chain, or at or behind `abortIndex` after an `Abort`. It bounds the
  index by counting what raises it, the calls of `Next` and the returns, the latter
  being the calls less those on the stack; this is why the conjunct on
  `index + Len(stack)` is needed, and `NoWrap` follows from it.
* `HttpProofs`, the engine: `SettledChainHolds`, for any number of server threads,
  middlewares, routes and starts and requests at any moment. `ChainsInv` says of each of
  the two chains (`ErrorChainInv`) that what `RebuildHandlers` has still to append is the
  end of the middlewares and that the chain ends with the part before it while the
  server is up; `ChainStart`, `ChainTurn` and `ChainStop` are what the steps of the owner
  do to a chain. `RequestsInv` says of each request whose source nobody can change
  (`Stable`: it came when `RebuildHandlers` had returned, or it has a route) that what it
  has copied is the beginning of that source, and, once the loop has tested `size()`, that
  there is one more element or none (`Copied`). That the source of such a request is left
  alone needs that `Start` waits for `Stop`, and `Stop` for the requests. For requests
  that come while `RebuildHandlers` runs nothing is claimed.
* `LibsProofs`, buffer: `BufferRoundTrip`, for any capacities and any number of puts and
  reads, in both byte orders, with `Half`, the bytes of a `uint32_t`, at least
  2 (`BufferAssumption`). `BufferInv` names the places at which the values put begin, one
  behind the other up to the limit (`Laid`): the reader is at one of them, and the bytes
  there are those of the value as long as nothing was lost (`Stored`). The limit is
  within the capacity and this within the vector's memory, though not within its size,
  which is what `buffer_grow` is about. `SwappedTwice` says for which values swapping the
  bytes twice gives the value back.
* `PoolProofs`, PostgreSQL: `PGListsExact`, `PGNoSlotLost` and `PGRefinement`, for any
  users, URLs, numbers of slots and counts set at any time, with connections that
  break. The first part of the module are lemmas on lists of slots: that `Ascending`
  exists and holds what it should (`AscendingList`), what `Without` leaves
  (`WithoutList`), and what joining lists does. With them `Inv` is inductive: the vector
  has the size of the count, what a user has is in a slot and in use, no two users have
  the same slot, the idle lists hold exactly the idle slots of their URL, and the list
  of empty slots holds all of them as long as no connection broke and the pool was
  resized once at most.
* `PoolProofs`, Redis: `RedisListsExact`, `RedisNoSlotLost` and `RedisRefinement`, for any
  users, hosts, numbers of slots and counts. `RedisInv` is the corresponding
  invariant (`ClientVecSize`, `ClientHeld`, `NotShared`, `Typed`, `Exact`, `AllListed`).
  All three assume that the count is raised only while no client exists (`~LateGrow`);
  without it they are false, as `redis_grow` shows. `RedisNoSlotLost` assumes besides
  that no count is 0: the loop of `setClientCnt` starts one below the present count,
  which from 0 is the greatest unsigned number, and lists no slot.
* `PoolProofs`, both: `PoolListsExact` and `PoolRefinement` put the two
  together, as the run `pools` checks them, again for `~LateGrow`. `NoneLost` is the
  conjunction of what `PGNoSlotLost` and `RedisNoSlotLost` say, with their exceptions. In the refinements a request that
  succeeds is `Get` of `SlotPool`, a return is `Return`, which closes a connection that
  broke, and what the ticker and a lower count delete is `Close`, of connections
  nobody has; a refused request and a higher count are no steps. The assumptions are that `None` and
  `Dangling` are no connections, slots or clients (`SlotAssumption`,
  `PointerAssumption`, `ClientAssumption`), and that counts are numbers, those of the
  Redis pool within a word and its first one not 0 (`CountAssumption`,
  `ClientCountAssumption`).

Each inductive invariant was an invariant of a TLC run before it was proved.

Only model-checked: all liveness (fairness and `ENABLED` are beyond the prover), and
what recursion over data computes (`RouterExact`, and `Dispatch` which rests on the
same `Match`; `FormExact`, since what the parser has built after any number of
characters is a recursion over the form that was sent).

## Not modelled

* Destructors and `Stop` of `WaitGroupWorkerMgr`, which free objects that
  detached threads use: nothing is defined afterwards.
* A second `Start` of `WorkerPool` or `BatchWorkerMgr` after a `Stop`: it appends new
  workers, while `AddTask` and `Stop` use the first, stopped ones. An
  `EnableMaxTaskCount` of `BatchWorkerMgr` after `Start`.
* Callbacks that call their own pool or ticker: they deadlock by construction.
* `Send` of the TCP server from other threads, which may use a freed connection
  (worker.cpp:466), `Destroy`, and the bytes that connections exchange;
  descriptor 0, which `ReadPipeCb` neither registers nor closes and which belongs to
  the standard input.
* Of the HTTP classes: the getters of a `Context` for queries, forms and headers,
  its keys and errors, `HttpMiddleware::CORS`, a start that fails, `url.cpp` and
  `urlParser.cpp`. Routes and middlewares are set up while the server is down;
  nothing in the code locks them.
* `SetLimit`, floats, strings and printing of `ByteBuffer`.
* `CPGClient`, `CRedisClient`, dates, strings, URL, UUID, random numbers: wrappers
  and pure functions without a protocol.
* Vendored libraries: *workflow* (in two copies, for Linux and for Windows),
  *libevent* and *hiredis*. They are more than nine of every ten lines of C and
  C++ in the repository and not its own logic, so that the share of all lines that
  the map covers is small although most of the repository's own state machines are
  modelled. What is used of them appears in the modules as choices: a connection
  that opens or fails, a callback that comes, a request that arrives.

In `TimeTicker` durations are positive and the clock does not go back; the first
callback of `addTimer` is due at once, as in the code. In `Multipart` a header that
has a name and no value does not occur: `handle_header` (multipart.h:66) would keep
its name and put the next header's behind it.

## Plan

1. Done: the pools, their queue and locks, the connection pools, the ticker, the
   hand-over of the TCP server, the HTTP engine, router, context, multipart parser
   and cookies, the byte buffer; theorems on every safety property of `WorkerPool`,
   `BatchPool`, `WaitGroupPool`, `SyncQueue`, both locks, both connection pools,
   `TimeTicker`, `TcpServer`, `ByteBuffer` and `HttpContext`, and on the chains of
   `HttpEngine`.
2. What could still be modelled: `Send` of the TCP server, with the write to a
   connection that may have been freed as an undefined outcome; the query and form
   getters of a `Context`; the calendar of localtime.cpp over small ranges, against
   a reference definition.
