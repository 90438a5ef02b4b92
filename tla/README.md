# ChwellCore: TLA+ models, checks and proofs

ChwellCore is a C++ game-server framework: a TCP/UDP/WebSocket transport, task
executors and timers, an RPC client and server, a gateway, synchronisation
services for games (frame and state sync, AOI, SLG battles), storage adapters,
a Redis client with a distributed lock, and governance utilities (discovery,
load balancing, rate limiting, circuit breaking). This directory holds TLA+
modules that model its stateful components, the TLC configurations that check
them on small instances, and TLAPS proofs that hold for every instance.

Paths are relative to the repository: `include/chwell/...` are the headers and
`src/...` the sources.

## 1. Inventory

### 1.1 Modelled components

| Component | State | Operations | Actors that interleave | What makes it correct |
|---|---|---|---|---|
| ThreadPool (`core/thread_pool`) | `tasks_`, `stopped_`, worker threads, `cond_` | post, worker_loop, destructor | workers, outside callers, tasks that post, the destroying thread | no task lost or run twice, no lost wakeup, the destructor drains |
| TaskQueue (`task/task_queue`) | priority queue, map id → task, `running_`, two atomic counters | start, stop, submit, cancel, wait_all, worker_loop | workers, an owner, submitters, a thread in wait_all | queue and map agree, counters exact, queued work is taken |
| ConnectionPool (`net/connection_pool`) | vector of pooled connections, queued callbacks, `pending_creates_`, `shutdown_` | init, get_connection(_sync), return_connection, shutdown | callers, the sweep of each caller, shutdown, refused connects, expiry | a connection is lent once, callbacks are called once, a caller that waits has somebody who will come back to the queue |
| DistributedLock (`redis/distributed_lock.h`) over RedisClient | the Redis key and its TTL, `locked_`, `renew_running_`, fencing counter, renew thread | try_lock, lock, unlock, renew loop; SETNX, GET, DEL, EXPIRE | user thread and renew thread of each lock object, TTL expiry, crashes | mutual exclusion, loss is noticed, keys are freed, the renew thread stays in its critical section |
| CircuitBreaker (`circuitbreaker`) | atomics: state, failures, successes, half-open calls | execute, execute_with_result, record_*, trip, recover, reset | calling threads, an operator | a trip is neither missed nor baseless |
| RpcClient (`rpc/rpc_client`) | `pending_requests_`, `connection_`, `recv_buffer_`, cleanup thread | connect, disconnect, call, call_sync, on_message, on_disconnect, cleanup | callers, the IoService thread, the cleanup thread, the owner | every callback called exactly once |
| FrameSync (`sync/frame_sync`) | rooms (players, input queues, frame, snapshots), connection map, `mutex_` | create/destroy/join/leave room, submit_input, handle_frame_input, broadcast_frame_state, create_snapshot, on_disconnect | read loops of the connections, the application | lock-step frames, maps agree, no hang |
| AsyncStorageAdapter (`storage/async_storage_adapter`) | bounded task queue, `stopping_`, workers, one condition variable | async_*, enqueue, worker_loop, destructor | workers, producers, callbacks that call again, the destroying thread | bound respected, every call answered once |
| TimerWheel (`core/timer_wheel`) | slots of each wheel, current slots, `task_map_`, `running_` | add_timer, add_repeat_timer, cancel_timer, start, stop, tick, cascade | callers and the ticking thread | a timer is in one place, expires, and neither early nor too late |
| RedisClient's store (`redis/redis_client`) | six maps by key under one mutex | the commands on strings, hashes, lists, sets, sorted sets, deadlines | commands of any callers, time | the maps agree about a key; deadlines die with their key |
| Discovery (`discovery/service_discovery`) with cluster::Node (`cluster/node`) | instances, index by service, listeners; state of each node | register, deregister, heartbeat, cleanup, listeners; start, stop, heartbeat_loop | heartbeat threads, cleanup thread, owners, clients, the clock | index exact; running nodes end up listed, silent ones do not |
| LoadBalancer (`loadbalance/load_balancer`) | list of instances, cursor, weights, current weights | select, update_instances, set_weight | callers, the discovery | every instance has its share of a cycle, none runs away |
| NodeRegistry (`cluster/node_registry.h`) with the hash ring (`loadbalance/consistent_hash`) | nodes, a ring per type | register, unregister, load, select | callers | only keys of the node that changed move |
| RateLimiter (`ratelimit`) | buckets and windows by key | consume, check, get_remaining, reset | callers, the clock | no interval is granted more than promised |
| EventBus (`event/event_bus.h`) | handlers by type, next id | subscribe, unsubscribe, clear, publish | threads and handlers that use the bus themselves | handlers called once, by priority |
| ObjectPool, BufferPool (`pool/object_pool.h`) | free objects, two counters; free buffers per size | acquire, release, expand, shrink, destructor | borrowers | what is lent and free adds up |
| StateSync (`sync/state_sync`) | entities with properties and time stamps, subscriptions, rooms | update_state, subscribe, unsubscribe, room and message handlers, on_disconnect | connections, the application | a subscriber knows what the room holds |
| Game components (`game`, `service/session_manager.h`) | sessions, rooms, positions | login, logout, join, leave, move, disconnect | a read loop per connection, no lock | nobody who is gone is in a room or session |
| Framing: protocol (`protocol/parser`, `message`), router and RpcServer | a buffer per connection, registered methods | serialize, feed, dispatch, disconnect | clients, TCP that cuts the bytes anywhere | every request handled once, whole, in order |
| Gateway (`gateway/gateway_forwarder`) on TcpServer, IoService and Service | client ↔ backend maps, queue of read loops, threads | accept, forward, connect, answers, both disconnects, stop | read loops on a fixed number of threads, peers | the maps are inverse; an answer comes back |
| GridAoi, CrossListAoi (`aoi`) | occupants of grids; two linked lists | add, update, remove, views | callers; one query without the lock | watchers are told who is in view; a query misses nobody |
| SlgMapManager (`slg/map`) on GridAoi | cells, cities, troops and marches | generators, cities, cells, create/move/cancel troop, update_troops, what others do to `aoi()` | callers, users of the AOI, the clock | troops, marches and AOI agree |
| BattleSystem (`slg/battle`) | the two armies, the round, the report | execute: rounds, strikes, result | dice | the report adds up |

How they interact: RpcClient drives a TcpConnection on an IoService, asks the
circuit breaker and the rate limiter before a call and reports time-outs to the
breaker; RpcServer and the ProtocolRouter parse what arrives; the Gateway is a
component of a Service and shares its threads with the clients it serves;
DistributedLock issues commands to RedisClient; AsyncStorageAdapter wraps a
synchronous storage; Node keeps itself registered in the discovery, from which a
LoadBalancer takes its list; NodeRegistry selects through the hash ring;
SlgMapManager enters its troops in a GridAoi; FrameSync, StateSync and the game
components are components of a Service and receive messages and disconnects
through it from the read loops of the TcpServer.

### 1.2 Not modelled

Nothing that would change the state of a modelled component is left out
silently; what is left out, and why:

* *Only reads or only sends*: the range queries and find_path of the map, TTL,
  ZSCORE, HGETALL, SMEMBERS and similar commands, the queries of StateSync, the
  frame_sync_req handler of FrameSync; chat, heartbeats and broadcasts of the
  game components.
* *Conversions without state*: the byte codecs of FrameSync and StateSync,
  `codec.cpp`, JSON, YAML, the ORM, HTTP, configuration, logging, metrics.
* *System I/O*: TLS, UDP, WebSocket frames, socket options, partial writes.
* *One map under one mutex, or a driver*: the synchronous storage back ends,
  ConnectionPoolManager, TcpServer's set of connections.
* *Thin layers over a modelled part*: TimerManager (its shutdown joins its
  thread with the mutex held) and DelayedTaskQueue (a timer thread that calls
  TaskQueue::submit).
* *Left out of the Gateway*: IoService::stop writes `stopped_` without the mutex,
  as TaskQueue::stop does (modelled there), so an idle thread may sleep on.
* *Left out of the game components*: what a data race inside a single access to
  an unprotected std map can do; the interleavings between accesses are there.
* *Assumed of the caller*: the IoService that an RpcClient is given is run by one
  thread, as in its tests (with more, two read loops of one client could run at
  once); ObjectPool::shrink is called with a target that is not negative (below 0
  it pops an empty stack).
* Examples, tests and benchmarks are no part of the running system.

### 1.3 What is hard here

`PROJECT.json` lists the hazards at their lines. In short:

* *Condition variables*: notify outside the mutex (ThreadPool), a predicate
  written without the mutex (TaskQueue::stop), one condition variable with
  notify_one for two kinds of sleepers (AsyncStorageAdapter).
* *Check, unlock, act*: ConnectionPool (`pending_creates_`), FrameSync
  (`should_destroy`), RpcClient (`connection_`), TimerWheel (repeat copy before
  `task_map_`), Gateway (lookup and connect).
* *Non-recursive mutexes locked twice*: FrameSync, StateSync::subscribe, listeners
  of the discovery that call it back, TimerManager.
* *Pointers kept past the unlock*: EventBus::publish, the unlocked view query of
  the cross list, the smart pointers of ObjectPool.
* *Bounds*: the threads of the IoService, all taken by the loops of clients; the
  16-bit length of a message; max_size of a pool; truncation in refill.
* *Structures maintained by hand*: two linked lists, the ring, the id maps of the
  gateway, the grids and the events derived from them.
* *Lock-free counting*: CircuitBreaker, TaskQueue counters.
* *Time*: the TTL of a lock against its renew thread and its unlock; RPC
  time-outs against late answers; cascades of the timer wheel.
* *Late events*: the close of an old connection handled after the new one was
  made (RpcClient, FrameSync).
* *Crashes*: the holder of a distributed lock dies between two commands.

## 2. Plan

Every component of section 1.1 is modelled and checked, the executors first, for
everything else runs on them, then what holds state across threads or machines
(lock, directory, RPC, gateway, pools), then the game's own logic. Every
invariant and every action property of a passing run is also a theorem of
section 5, as is the refinement of Executor by its three implementations. What
stays with TLC is liveness. So that they can be proved about, the modules name
their assumptions and avoid RECURSIVE.

## 3. Modules

ThreadPool, TaskQueue, AsyncStorage and TimerWheel have a run each. The other
components are checked in five themes: MCCoordination (DistributedLock, RedisStore, Discovery),
MCCluster (RpcClient, Framing, Gateway), MCRooms (FrameSync, StateSync, Game),
MCMap (SlgMap on GridAoi, GridAoi, CrossListAoi, Battle) and MCServices (ConnectionPool,
CircuitBreaker, RateLimiter, LoadBalancer, NodeRegistry, EventBus, ObjectPool,
BufferPool). Each theme has a module that extends one of its
components and instantiates the others, with their assumptions and the property
of each: Coordination (DistributedLock; D is Discovery, RS RedisStore), Cluster
(RpcClient; GW is Gateway, FR Framing), Rooms (FrameSync; SS is StateSync, GM
Game), GameMap (SlgMap on GridAoi; CL is CrossListAoi, BT Battle) and Services
(ConnectionPool; CB, NR, LB, OP, BP, EB, RL are the others). MCCoordination and its
like extend it for TLC, CoordinationProofs and its like for the proofs, so that
both speak of the same definition. ThreadPoolProofs extends ThreadPool and
TimerWheel, the two classes of core/ with threads, and holds the proofs of both.

The components of a theme share no state and each is checked against an
environment that does all its peers can do, so interleaving them would only
multiply the states: the variable `subject`, which Init picks and nothing changes,
says whose behaviour it is, and the others rest in a fixed initial state. SlgMap
with GridAoi, and Gateway with the IoService under it, do share state and are
composed in their modules. The runs of section 6 are of DistributedLock, FrameSync
and AsyncStorage themselves.

In every module a critical section of a mutex is one action, an access outside
it is an action of its own, and what the code leaves to the scheduler is
nondeterministic. Alternatives of the configuration (strategy, queue bound,
which faults occur, whether threads are punctual, whether the timer wheel is
ever stopped) are variables that Init picks from a CONSTANT set and no action
changes, so that one run covers them all. Operators placed directly before a
definition and named like it (`TakeWithoutPop` before `Take`) are deliberately
wrong variants, marked so in their comment: substituting one for the original
must break the property `PROJECT.json` pairs it with, which shows that the
property depends on that line of code.

**Executor** is the abstract specification of a task executor: a task is accepted
or refused once, started once, finished once; closing refuses new tasks and
closes when what was accepted is done. ThreadPool, TaskQueue and AsyncStorage
implement it under refinement mappings.

**ThreadPool**: `tasks`, `stopped` are the fields; `wpc[w]` says where worker w is
in worker_loop (evaluating the predicate, blocked, running a task, gone);
`notifying` are the threads between the unlock in post and notify_one; `owner`
the progress of the destructor. Wait evaluates the predicate and blocks in one
step since `stopped_` is only written under the mutex.

**TaskQueue**: here stop() writes `running_` without the mutex, so a worker's
predicate (PredicateFalse) and its block (Block) are two steps with `mutex` held
between them. The counters are read and written in steps of their own, and
wait_all (CallWaitAll, ReadPending, ReturnWaitAll, PollAgain) reads them one
after the other. `cancelled` and `fate` are history. The priority queue is a set
with priorities; Pop takes a task of the highest priority, so a task of low
priority waits for as long as higher ones come: WorkIsTaken promises that workers
go on taking tasks, not which.

**ConnectionPool**: a caller goes through Enter, CleanupExpired, Acquire (take an
idle connection, start a creation or queue the callback), Create or CreateFails,
Register and return_connection. `faults` says which of refusal, expiry and
shutdown occur. A model connection is used again once nobody refers to it;
`IdentityLeft` is the bound this puts on creations.

**DistributedLock**: one action per Redis command, so that anything may happen
between GET and DEL. `server` distinguishes the in-memory RedisClient, where an
expired key stays until it is looked at, from a server that drops it;
`punctual` means that no thread is later than the TTL. `aborted` is
std::terminate, reached by assigning to a joinable thread.

**CircuitBreaker**: every atomic access is a step: the failure is counted (Fail),
the counts are loaded one after the other (ReadFailures, ReadSuccesses, the two
loads of get_failure_rate), judged and acted on (Trip). HALF_OPEN branches are
there as in the code, and unreachable as in the code.

**RpcClient**: connections are numbered; `loop[g]` is the read loop of connection
g on the single IoService thread. A pending request moves between
`pending` and the local lists of on_disconnect, disconnect and the cleanup
thread (`failing`, `dropping`, `sweeping`). `garbled` says that `recv_buffer_`
holds half a message of an earlier connection, after which no response on the
new connection is decoded.

**FrameSync**: handlers run per connection; handle_frame_input is split where it
releases the component's mutex (submit, locate the room, check and broadcast),
and stays inside the mutex where it calls broadcast_frame_state, which locks it
again. leave_room is split at its unlock before destroy_room. join_room asks only
for the room: `late` (history) are connections that joined after their
on_disconnect, which nothing takes out of `connections_` again.

**AsyncStorage**: enqueue is Call, then BlockFull, Push or Refuse, then
NotifyPushed; a worker is Wait, Take, NotifyPopped, Finish. CallbackThrows is a
callback that throws and, being called inside the try block whose handlers call it
too, is called again. A notify_one wakes any one sleeper on `queue_cv_`, producer or worker.

**TimerWheel**: time passes in Clock between the ticks; a tick is
process_slot step by step (Due, RemoveCancelled, WaitARound, ExpireOnce,
ExpireRepeat, UpdateMap, Callback, SlotDone), Advance and Cascade, with
add_timer and cancel_timer in between. `left[t]` is the time to expiry, negative
when late, counted to LateCap.

**RedisStore**: an action per command of RedisClient, with the containers as
functions of the key. A deadline is "live" until Elapse passes it; only GET and
EXISTS (check_expire) look at it, as in the code. Indices of LRANGE and ZRANGE
are normalised as the code does.

**Discovery**: an instance carries its age instead of its heartbeat_time. `phase[n]`
is where heartbeat_loop of node n is: waiting, beating, registering again after
a heartbeat that failed. The cleanup thread is `sweeper`. `punctual` means that
threads run as soon as their interval is over; late ones lose their instance and
register again. A "reentrant" listener is one that calls the discovery back.

**LoadBalancer**: the three classes; `listed` is what the discovery finds alive and
`serviceOf` the service of each instance, since a list fetched for one service is
used for all. `picks` counts the selections of a cycle. One begins where the last is
complete; set_weight ends it and leaves the current weights, and the next begins
when they are level again, by selections or by update_instances. Meanwhile FairCycle
claims that they add up to nothing and that none falls below minus a whole cycle of
the largest weights.
**NodeRegistry**: a ring is a set of pairs of a place and a node, `hashOf` any
function without collisions; load_from_yaml_node is a load of any file.

**RateLimiter**: refill truncates to whole tokens and moves last_refill_time at
the same places as the code; check is two critical sections. `granted[k][f]` is
history: what was granted to key k from instant f on, since its last reset.

**EventBus**: `publishing[t]` is the stack of publications in thread t, each with
the handlers it has still to call: handlers may publish, subscribe and
unsubscribe between Invoke and HandlerEnds, and what is no std::exception leaves
publish (HandlerThrows). Behind a pointer to a freed handler there may be a crash
(`aborted`), the old handler or one subscribed since, in its memory (`Behind`).
**ObjectPool**: acquire is Take under
the mutex, then CountBorrowed outside. **BufferPool**: buffers of one size are
alike, so a pool counts its free buffers by the size they were made with, and
release names a size that may be the wrong one.

**StateSync**: a value is the time stamp that wrote it. `own` is a room the
application uses directly; the component's rooms have a snapshot callback and
are reached by messages only when `connections_` knows the connection, which
nothing in the code arranges. `views` and `fresh` are history: what a connection
was told, and what of it has been told at every change since it subscribed.

**Game**: nothing is locked, so every access to a map is a step: a join looks the
room up (JoinFind), creates it (JoinCreate) or points to the one it found, enters it
(JoinInsert) and tells the session (JoinRecord); leave_room is LeaveSession,
LeaveErase, LeaveUnmap and LeaveSweep. `lost` marks a pointer to a room that another
loop deleted or replaced in `rooms_`. logout is called by handlers of the
application, as in the examples. A disconnect visits the components in `Order`,
any order in which SessionManager and RoomComponent occur (`GameAssumption`).

**Framing**: `stream` is every unit sent on the connection (command, length, body
units) and `arrived` how many of them TCP has delivered: on_message(n) hands over a
chunk of any size. `stage` is where the read loop is. In "feed" each turn of the
loop of Parser::feed is a step (feed) until one finds no whole message
(feed_ends), where the router's Parser, which keeps `head`, compacts at
CompactAt; in "dispatch" the `messages` it returned are looked up and handled one
by one, and RpcServer at last drops the prefix it has parsed (EraseConsumed), so
that a method may be registered or unregistered between any two. Lengths are taken
modulo LenMod as the 16-bit field does, and `misread` says that a unit was taken
for what it is not. on_disconnect ends a connection and the next one comes from
the same address.

**Gateway**: `queue` holds posted read loops, `run` gives one to a free thread, for as
long as its connection lives. A message is ForwardFound, or connect_backend or
ConnectFails, then ForwardSend; BackendAnswers and on_backend_message bring the
answer; PeerEnds, ClientLoopEnds and BackendLoopEnds are the two disconnects. A
request whose backend connection ends, or that is sent on a closed one, is "lost":
nobody tells the client, which may ask again.

**GridAoi**: `told` is history: where each watcher was last told each target is,
from the events the code sends, and `elders` who of those on the map was there
before each. **SlgMap** extends it with cells, cities and
troops; update_troops visits the troops one by one with the mutex held
(`updating`): Halted, UnderWay or Arrive. `aoi` is the game using the AOI that
aoi() hands out, under the AOI's own mutex, and `foreign` (history) the troops whose
ids it used. **CrossListAoi**: next, prev and head of
both lists as the code links them; the unlocked overload is WalkStart and
WalkStep. **Battle**: Strike is one general's turn with damage in the integers of
the code, the random factor and the dodge, critical and skill draws any.

## 4. Runs

The invariants of a component are checked as one conjunction that includes its
types; for CircuitBreaker, say, BreakerSound is TypeOK, NoMissedTrip and
OpenHasCause. ThreadPool's types are proved (section 5). Deadlock is checked
except in AsyncStorage, where the system stops when the calls are made and the
adapter is destroyed or, with a bound, in the stall described in section 6; in
Rooms, where FrameSync hangs in the deadlock of section 6 and Game ends with its
connections; and in Map, where a battle ends and a bound may stop the map.
Modules that end properly (ThreadPool, for one) have an explicit stuttering
action for the end, and `Rest` in Services and Cluster is one for the components
that a bound of the model stops.

| Run | Instance | What it shows |
|---|---|---|
| ThreadPool | 2 workers, 2 callers, 3 tasks | HeldOnce, NoLostWakeup, and the pool implements Executor with its liveness (ImplementsExecutor, ImplementsFairExecutor) |
| TaskQueue | 2 workers, 3 ids, 2 priorities, queue of 2 | BooksAgree (MapTracksLiveTasks, CountersExact), ImplementsExecutor, WorkIsTaken |
| AsyncStorage | 2 workers, 2 clients, 3 calls, no bound and a bound of 1 | QueueSound (Bounded), ImplementsExecutor, EveryCallAnswered |
| TimerWheel | a one-shot and a repeating timer, 2 wheels of 2 slots, tick 2 ms, delays 3 and 8 ms | WheelSound (OnePlace, LatenessBounded), NeverEarly, TimersExpire |
| Coordination | locks: 2 objects, 3 acquisitions each, in-memory and server, punctual and late, crashes anywhere but between SETNX and EXPIRE | LockSound (HolderOwnsKey, QuietAfterUnlock), LossIsNoticed, KeyIsFreed |
| | store: 1 key, 2 fields, 2 values, 2 scores, lists of 2 | StoreConsistent |
| | discovery: 2 nodes, 1 silent client, 2 services, interval 1, time-out 2, punctual and late | DirectoryExact, MembershipSettles |
| Cluster | RPC client: 1 synchronous and 1 asynchronous request, 2 connections, breaker at 1, rate limiter | CallsSound (AnsweredOnce), EveryCallAnswered |
| | framing: router and RPC server, 3 messages of 0, 2 or 3 units, lengths modulo 3, compaction at 3, 2 connections | EveryRequestOnce |
| | gateway: 2 clients, 2 and 6 threads, 2 requests and 1 dying backend connection each | ForwardMapsAgree, ReplyReturns |
| Rooms | FrameSync: 2 players, 2 connections, 1 room, frames 0..1, queues of 2, 1 snapshot kept | RoomMapsAgree (QueuesCoverPlayers, MappedByJoin), AdvanceNeedsEveryPlayer |
| | StateSync: 2 connections, 2 entities, 1 property, stamps 1 and 2, no callback or a diff callback | SubscribersFollow |
| | Game: 2 connections, 2 players, 2 rooms | NoGhosts |
| Map | SlgMap on GridAoi: map of 1 cell, 1 troop, 1 city, 3 grids in a row, 3 positions of which one outside the grids (`Field`), view 1, the troop's id used by others | MarchesAgree (TroopsPlaced) |
| | GridAoi under any calls: 3 entities that are no troops, the same grids, 4 positions of which 2 outside | ToldRight (ToldToTheGrid) |
| | CrossListAoi: 3 nodes, 3 places, radius 2 | ViewExact |
| | Battle: armies of 1 and 200, up to 2 generals a side, 2 rounds, random factor at either end of its range (80 and 120 percent) | ReportAddsUp |
| Services | ConnectionPool: 3 callers, min 1, max 2, 5 connection identities, with and without faults | LentSafely (ExclusiveUse, HeldOpen), CallersServed (CallbackOnce, EmptyAfterShutdown, NoStrandedWaiter) |
| | CircuitBreaker: 3 threads, 3 calls, threshold 2, rate 1/2, all strategies, all operator calls | BreakerSound |
| | RateLimiter: 2 callers, capacity 2, rate 1/2, window 2, instants 0..7, counts 1 and 2 | WithinLimit |
| | LoadBalancer: 3 backends of 2 services, weights 0 to 3, three classes; NodeRegistry: 3 nodes, 2 types, 2 virtual nodes each, places 0..6 | FairCycle, MinimalMovement |
| | EventBus: 2 threads, 2 ids, depth 2, 2 priorities | CallsInOrder |
| | ObjectPool: 2 borrowers, 5 objects, initially 0, 1 or 4, max 3; BufferPool: 2 sizes, initially 1, max 2 | PoolsConserve |
| DistributedLockRelease | 2 lock objects | violation: OnlyHolderReleases |
| FrameSyncHang | 1 player, 2 connections | violation: BroadcastReturns |
| AsyncStorageStall | 1 worker, 2 clients, 4 calls, bound 1 | violation: EnqueueReturns |

Why the bounds are enough. The interesting cases need two of a kind that
compete and a third thing that waits: two workers and three tasks give a queue
that is empty, shared and backed up; three ids and two places in a queue make
priorities compete; two connections give an old and a new one;
a maximum of two connections for three callers gives a queue of callbacks; a
threshold of two with three threads gives a failure that arrives while another
is judged; three acquisitions give a lock that is lost and taken again; two
slots on two wheels with a delay of 8 ms reach the upper wheel, its cascade and
`rounds_left`. Three entities on three grids give a watcher, one in view and one
out of view; three list nodes an insertion at the head, between and at the end;
three messages with sizes up to one past the length field a body that is cut, one
that is empty and one that does not fit; two threads for two clients leave none
for a backend loop, six leave one for every connection that can exist; an initial
size of four with a maximum of three gives a pool larger than its maximum; weights
up to 3 a cycle that is not a turn, and one that a set_weight leaves crooked; a time-out of two intervals a node that
misses a beat and one that expires. Every action fires in a passing run.
Symmetry over callers (Services) and over players and connections (Rooms) is
used only by these two runs, which have no liveness property.

### Fairness

Only weak fairness is assumed, of steps a thread takes by itself once it may:
a runnable worker, an I/O or cleanup thread, a thread in the middle of a call,
the destructor's notify and join. The scheduler of the operating system
justifies it, together with the assumption that a task, callback or handler
returns. Not assumed: that a caller calls, that an operator or peer acts, that
a spurious wakeup comes, that a user ever destroys anything. Time passes: WF of
Clock (TimerWheel), of DeadlinePasses (RpcClient: a deadline arrives) and of
KeyExpires (DistributedLock: a TTL runs out). A lock's user thread is fair inside
try_lock, after the SETNX, and inside unlock, not in calling them. A notify_one chooses its sleeper
nondeterministically, without fairness to any one of them. In Discovery the clock,
the heartbeat threads and the cleanup thread are fair, nobody's start or stop. In
Gateway the threads take posted loops and go on with what they read, and a
backend answers what it gets, unless its connection dies; clients need not ask, and ReplyReturns claims an answer
only where there are threads for all connections. In a run of several components
the fairness of one is stated of its steps in its own behaviours
(`WF_vars(subject = "lock" /\ ...)`), so that it asks nothing of one that rests
(none of the gateway's fair steps is enabled where it rests).

## 5. Proofs

`ThreadPoolProofs` proves, for every set of workers, clients and tasks under
`PoolAssumption` (there is a worker; workers are not clients; NoTask is no
task):

* `TypeCorrect`: Spec => []TypeOK (which no run repeats).
* `TasksHeldOnce`: a task is queued exactly once or held by exactly one worker
  from its acceptance to its end.
* `WakeupsNotLost`: when a task is queued, some worker is awake or a notify is
  on its way; when the destructor joins, no worker sleeps.
* `Drained`: when the destructor has returned, every accepted task is done.
* `PoolImplementsExecutor`: every behaviour of the pool is one of Executor under
  the mapping of section 3 (safety).

The properties are not inductive by themselves. The inductive invariant is

    IInv == TypeOK /\ ControlInv /\ HeldOnce /\ NoLostWakeup /\ NoSleeperAtJoin

ControlInv says what the control state implies: `stopped_` is set exactly when
the destructor has begun, a worker has left worker_loop only when `stopped_` is
set and the queue is empty, and the destructor returns when all have left. It is
needed because a worker that exits with tasks queued would break NoLostWakeup,
and because a task that posts after the destructor began must find `stopped_`
set. The proof has one lemma per group of conjuncts (ControlStep, HeldStep,
WakeupStep), each with a step per action, on lemmas about what a push and a pop
do to the set of queued tasks (PushQueued, TakeQueued). PoolImplementsExecutor
uses IInv: Take maps to Start since the head of the queue is held by nobody
else, Join maps to Terminate by Drained.

The same module proves of TimerWheel, for every set of timers and of delays and
every geometry under `WheelAssumption` (2 to 4 wheels, since tick() needs two and
knows of four; at least 2 slots; a positive tick and positive delays):

* `TimersPlaced`: WheelSound. OnePlace alone needs only that no step puts a timer
  into two slots (`Single`); how late it may be needs the time of every wheel.
* `TimersNeverEarly`: the action property NeverEarly, from the same invariant.

    WheelInv == WheelTypeOK /\ Single /\ WheelControl /\ (~pauses => WheelTiming)

WheelControl says that while tick() steps a wheel the ones below it have just
turned over and stand at slot 0. WheelTiming names f[i], the time until wheel i
steps next (`IsAhead`: the next tick, or the turn that the wheel below has still to
make), and puts every timer in relation to it: f[i] plus the slots between
(`Dist`) times the tick of the wheel is when its slot is handled, and `OnTime`
bounds what the timer has left by that, from both sides on wheel 0, from below on
the others, where a slot cascades at the end of its time. It rests on what
the two division steps of add_task_to_wheel compute (PlaceIs, PlacedOnTime), on
what a step of a wheel does to the distances (AdvanceDist) and on
TickMs being what its recursive definition says (TickIs). Induction over the
wheels is done by cases, there being four at most. A wheel that is stopped and
started again has no claim on time (`pauses`), only on place.

`TaskQueueProofs` (`QueueAssumption`; the workers are a finite set):
`BooksAlwaysAgree` and `QueueImplementsExecutor`. IInv adds to BooksAgree what a
worker holds (`Holding`: a task that was taken is in no queue and in no other
hands, accepted until it has run and finished after) and that no worker exists
between stop and start. The counters are equated with cardinalities of sets of
workers and of tasks, and each action changes one of these sets by one element;
that is where FiniteSetTheorems come in. The refinement maps stop and start to
stuttering: the executor it implements never closes.

`AsyncStorageProofs`: `QueueBounded` and `AdapterImplementsExecutor`. New against
the thread pool are the producers that block: `OfferedOnce` says that callers
inside enqueue offer different calls which are neither accepted nor refused, and
`ControlInv` that a worker is inside enqueue only from a callback. A producer
that wakes evaluates the predicate again under the mutex, which is why the bound
holds although one notify may set several going.

`ClusterProofs`:

* `CalledOnce` and the action property `AnswersFinal` for RpcClient, for every set
  of requests. A request waits in one of four places, `pending_` or the local list
  of on_disconnect, disconnect or the cleanup thread. IInv: the four are
  disjoint (`Apart`), a request that waits has no answer and one that was
  registered and does not wait has one (`Accounted`), one read loop runs at a
  time (`OneLoop`) and disconnect's list is empty outside it (`OneOwner`); without
  the last two a second on_disconnect could overwrite a list that is not empty.
* `MapsAgree` for Gateway (`GatewayAssumption`: clients are no backend
  connections). ForwardMapsAgree is inductive together with `QueueHoldsPosted` (a
  loop is posted once and is in the queue until a thread takes it) and
  `MappedIsOpen` (backend_to_client names no connection that is fresh or ended).
* `RequestsHandledOnce` for Framing (`FramingAssumption`), for every size of
  messages, length field and chunks. EveryRequestOnce speaks of the requests that
  were sent and those that were handled; in between are bytes. FrameInv
  relates them: the messages lie end to end in the stream (`StreamInOrder`), the
  buffer is the last part of what arrived, whatever was compacted or erased
  (`BufferIsSuffix`), and, if all bodies fit the length field, the parser stands at
  the end of the last message it returned and those it returned carry the ids of the
  first that were sent (`ReadsMessages`). The empty body, which has no unit for an
  id, and the chunk that ends inside a header are where the cases differ.

`CoordinationProofs`:

* `MutualExclusion` and `ReleaseOwnKey`, for every set of lock objects. LockSound
  needs `StaleIsOrphan`: an entry that outlived its TTL in the in-memory client is
  not the key of any living holder when threads are punctual, so that GET may
  drop it; and that locked_ is cleared under a holder only by a renew thread that
  ends, and that a crash ends the renew thread. ReleaseOwnKey is what remains true of
  OnlyHolderReleases (section 6): it fails only when a thread is late.
* `DirectoryIsExact` for Discovery under `DiscoveryAssumption` (heartbeats at
  least as often as the directory forgets; 10 s and 30 s in the code's
  defaults). The strengthening relates two clocks: a punctual node's instance is
  no older than the wait of its heartbeat thread (`PunctualIsYoung`), so the sweep,
  which takes what is older than Timeout, cannot find it.
* `StoreStaysConsistent` for RedisStore (`StoreAssumption`): a deadline only on a
  key that has data, and every member once in the vector of a sorted set
  (`MembersOnce`), through all commands. The work is in the vectors: ZADD of a member
  that is there must find it, and sorting and erasing must keep its uniqueness;
  lemmas say so of sequences that are permuted or lose an element.

`ServicesProofs`:

* `LendingIsSafe` and `WaitersServed` for ConnectionPool. LendInv adds that
  `pending_creates_` counts the callers in create_connection, that what is lent is
  in `connections_` until shutdown, and that an entry that was closed is one
  try_get_idle will not take (`ClosedIsOld`). WaitersServed assumes
  MaxConnections > 0: a pool of size 0 queues every callback for ever.
* `BreakerIsSound` for CircuitBreaker. `TripUnderway`: once the count is at the
  threshold the breaker is OPEN or a thread that has yet to read the count, has
  read enough or has decided is about to open it. `ReadIsCovered`: without reset
  and the like counts only grow, so what a thread read is still true when it acts.
* `KeysMoveMinimally` for NodeRegistry (`HashAssumption`: no collisions). The
  invariant is that a ring holds all virtual nodes of its nodes and nothing else
  (`RingsWhole`); that the first place at or after a key exists is well-foundedness
  of < on the naturals (`SmallestPlace`), and a key whose old and new owner are both
  in both rings stays (`KeyStays`).
* `ObjectsAddUp` for ObjectPool and `BuffersAddUp` for BufferPool, together
  `PoolsAddUp`. For objects: each is in one place (`EachInOnePlace`: free, taken and
  not yet counted, lent) and the counters are cardinalities (`CountersRight`). For
  buffers the statement is about sums over the sizes, which need induction over
  finite sets. The library's theorem takes the induction predicate as an
  operator, which the provers cannot instantiate; SubsetInduction puts it as a fact about a set
  of subsets instead, and SumPull, SumChanged and SumAdded give what changing one
  place of a function does to its sum.
* `HandlersInOrder` for EventBus (`BusAssumption`): the subscribers of a type and
  what every publication under way has still to call are sorted by
  priority, of its type and without repetition (`InOrder`), whatever handlers subscribe,
  unsubscribe or publish in the meantime.
* `LimitIsKept` for RateLimiter (`LimiterAssumption`), for every capacity, rate and
  window. WithinLimit is about every interval in the past, the state holds one
  level; the invariant (`Budget`) is that what was granted from an instant on and
  what the bucket still holds is no more than the capacity and the
  refill since, without the fractions that refill drops; for a window, that it
  counts what it granted and the one before granted its maximum at most.
* `CyclesAreFair` for LoadBalancer, cycles after a set_weight included. Round robin:
  the positions right behind the cursor are those selected in this cycle (`RoundFair`). Weighted: after k
  selections the current weight of an instance is k times its weight less the
  total for each time it was selected (`WeightFair`), all add up to 0,
  so the largest one is of an instance that has not had its share. Cycle or no
  cycle, the largest is positive before the total is taken from it, which
  keeps every current weight above minus Len(list) times MaxWeight, whatever
  weights were set before.
  `BalancerAssumption` takes weights to be natural numbers and CursorMod to be a
  common multiple of the lengths of lists; the code's counter is a size_t, so the one cycle in
  which it wraps around after 2^64 selections is not covered.

`RoomsProofs`:

* `RoomsStayConsistent` and `NobodySkipped` for FrameSync (`FrameSyncAssumption`).
  RoomMapsAgree is inductive once the maps are known to be maps of rooms (a join
  after the disconnect adds its connection to `late` with the entry it makes);
  the proof goes room by room (RoomStep) and through the rest (RestStep).
  NobodySkipped follows: only the last section of handle_frame_input advances a
  frame (AdvanceIsCheck), it waits for every queue, and every player has one.
* `GhostsNever` for Game (`GameAssumption`: SessionManager and RoomComponent are
  registered, in any order). `Cleaned` says what a component's on_disconnect, and
  each part of leave_room, leaves behind as soon as it is passed; `Shaped` that a
  room a joining connection points to exists unless its loss is recorded (without it
  a join might insert into a room that rooms_ no longer has); `Tended` that an empty
  room has somebody who is about to enter it or to sweep. A logout takes a session
  away earlier than the disconnect would, which none of them minds.
* `DiffsFollow` for StateSync: what a connection was told is about entities it is
  subscribed to (`ToldSubscribers`), and the component's own rooms never have a
  subscriber since nothing enters a connection into `connections_` (`NobodyJoined`).

`MapProofs`:

* `WatchersToldRight` for GridAoi (`GridAssumption`: there is a grid, positions are
  pairs of integers). The invariant says more than ToldToTheGrid of those who are not
  on the map: nobody was told of them or knows anything (`ToldIsSeen`), and nobody
  came before or after them (`ElderIsTold`); without it an entity that comes back
  could find itself told of. The events go to those in the view of the entity that
  moves, the property is about what the watchers have in view: that these are the
  same is `ViewIsMutual`.
* `MapDrivesAoi` and `TroopsStayPlaced` for SlgMap (`SlgAssumption`: troops are
  entities of the AOI). Every step of the map is a call GridAoi allows or none,
  an add_entity that finds the id taken included, since a troop's target is a
  position somebody passed (`TroopFine`), even one outside the map; hence
  WatchersToldRight holds under the map. Where a troop is in the AOI is claimed of
  ids that only the map uses (`foreign`).
* `ListViewsAreExact` for CrossListAoi (`ListAssumption`), for any number of nodes
  and any positions. ListInv: there is a sequence that holds every linked node
  once, ascending along the axis, and next, prev and head thread it (`Keeps`). What
  the code does to pointers is then an insertion into the sequence or a deletion from it,
  and the walk of get_entities_in_view, which stops at the first node
  out of range, misses nobody because the sequence ascends.
* `BattlesAddUp` for Battle (`BattleAssumption`): ReportAddsUp is inductive with the
  types and the fact that the line of generals stays what the constructor was given.

Only model-checked is every liveness property, since the prover does not handle
fairness or ENABLED: ImplementsFairExecutor, WorkIsTaken, LossIsNoticed,
KeyIsFreed, MembershipSettles, TimersExpire, ReplyReturns and both
EveryCallAnswered; and, by their nature, the counterexamples of section 6.

## 6. Where the code departs from its documentation

Three of these are runs of their own and findings in `PROJECT.json`:

* **DistributedLock, unlock** (`distributed_lock.h:95`). GET, compare and DEL are
  separate commands; when the TTL passes between them, unlock deletes the key of
  the next holder. The header says only the holder can release (line 84).
  Property OnlyHolderReleases.
* **FrameSync** (`src/sync/frame_sync.cpp:152`). handle_frame_input calls
  broadcast_frame_state with `mutex_` held, which locks it again: the handler
  that completes a frame hangs, and everyone after it. BroadcastReturns.
* **AsyncStorageAdapter** (`src/storage/async_storage_adapter.cpp:98, 118`).
  Producers and workers sleep on one condition variable, and notify_one can wake
  one of the wrong kind, after which all sleep. EnqueueReturns.

The others are stated at the end of their modules as properties that TLC
refutes when they are added to the run of their component (for one that its
theme's module instantiates, through a definition such as `Dev == EB!CalledAlive`),
unless a setting is named:

| Property | Where | What happens |
|---|---|---|
| CancelsOnlyQueued | `task_queue.cpp:112` | cancel returns true for a task that is already running; the comment at line 111 says only queued tasks can be cancelled |
| CancelledNeverRuns | `task_queue.cpp:112` | cancel removes the task from `tasks_` only; the queue still holds it and a worker runs it |
| WaitAllWaits | `task_queue.cpp:120` | a popped task is counted nowhere until line 79; wait_all returns in between |
| StopReturns | `task_queue.cpp:45` | stop notifies between a worker's predicate and its block; join waits for ever |
| WaiterServed | `connection_pool.cpp:239` | `timeout_ms` is not used; after a failed creation or an expiry nobody serves the queued callback (run ConnectionPool itself with FairSpec) |
| WithinMaxConnections | `connection_pool.cpp:253` | `pending_creates_` is decremented before the connection is entered; another caller creates one too many |
| KeyIsFreed | `distributed_lock.h:60` | with "won" in CrashAt: a crash between SETNX and EXPIRE leaves a key without TTL |
| OnlyOwnerRenews | `distributed_lock.h:146` | GET and EXPIRE are separate; the key of another holder is prolonged ("Renew only if still owner", line 143) |
| FencingIncreases | `distributed_lock.h:63` | the fencing token counts per object and does not increase from holder to holder |
| TryLockReturns | `distributed_lock.h:131` | after a lost lock the renew thread is never joined, and the next try_lock assigns to a joinable thread: std::terminate |
| OpenTimesOut | `circuit_breaker.cpp:17` | nothing calls should_attempt_reset or stores HALF_OPEN: an OPEN breaker stays so (run CircuitBreaker itself with FairSpec) |
| OpenHasCause | `circuit_breaker.cpp:69` | with reset counted among its exceptions it holds; without, a thread that judged before reset opens the breaker after it |
| NoAbort | `rpc_client.cpp:159, 260` | a call dereferences a `connection_` that was reset after its check; connect after a lost connection assigns to a joinable thread |
| FailureHasCause | `rpc_client.cpp:247` | the close of an old connection fails requests that were sent on the new one |
| FrameAlive | `rpc_client.cpp:175` | call_sync gives up and returns; its callback, which captures its locals by reference, is called later |
| MappingMaintained | `frame_sync.cpp:261` | leave_room destroys a room that somebody joined after the decision |
| OnlyBrokenLeave | `frame_sync.cpp:355` | the late disconnect of an old connection removes the player who is back on a new one |
| OnlyOpenMapped | `frame_sync.cpp:220` | join_room does not ask whether the connection is still there: one that joins after its on_disconnect stays in `connections_` for good |
| LatestSnapshotsKept | `frame_sync.h:109` | the snapshot that is dropped is an arbitrary entry of an unordered_map, the comment at line 107 says the latest are kept |
| EnqueueReturns | `async_storage_adapter.cpp:109` | with TasksCall: a callback that enqueues on a full queue blocks the worker that would make room |
| CalledBackOnce | `async_storage_adapter.cpp:256` | a callback that throws is called a second time, with a failure, by the handler of the try block it was called in |
| NobodyInsideDestroyed | `async_storage_adapter.cpp:75` | the destructor wakes blocked producers and returns while they are still inside enqueue |
| LateByATickAtMost | `timer_wheel.cpp:260` | a wheel cascades a slot at the end of its time; a timer on the second wheel can be late by a turn of the first |
| CancelledForGood | `timer_wheel.cpp:197` | a repeating timer that is cancelled between its copy and the update of `task_map_` goes on for ever |
| TickEnds | `timer_wheel.cpp:197` | an interval below a tick (1 in Delay) is put back into the list that is being iterated |
| ZsetSorted | `redis_client.cpp:291` | ZADD of a member that is there changes its score and does not sort again |
| SetForGood | `redis_client.cpp:69` | SET keeps the deadline of an earlier SETEX, and the new value expires |
| RegisterReturns | `service_discovery.cpp:80` | with "reentrant" in Listeners: a listener is called with `mutex_` held and waits for it |
| ListIsFresh | `load_balancer.cpp:87` | the list is fetched when it is empty and never again; instances that left are still selected |
| AskedIsGiven | `load_balancer.cpp:17` | the list that was fetched for one service answers for every other |
| SetWeightBegins | `load_balancer.cpp:113` | set_weight leaves `current_weights_`: with weights 3 and 1 two selections leave -2 and 2, and 2 instead of 3 then gives the second instance two of the next three |
| SelectsOnlineOfType | `node_registry.h:66, 127` | a node that registers under another type stays in its old ring, one that leaves stays in "__all__", one that registers by itself never enters it |
| Replenished | `rate_limiter.cpp:84` | each refill drops the fraction it found: who asks more often than once a token is refused for ever |
| CalledAlive | `event_bus.h:150` | a handler that was unsubscribed after the pointers were collected is called through freed memory, where a handler of another type may be by now |
| OutlivesLoans | `object_pool.h:106` | the deleter of acquire keeps a bare pointer to the pool, whose destructor does not wait |
| RightSize | `object_pool.h:302` | a buffer released under another size, or the default one, is handed out as that size |
| ClosedUnsubscribed | `state_sync.cpp:412` | on_disconnect leaves the subscriptions of rooms; `state_sync.h:355` says they are cancelled ("连接断开时自动取消订阅") |
| SubscribeReturns | `state_sync.h:245` | with "snapshot" in Hooks: subscribe calls create_snapshot with `mutex_` held, which locks it again |
| NewestWins | `state_sync.h:159` | an update with an older time stamp replaces a newer one |
| SessionRoomHasMember | `game_components.cpp:317` | a leave deletes the room, or a join replaces it, between another connection's lookup and its insertion |
| MembersLoggedIn | `session_manager.h:53` | logout removes the session and leaves the connection in its rooms |
| OneRoom | `game_components.cpp:265` | joining a room does not leave the one before |
| PositionsCleaned | `player_move.cpp:166` | with SessionManager registered first the session is gone when the position should be removed; `player_move.h:55` says positions are cleaned up ("连接断开时清理位置") |
| NeverGarbled | `message.cpp:17` | the length of a body is narrowed to 16 bits; a longer body is read as headers |
| ReplyReturnsAnyway | `gateway_forwarder.cpp:134` | the loops of clients occupy all threads, and the backend's loop is never run |
| LossIsTold | `gateway_forwarder.cpp:163, 182` | a request whose backend connection died, or that is sent on a closed one, is lost without a word to the client |
| LoopsEnd | `service.h:87` | stop closes no connection; the threads stay in their reads |
| ToldOfAll | `aoi.cpp:81` | a newcomer is announced to the others, not the others to it |
| ToldExactly | `aoi.cpp:175` | a move inside a grid is told to that grid only, not to the other grids in view |
| WalksLiveNodes | `aoi.cpp:617` | the overload that takes a position walks the list without the lock while nodes are freed |
| OneCityPerCell | `slg/map.cpp:188` | with MaxCity 2: a city's cell turned back into plain takes a second city |
| TroopsSeen | `slg/map.cpp:256` | create_troop ignores that add_entity finds the id taken, and `aoi()` lets anybody move or remove a troop's entity |
| ReadsInside | `slg/map.cpp:335` | move_troop takes any target and update_troops reads its cell |
| CriticalIsHalfMore | `battle.cpp:186, 237` | the critical factor is commented as one and a half ("1.5倍伤害"), and the damage is multiplied by the 150 it returns |
| TargetExists | `battle.cpp:54` | with no generals on the other side an empty vector is indexed |

Two more things to know when reading the models. The lists of the timer wheel
are iterated by the ticking thread without the mutex that add_timer holds: that
data race has no defined outcome, and the model gives each list operation its
atomic effect, so what it shows holds for builds in which the race is benign.
With `layers = 1` tick() indexes past the last wheel; the module assumes two
layers at least.
