----------------------------- MODULE TaskQueue ------------------------------
(***************************************************************************)
(* task::TaskQueue (include/chwell/task/task_queue.h,                      *)
(* src/task/task_queue.cpp): a bounded priority queue of tasks, a map from *)
(* id to task for cancel, worker threads, two atomic counters, and the     *)
(* operations start, stop, submit, cancel and wait_all.                    *)
(*                                                                         *)
(* Unlike ThreadPool, stop() writes running_ and calls notify_all without  *)
(* mutex_.  The predicate of cv_.wait and the block that follows it are    *)
(* therefore two steps of a worker, which keeps the mutex between them;    *)
(* every other critical section is one action that needs the mutex free.   *)
(*                                                                         *)
(* start and stop are called by one owner thread, as in the tests and in   *)
(* DelayedTaskQueue.  timeout_ms_ and retry_count_ of a task are stored by *)
(* submit and read by nothing, so they are not part of the state.  The     *)
(* fetch_add on next_task_id_ is merged with the critical section of       *)
(* submit: nothing else reads that counter.                                *)
(***************************************************************************)
EXTENDS Naturals, FiniteSets

CONSTANTS
    Worker,         \* the threads that start() creates
    Priority,       \* priority values, a set of numbers
    MaxQueueSize,   \* config_.max_queue_size
    MaxId,          \* bound of the model: ids handed out by next_task_id_
    NoTask,         \* a null shared_ptr<TaskBase>
    NoWorker        \* mutex_ is free

Id == 1..MaxId

ASSUME QueueAssumption ==
    /\ Worker # {} /\ IsFiniteSet(Worker)
    /\ Priority \subseteq Nat /\ 0 \in Priority
    /\ MaxQueueSize \in Nat
    /\ MaxId \in Nat
    /\ NoTask \notin Id
    /\ NoWorker \notin Worker

VARIABLES
    queue,          \* ids in queue_
    prio,           \* the priority value of each entry of queue_, 0 for no entry
    tasks,          \* keys of tasks_
    running,        \* running_
    nextId,         \* next_task_id_
    runningCount,   \* running_count_
    completedCount, \* completed_count_
    mutex,          \* the worker inside cv_.wait that still holds mutex_
    wpc,            \* where each worker is in worker_loop
    cur,            \* the local variable task of each worker
    owner,          \* what the owner is doing: start/stop and its steps
    fate,           \* history: what became of each id
    cancelled,      \* history: the tasks cancel took out of tasks_ and a worker has yet to finish
    waiter,         \* where a caller of wait_all is
    awaited         \* history: the tasks accepted before wait_all was called and yet unfinished

queueVars  == <<queue, prio, tasks, nextId>>
countVars  == <<runningCount, completedCount>>
waiterVars == <<waiter, awaited>>
vars == <<queueVars, countVars, waiterVars, running, mutex, wpc, cur, owner,
          fate, cancelled>>

WorkerState == {"loop", "lock", "prewait", "waiting", "taken", "executing",
                "uncount", "complete", "erase", "exited"}
OwnerState  == {"stopped", "running", "notify", "join"}
Fate        == {"unused", "accepted", "rejected", "completed", "failed"}
WaiterState == {"idle", "pending", "running"}

Finished(id) == fate[id] \in {"completed", "failed"}

Init ==
    /\ queue = {} /\ tasks = {} /\ nextId = 1
    /\ prio = [id \in Id |-> 0]
    /\ running = FALSE
    /\ runningCount = 0 /\ completedCount = 0
    /\ mutex = NoWorker
    /\ wpc = [w \in Worker |-> "exited"]
    /\ cur = [w \in Worker |-> NoTask]
    /\ owner = "stopped"
    /\ fate = [id \in Id |-> "unused"]
    /\ cancelled = {}
    /\ waiter = "idle" /\ awaited = {}

MutexFree == mutex = NoWorker
Waiting   == {w \in Worker : wpc[w] = "waiting"}

-----------------------------------------------------------------------------
\* start(): running_.exchange(true), then the workers are created.
start ==
    /\ owner = "stopped"
    /\ owner' = "running"
    /\ running' = TRUE
    /\ wpc' = [w \in Worker |-> "loop"]
    /\ UNCHANGED <<queueVars, countVars, waiterVars, mutex, cur, fate, cancelled>>

\* stop(): running_.exchange(false) without mutex_ ...
stop ==
    /\ owner = "running"
    /\ owner' = "notify"
    /\ running' = FALSE
    /\ UNCHANGED <<queueVars, countVars, waiterVars, mutex, wpc, cur, fate, cancelled>>

\* ... cv_.notify_all(), without mutex_ either ...
notify_all ==
    /\ owner = "notify"
    /\ owner' = "join"
    /\ wpc' = [w \in Worker |-> IF wpc[w] = "waiting" THEN "lock" ELSE wpc[w]]
    /\ UNCHANGED <<queueVars, countVars, waiterVars, running, mutex, cur, fate, cancelled>>

\* ... and the joins.  What is still in queue_ stays there for the next start.
join ==
    /\ owner = "join"
    /\ \A w \in Worker : wpc[w] = "exited"
    /\ owner' = "stopped"
    /\ UNCHANGED <<queueVars, countVars, waiterVars, running, mutex, wpc, cur, fate, cancelled>>

-----------------------------------------------------------------------------
\* Mutant of submit: cv_.notify_one() left out.
submitSilently ==
    /\ MutexFree
    /\ nextId \in Id
    /\ nextId' = nextId + 1
    /\ \/ /\ Cardinality(queue) >= MaxQueueSize
          /\ fate' = [fate EXCEPT ![nextId] = "rejected"]
          /\ UNCHANGED <<queue, prio, tasks>>
       \/ /\ Cardinality(queue) < MaxQueueSize
          /\ fate' = [fate EXCEPT ![nextId] = "accepted"]
          /\ queue' = queue \cup {nextId}
          /\ \E p \in Priority : prio' = [prio EXCEPT ![nextId] = p]
          /\ tasks' = tasks \cup {nextId}
    /\ UNCHANGED <<wpc, countVars, waiterVars, running, mutex, cur, owner, cancelled>>

\* submit(): refuse when queue_ is full, otherwise enter the task in tasks_
\* and queue_, there with its priority, and notify one waiter, all under mutex_.
submit ==
    /\ MutexFree
    /\ nextId \in Id
    /\ nextId' = nextId + 1
    /\ \/ /\ Cardinality(queue) >= MaxQueueSize
          /\ fate' = [fate EXCEPT ![nextId] = "rejected"]
          /\ UNCHANGED <<queue, prio, tasks, wpc>>
       \/ /\ Cardinality(queue) < MaxQueueSize
          /\ fate' = [fate EXCEPT ![nextId] = "accepted"]
          /\ queue' = queue \cup {nextId}
          /\ \E p \in Priority : prio' = [prio EXCEPT ![nextId] = p]
          /\ tasks' = tasks \cup {nextId}
          /\ \/ \E w \in Waiting : wpc' = [wpc EXCEPT ![w] = "lock"]
             \/ Waiting = {} /\ UNCHANGED wpc
    /\ UNCHANGED <<countVars, waiterVars, running, mutex, cur, owner, cancelled>>

\* cancel(id) returning true: the id leaves tasks_, and nothing else happens.
cancel(id) ==
    /\ MutexFree
    /\ id \in tasks
    /\ tasks' = tasks \ {id}
    /\ cancelled' = cancelled \cup {id}
    /\ UNCHANGED <<queue, prio, nextId, countVars, waiterVars, running, mutex, wpc, cur, owner, fate>>

-----------------------------------------------------------------------------
Goto(w, from, to) == wpc[w] = from /\ wpc' = [wpc EXCEPT ![w] = to]

\* while (running_), read without mutex_.
Loop(w) ==
    /\ \/ running /\ Goto(w, "loop", "lock")
       \/ ~running /\ Goto(w, "loop", "exited")
    /\ UNCHANGED <<queueVars, countVars, waiterVars, running, mutex, cur, owner, fate, cancelled>>

\* The predicate of cv_.wait is false; the worker will block but holds mutex_.
PredicateFalse(w) ==
    /\ MutexFree
    /\ running /\ queue = {}
    /\ Goto(w, "lock", "prewait")
    /\ mutex' = w
    /\ UNCHANGED <<queueVars, countVars, waiterVars, running, cur, owner, fate, cancelled>>

\* The worker joins the wait set of cv_ and releases mutex_.
Block(w) ==
    /\ Goto(w, "prewait", "waiting")
    /\ mutex' = NoWorker
    /\ UNCHANGED <<queueVars, countVars, waiterVars, running, cur, owner, fate, cancelled>>

SpuriousWakeup(w) ==
    /\ Goto(w, "waiting", "lock")
    /\ UNCHANGED <<queueVars, countVars, waiterVars, running, mutex, cur, owner, fate, cancelled>>

\* if (!running_ && queue_.empty()) break;
Leave(w) ==
    /\ MutexFree
    /\ ~running /\ queue = {}
    /\ Goto(w, "lock", "exited")
    /\ UNCHANGED <<queueVars, countVars, waiterVars, running, mutex, cur, owner, fate, cancelled>>

\* Mutant of Pop: queue_.pop() left out.
PopWithoutRemoval(w, id) ==
    /\ MutexFree
    /\ id \in queue
    /\ Goto(w, "lock", "taken")
    /\ cur' = [cur EXCEPT ![w] = id]
    /\ UNCHANGED <<queueVars, countVars, waiterVars, running, mutex, owner, fate, cancelled>>

\* queue_.top() and pop(): a task of the highest priority.  Among equals the
\* pair is ordered by the address of the task, which is any order.
Pop(w, id) ==
    /\ MutexFree
    /\ id \in queue
    /\ \A other \in queue : prio[other] <= prio[id]
    /\ Goto(w, "lock", "taken")
    /\ cur' = [cur EXCEPT ![w] = id]
    /\ queue' = queue \ {id} /\ prio' = [prio EXCEPT ![id] = 0]
    /\ UNCHANGED <<tasks, nextId, countVars, waiterVars, running, mutex, owner, fate, cancelled>>

\* ++running_count_, after mutex_ was released.
CountRunning(w) ==
    /\ Goto(w, "taken", "executing")
    /\ runningCount' = runningCount + 1
    /\ UNCHANGED <<queueVars, completedCount, waiterVars, running, mutex, cur, owner, fate, cancelled>>

\* task->execute(): the function returns or throws, the callback gets the
\* status; an exception of the callback is caught by the worker.
Execute(w, outcome) ==
    /\ Goto(w, "executing", "uncount")
    /\ fate' = [fate EXCEPT ![cur[w]] = outcome]
    /\ awaited' = awaited \ {cur[w]}
    /\ UNCHANGED <<queueVars, countVars, waiter, running, mutex, cur, owner, cancelled>>

\* Mutant of UncountRunning: the count is kept when the task threw.
UncountUnlessFailed(w) ==
    /\ Goto(w, "uncount", "complete")
    /\ runningCount' = runningCount - (IF fate[cur[w]] = "failed" THEN 0 ELSE 1)
    /\ UNCHANGED <<queueVars, completedCount, waiterVars, running, mutex, cur, owner, fate, cancelled>>

\* --running_count_
UncountRunning(w) ==
    /\ Goto(w, "uncount", "complete")
    /\ runningCount' = runningCount - 1
    /\ UNCHANGED <<queueVars, completedCount, waiterVars, running, mutex, cur, owner, fate, cancelled>>

\* ++completed_count_
CountCompleted(w) ==
    /\ Goto(w, "complete", "erase")
    /\ completedCount' = completedCount + 1
    /\ UNCHANGED <<queueVars, runningCount, waiterVars, running, mutex, cur, owner, fate, cancelled>>

\* Mutant of Erase: a task that failed is not erased.
EraseUnlessFailed(w) ==
    /\ MutexFree
    /\ Goto(w, "erase", "loop")
    /\ tasks' = IF fate[cur[w]] = "failed" THEN tasks ELSE tasks \ {cur[w]}
    /\ cur' = [cur EXCEPT ![w] = NoTask]
    /\ cancelled' = cancelled \ {cur[w]}
    /\ UNCHANGED <<queue, prio, nextId, countVars, waiterVars, running, mutex, owner, fate>>

\* Mutant of Erase: the worker keeps its reference to the task.
EraseKeepingTask(w) ==
    /\ MutexFree
    /\ Goto(w, "erase", "loop")
    /\ tasks' = tasks \ {cur[w]}
    /\ cancelled' = cancelled \ {cur[w]}
    /\ UNCHANGED <<queue, prio, nextId, countVars, waiterVars, running, mutex, cur, owner, fate>>

\* tasks_.erase(task->id()) under mutex_.
Erase(w) ==
    /\ MutexFree
    /\ Goto(w, "erase", "loop")
    /\ tasks' = tasks \ {cur[w]}
    /\ cur' = [cur EXCEPT ![w] = NoTask]
    /\ cancelled' = cancelled \ {cur[w]}
    /\ UNCHANGED <<queue, prio, nextId, countVars, waiterVars, running, mutex, owner, fate>>

-----------------------------------------------------------------------------
\* wait_all(): pending_count() under mutex_, then running_count(), then again.
CallWaitAll ==
    /\ waiter = "idle"
    /\ waiter' = "pending"
    /\ awaited' = {id \in Id : fate[id] = "accepted"}
    /\ UNCHANGED <<queueVars, countVars, running, mutex, wpc, cur, owner, fate, cancelled>>

ReadPending ==
    /\ waiter = "pending"
    /\ MutexFree
    /\ waiter' = IF queue = {} THEN "running" ELSE "pending"
    /\ UNCHANGED <<awaited, queueVars, countVars, running, mutex, wpc, cur, owner, fate, cancelled>>

\* Both counts were read as zero: wait_all returns.
ReturnWaitAll ==
    /\ waiter = "running"
    /\ runningCount = 0
    /\ waiter' = "idle" /\ awaited' = {}
    /\ UNCHANGED <<queueVars, countVars, running, mutex, wpc, cur, owner, fate, cancelled>>

PollAgain ==
    /\ waiter = "running"
    /\ runningCount > 0
    /\ waiter' = "pending"
    /\ UNCHANGED <<awaited, queueVars, countVars, running, mutex, wpc, cur, owner, fate, cancelled>>

-----------------------------------------------------------------------------
WorkerStep(w) ==
    \/ Loop(w) \/ PredicateFalse(w) \/ Block(w) \/ Leave(w)
    \/ \E id \in Id : Pop(w, id)
    \/ CountRunning(w)
    \/ \E outcome \in {"completed", "failed"} : Execute(w, outcome)
    \/ UncountRunning(w) \/ CountCompleted(w) \/ Erase(w)

Next ==
    \/ start \/ stop \/ notify_all \/ join
    \/ submit
    \/ \E id \in Id : cancel(id)
    \/ \E w \in Worker : WorkerStep(w) \/ SpuriousWakeup(w)
    \/ CallWaitAll \/ ReadPending \/ ReturnWaitAll \/ PollAgain

Spec == Init /\ [][Next]_vars

\* Threads that can run do run and tasks return; a stop() that began goes on.
\* Nobody has to submit, cancel, start or stop.
Fairness ==
    /\ \A w \in Worker : WF_vars(WorkerStep(w))
    /\ WF_vars(notify_all) /\ WF_vars(join)

FairSpec == Spec /\ Fairness
-----------------------------------------------------------------------------
TypeOK ==
    /\ queue \subseteq Id /\ tasks \subseteq Id /\ cancelled \subseteq Id
    /\ prio \in [Id -> Priority]
    /\ nextId \in 1..(MaxId + 1)
    /\ running \in BOOLEAN
    /\ runningCount \in Nat /\ completedCount \in Nat
    /\ mutex \in Worker \cup {NoWorker}
    /\ wpc \in [Worker -> WorkerState]
    /\ cur \in [Worker -> Id \cup {NoTask}]
    /\ \A w \in Worker :
          (cur[w] = NoTask) =
              (wpc[w] \in {"loop", "lock", "prewait", "waiting", "exited"})
    /\ owner \in OwnerState
    /\ fate \in [Id -> Fate]
    /\ waiter \in WaiterState /\ awaited \subseteq Id

InHand == {id \in Id : \E w \in Worker : cur[w] = id}

\* tasks_ holds exactly the tasks that are queued or being run and were not
\* cancelled: it never keeps a finished task alive, whether the task failed,
\* was cancelled while it ran, or was left over by a stop.
MapTracksLiveTasks == tasks = (queue \cup InHand) \ cancelled

\* running_count_ is the number of workers between its increment and its
\* decrement, and completed_count_ the number of executions that passed it,
\* whatever the interleaving and also when tasks throw.
CountersExact ==
    /\ runningCount =
          Cardinality({w \in Worker : wpc[w] \in {"executing", "uncount"}})
    /\ completedCount =
          Cardinality({id \in Id : Finished(id)})
            - Cardinality({w \in Worker : wpc[w] \in {"uncount", "complete"}})

\* The books of the queue: its map, its counters and the tasks agree.
BooksAgree == TypeOK /\ MapTracksLiveTasks /\ CountersExact

\* The tasks that a worker has taken out of queue_.
Left == {id \in Id : fate[id] \in {"accepted", "completed", "failed"}} \ queue

\* While the queue runs and tasks are queued, workers go on taking tasks: no
\* wakeup is lost between submit, cv_.wait and a worker that comes back.  Which
\* task they take is not promised: one of low priority waits for as long as
\* higher ones are submitted.
WorkIsTaken ==
    []<>(queue = {} \/ owner # "running") \/ []<><<Left' # Left>>_vars

\* Refinement: the executor of Executor.tla that never closes.
ExecutorState ==
    [id \in Id |-> IF id \in InHand /\ ~Finished(id) THEN "running"
                   ELSE IF id \in queue THEN "queued"
                   ELSE IF Finished(id) THEN "done"
                   ELSE IF fate[id] = "unused" THEN "fresh" ELSE fate[id]]

Exec == INSTANCE Executor WITH Task <- Id, state <- ExecutorState, phase <- "open"

\* Every id is accepted or refused once, started once and finished once.
ImplementsExecutor == Exec!Spec

-----------------------------------------------------------------------------
(* What the comments of the code say and the code does not do.             *)

\* task_queue.cpp, cancel: only a task that is still in the queue can be
\* cancelled.
CancelsOnlyQueued ==
    [][\A id \in Id : id \in cancelled' \ cancelled => id \in queue]_vars

\* task_queue.h, cancel: a task that was cancelled while it was queued does
\* not run.
CancelledNeverRuns ==
    [][\A id \in cancelled : id \in queue => id \notin InHand']_vars

\* task_queue.h, wait_all: when it returns, the tasks that were accepted
\* before the call have been executed.
WaitAllWaits ==
    [][waiter = "running" /\ waiter' = "idle"
          => awaited = {}]_vars

\* task_queue.h, stop: the queue stops, that is, stop() returns.
StopReturns == (owner = "notify") ~> (owner = "stopped")
=============================================================================
