---------------------------- MODULE AsyncStorage ----------------------------
(***************************************************************************)
(* storage::AsyncStorageAdapter (include/chwell/storage/                   *)
(* async_storage_adapter.h, src/storage/async_storage_adapter.cpp): every  *)
(* async_* call enqueues a task that worker threads run against the        *)
(* synchronous storage.  The queue may be bounded; then enqueue blocks     *)
(* while it is full.                                                       *)
(*                                                                         *)
(* Producers that wait for space and workers that wait for tasks sleep on  *)
(* the same condition variable queue_cv_, and both sides wake it with      *)
(* notify_one.  A critical section of queue_mutex_ is one action; stopping_*)
(* is only written under it.  The notify calls outside it are actions.     *)
(*                                                                         *)
(* A task answers its promise or callback while it runs; a task that       *)
(* enqueue refuses is answered at once with a failure.  The ten async_*    *)
(* methods differ in the storage call they wrap and are one operation      *)
(* here; so is a null storage_, which never reaches the queue.             *)
(***************************************************************************)
EXTENDS Naturals, Sequences

CONSTANTS
    Worker,         \* the threads of workers_
    Client,         \* threads outside the adapter that call async_*
    Task,           \* calls, each made once
    NoTask,
    MaxQueueSizes,  \* the values of max_queue_size_ that are used, 0 for no limit
    TasksCall,      \* callbacks that workers run call async_* themselves
    LateDestroy     \* the destructor may begin while a client is in enqueue

ASSUME StorageAssumption ==
    /\ Worker # {} /\ Worker \cap Client = {}
    /\ NoTask \notin Task
    /\ MaxQueueSizes \subseteq Nat
    /\ TasksCall \in BOOLEAN /\ LateDestroy \in BOOLEAN

Caller == Client \cup Worker

VARIABLES
    maxQueueSize,   \* max_queue_size_, fixed when the adapter is made
    tasks,      \* tasks_, the FIFO
    stopping,   \* stopping_
    wpc,        \* where each worker is in worker_loop
    cur,        \* the task each worker runs
    epc,        \* where each caller is in enqueue
    offered,    \* the task each caller is enqueueing
    owner,      \* alive, or where the destructor is
    fate        \* history: what became of each call

workerVars == <<wpc, cur>>
enqueueVars == <<epc, offered>>
vars == <<maxQueueSize, tasks, stopping, workerVars, enqueueVars, owner, fate>>

Init ==
    /\ maxQueueSize \in MaxQueueSizes
    /\ tasks = <<>>
    /\ stopping = FALSE
    /\ wpc = [w \in Worker |-> "check"]
    /\ cur = [w \in Worker |-> NoTask]
    /\ epc = [c \in Caller |-> "none"]
    /\ offered = [c \in Caller |-> NoTask]
    /\ owner = "alive"
    /\ fate = [t \in Task |-> "fresh"]

-----------------------------------------------------------------------------
\* queue_cv_.notify_one(): one sleeper of either kind, if there is any.
WaitingWorkers == {w \in Worker : wpc[w] = "waiting"}
Blocked == {c \in Caller : epc[c] = "blocked"}

WakeWorker(w) == wpc' = [wpc EXCEPT ![w] = "check"]
WakeCaller(c) == epc' = [epc EXCEPT ![c] = "check"]

-----------------------------------------------------------------------------
\* Mutant of Full: one task too many.
FullLate == maxQueueSize > 0 /\ Len(tasks) > maxQueueSize

Full == maxQueueSize > 0 /\ Len(tasks) >= maxQueueSize

\* An async_* call begins.
Offer(c, t) ==
    /\ epc[c] = "none" /\ fate[t] = "fresh"
    /\ epc' = [epc EXCEPT ![c] = "check"]
    /\ offered' = [offered EXCEPT ![c] = t]
    /\ fate' = [fate EXCEPT ![t] = "offered"]
    /\ UNCHANGED <<maxQueueSize, tasks, stopping, workerVars, owner>>

Call(c, t) == owner = "alive" /\ Offer(c, t)

\* The callback of a running task makes a call of its own.
CallFromCallback(w, t) == TasksCall /\ wpc[w] \in {"running", "again"} /\ Offer(w, t)

\* Mutant of Refuse: the call that is refused is left with the caller.
RefuseKeeping(c) ==
    /\ epc[c] = "check"
    /\ stopping
    /\ epc' = [epc EXCEPT ![c] = "none"]
    /\ fate' = [fate EXCEPT ![offered[c]] = "rejected"]
    /\ UNCHANGED <<maxQueueSize, tasks, stopping, workerVars, offered, owner>>

\* enqueue, at its start or woken: false once stopping_ is set; the caller
\* answers with a failure.
Refuse(c) ==
    /\ epc[c] = "check"
    /\ stopping
    /\ epc' = [epc EXCEPT ![c] = "none"]
    /\ fate' = [fate EXCEPT ![offered[c]] = "rejected"]
    /\ offered' = [offered EXCEPT ![c] = NoTask]
    /\ UNCHANGED <<maxQueueSize, tasks, stopping, workerVars, owner>>

\* enqueue sleeps while the queue is full.
BlockFull(c) ==
    /\ epc[c] = "check"
    /\ ~stopping /\ Full
    /\ epc' = [epc EXCEPT ![c] = "blocked"]
    /\ UNCHANGED <<maxQueueSize, tasks, stopping, workerVars, offered, owner, fate>>

\* Mutant of Push: a producer that was woken does not look at stopping_ again.
PushAlways(c) ==
    /\ epc[c] = "check"
    /\ ~Full
    /\ tasks' = Append(tasks, offered[c])
    /\ fate' = [fate EXCEPT ![offered[c]] = "accepted"]
    /\ epc' = [epc EXCEPT ![c] = "notify"]
    /\ offered' = [offered EXCEPT ![c] = NoTask]
    /\ UNCHANGED <<maxQueueSize, stopping, workerVars, owner>>

\* enqueue pushes and unlocks; the notify_one is still to come.
Push(c) ==
    /\ epc[c] = "check"
    /\ ~stopping /\ ~Full
    /\ tasks' = Append(tasks, offered[c])
    /\ fate' = [fate EXCEPT ![offered[c]] = "accepted"]
    /\ epc' = [epc EXCEPT ![c] = "notify"]
    /\ offered' = [offered EXCEPT ![c] = NoTask]
    /\ UNCHANGED <<maxQueueSize, stopping, workerVars, owner>>

\* Mutant of NotifyPushed: returns without queue_cv_.notify_one().
PushedSilently(c) ==
    /\ epc[c] = "notify"
    /\ epc' = [epc EXCEPT ![c] = "none"]
    /\ UNCHANGED <<maxQueueSize, tasks, stopping, workerVars, offered, owner, fate>>

\* The notify_one of enqueue, which then returns true.
NotifyPushed(c) ==
    /\ epc[c] = "notify"
    /\ \/ \E w \in WaitingWorkers : WakeWorker(w) /\ epc' = [epc EXCEPT ![c] = "none"]
       \/ \E d \in Blocked : epc' = [epc EXCEPT ![c] = "none", ![d] = "check"] /\ UNCHANGED wpc
       \/ /\ WaitingWorkers = {} /\ Blocked = {}
          /\ epc' = [epc EXCEPT ![c] = "none"] /\ UNCHANGED wpc
    /\ UNCHANGED <<maxQueueSize, tasks, stopping, cur, offered, owner, fate>>

-----------------------------------------------------------------------------
\* worker_loop: take the oldest task ...
Take(w) ==
    /\ wpc[w] = "check"
    /\ tasks # <<>>
    /\ cur' = [cur EXCEPT ![w] = Head(tasks)]
    /\ tasks' = Tail(tasks)
    /\ wpc' = [wpc EXCEPT ![w] = "popped"]
    /\ UNCHANGED <<maxQueueSize, stopping, enqueueVars, owner, fate>>

\* ... notify_one, which is meant for a producer ...
NotifyPopped(w) ==
    /\ wpc[w] = "popped"
    /\ \/ \E v \in WaitingWorkers :
            wpc' = [wpc EXCEPT ![w] = "running", ![v] = "check"] /\ UNCHANGED epc
       \/ \E c \in Blocked : wpc' = [wpc EXCEPT ![w] = "running"] /\ WakeCaller(c)
       \/ /\ WaitingWorkers = {} /\ Blocked = {}
          /\ wpc' = [wpc EXCEPT ![w] = "running"] /\ UNCHANGED epc
    /\ UNCHANGED <<maxQueueSize, tasks, stopping, cur, offered, owner, fate>>

\* ... and run it.  A callback is called inside the try whose handlers call it
\* too: when it throws it is called again, with a failure.
CallbackThrows(w) ==
    /\ wpc[w] = "running" /\ epc[w] = "none"
    /\ wpc' = [wpc EXCEPT ![w] = "again"]
    /\ UNCHANGED <<maxQueueSize, tasks, stopping, cur, enqueueVars, owner, fate>>

\* The task returns, and the calls that it made have returned.  (When the second
\* call of a callback throws too, nothing catches it and the process ends.)
Finish(w) ==
    /\ wpc[w] \in {"running", "again"} /\ epc[w] = "none"
    /\ fate' = [fate EXCEPT ![cur[w]] = "done"]
    /\ cur' = [cur EXCEPT ![w] = NoTask]
    /\ wpc' = [wpc EXCEPT ![w] = "check"]
    /\ UNCHANGED <<maxQueueSize, tasks, stopping, enqueueVars, owner>>

Wait(w) ==
    /\ wpc[w] = "check"
    /\ ~stopping /\ tasks = <<>>
    /\ wpc' = [wpc EXCEPT ![w] = "waiting"]
    /\ UNCHANGED <<maxQueueSize, tasks, stopping, cur, enqueueVars, owner, fate>>

\* if (tasks_.empty()) return;  the predicate was true, so it is stopping.
Exit(w) ==
    /\ wpc[w] = "check"
    /\ stopping /\ tasks = <<>>
    /\ wpc' = [wpc EXCEPT ![w] = "exited"]
    /\ UNCHANGED <<maxQueueSize, tasks, stopping, cur, enqueueVars, owner, fate>>

\* A wait may end without a notify.
SpuriousWakeup ==
    /\ \/ \E w \in WaitingWorkers : WakeWorker(w) /\ UNCHANGED epc
       \/ \E c \in Blocked : WakeCaller(c) /\ UNCHANGED wpc
    /\ UNCHANGED <<maxQueueSize, tasks, stopping, cur, offered, owner, fate>>

-----------------------------------------------------------------------------
\* ~AsyncStorageAdapter: stopping_ under the mutex ...
BeginDestroy ==
    /\ owner = "alive"
    /\ LateDestroy \/ \A c \in Client : epc[c] = "none"
    /\ stopping' = TRUE
    /\ owner' = "notify"
    /\ UNCHANGED <<maxQueueSize, tasks, workerVars, enqueueVars, fate>>

\* ... notify_all ...
notify_all ==
    /\ owner = "notify"
    /\ wpc' = [w \in Worker |-> IF w \in WaitingWorkers THEN "check" ELSE wpc[w]]
    /\ epc' = [c \in Caller |-> IF c \in Blocked THEN "check" ELSE epc[c]]
    /\ owner' = "join"
    /\ UNCHANGED <<maxQueueSize, tasks, stopping, cur, offered, fate>>

\* ... and the joins of the workers; nobody waits for clients.
Join ==
    /\ owner = "join"
    /\ \A w \in Worker : wpc[w] = "exited"
    /\ owner' = "destroyed"
    /\ UNCHANGED <<maxQueueSize, tasks, stopping, workerVars, enqueueVars, fate>>

\* The adapter is gone.
Destroyed ==
    /\ owner = "destroyed"
    /\ UNCHANGED vars

WorkerStep(w) == Take(w) \/ NotifyPopped(w) \/ CallbackThrows(w) \/ Finish(w) \/ Wait(w) \/ Exit(w)

EnqueueStep(c) == Refuse(c) \/ BlockFull(c) \/ Push(c) \/ NotifyPushed(c)

Next ==
    \/ \E c \in Client, t \in Task : Call(c, t)
    \/ \E w \in Worker, t \in Task : CallFromCallback(w, t)
    \/ \E c \in Caller : owner # "destroyed" /\ EnqueueStep(c)
    \/ \E w \in Worker : WorkerStep(w)
    \/ SpuriousWakeup
    \/ BeginDestroy \/ notify_all \/ Join \/ Destroyed

Spec == Init /\ [][Next]_vars

\* Threads that can run do run, and storage calls return.  Nobody has to call
\* or to destroy the adapter.
Fairness ==
    /\ \A w \in Worker : WF_vars(WorkerStep(w))
    /\ \A c \in Caller : WF_vars(owner # "destroyed" /\ EnqueueStep(c))
    /\ WF_vars(notify_all) /\ WF_vars(Join)

FairSpec == Spec /\ Fairness
-----------------------------------------------------------------------------
TypeOK ==
    /\ maxQueueSize \in MaxQueueSizes
    /\ tasks \in Seq(Task)
    /\ stopping \in BOOLEAN
    /\ wpc \in [Worker -> {"check", "waiting", "popped", "running", "again", "exited"}]
    /\ cur \in [Worker -> Task \cup {NoTask}]
    /\ epc \in [Caller -> {"none", "check", "blocked", "notify"}]
    /\ offered \in [Caller -> Task \cup {NoTask}]
    /\ \A c \in Caller : (offered[c] # NoTask) = (epc[c] \in {"check", "blocked"})
    /\ owner \in {"alive", "notify", "join", "destroyed"}
    /\ fate \in [Task -> {"fresh", "offered", "accepted", "rejected", "done"}]

Queued(t) == \E i \in 1..Len(tasks) : tasks[i] = t
Running(t) == \E w \in Worker : cur[w] = t

\* The queue never grows past max_queue_size, however many producers are woken
\* together.
Bounded == maxQueueSize > 0 => Len(tasks) <= maxQueueSize

\* The bound, with the types.
QueueSound == TypeOK /\ Bounded

\* The adapter implements Executor: offered calls are still fresh to it.
ExecutorState ==
    [t \in Task |-> IF Running(t) THEN "running"
                    ELSE IF Queued(t) THEN "queued"
                    ELSE IF fate[t] = "offered" THEN "fresh" ELSE fate[t]]

ExecutorPhase ==
    IF owner = "alive" THEN "open"
    ELSE IF owner = "destroyed" THEN "closed" ELSE "closing"

Exec == INSTANCE Executor WITH state <- ExecutorState, phase <- ExecutorPhase

\* Each call is accepted or refused once, run once, and the destructor returns
\* only when the accepted ones are done.
ImplementsExecutor == Exec!Spec

\* With fair threads a call is answered and the destructor returns, as long as
\* no producer sleeps on queue_cv_ (max_queue_size 0).
EveryCallAnswered ==
    /\ \A t \in Task : (maxQueueSize = 0 /\ fate[t] \in {"offered", "accepted"})
                          ~> (fate[t] \in {"done", "rejected"} \/ owner = "destroyed")
    /\ (maxQueueSize = 0 /\ stopping) ~> (owner = "destroyed")

-----------------------------------------------------------------------------
(* What the comments of the code say, or a caller expects, and the code    *)
(* does not do.                                                            *)

\* A callback is called once.  Does not hold for one that throws.
CalledBackOnce == \A w \in Worker : wpc[w] # "again"

\* async_storage_adapter.h, max_queue_size: a blocked enqueue is released by the
\* shutdown.  Then it must be out of the adapter before the adapter is gone.
NobodyInsideDestroyed ==
    owner = "destroyed" => \A c \in Client : epc[c] = "none"

\* async_storage_adapter.h, max_queue_size: enqueue blocks until there is room or
\* the adapter shuts down.  So with fair threads a call that blocks comes back.
EnqueueReturns ==
    \A c \in Caller : (epc[c] = "blocked") ~> (epc[c] = "none")
=============================================================================
