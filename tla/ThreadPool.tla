----------------------------- MODULE ThreadPool -----------------------------
(***************************************************************************)
(* core::ThreadPool (include/chwell/core/thread_pool.h,                    *)
(* src/core/thread_pool.cpp): a FIFO of tasks, a mutex, a condition        *)
(* variable, and worker threads that the destructor drains and joins.      *)
(*                                                                         *)
(* A critical section of the code is one action: a thread that holds       *)
(* mutex_ blocks nowhere but in cond_.wait, which gives the mutex up in    *)
(* the same step, and every access to tasks_ and stopped_ is under the     *)
(* mutex.  The notify calls are outside the mutex in the code and are      *)
(* actions of their own here.                                              *)
(*                                                                         *)
(* Callers are the threads outside the pool (Client) and the tasks         *)
(* themselves, which may call post while a worker runs them.  Under the    *)
(* lifetime rules of C++ a client's calls return before the destructor     *)
(* begins; the calls of a running task have no such bound, and they are    *)
(* the reason for the test of stopped_ in post.  A task does not throw: an *)
(* exception that leaves task() in worker_loop is std::terminate.          *)
(***************************************************************************)
EXTENDS Naturals, Sequences

CONSTANTS
    Worker,     \* the threads of workers_
    Client,     \* threads outside the pool that call post
    Task,       \* task objects; each is posted at most once
    NoTask      \* an empty std::function

ASSUME PoolAssumption ==
    /\ Worker # {}
    /\ Worker \cap Client = {}
    /\ NoTask \notin Task

VARIABLES
    tasks,      \* tasks_, the FIFO
    stopped,    \* stopped_
    wpc,        \* where each worker is in worker_loop
    cur,        \* the local variable task of each worker
    notifying,  \* callers that have pushed a task and not yet called notify_one
    owner,      \* where the owner of the pool is: alive, or in ~ThreadPool
    fate        \* history: what became of each task that was posted

vars == <<tasks, stopped, wpc, cur, notifying, owner, fate>>

WorkerState == {"check", "waiting", "running", "exited"}
OwnerState  == {"alive", "notify", "join", "destroyed"}
Fate        == {"fresh", "accepted", "rejected", "done"}

Init ==
    /\ tasks = <<>>
    /\ stopped = FALSE
    /\ wpc = [w \in Worker |-> "check"]
    /\ cur = [w \in Worker |-> NoTask]
    /\ notifying = {}
    /\ owner = "alive"
    /\ fate = [t \in Task |-> "fresh"]

-----------------------------------------------------------------------------
\* Mutant of Push: no test of stopped_, a task is queued behind the drain.
PushWhenStopped(c, t) ==
    /\ c \notin notifying
    /\ fate[t] = "fresh"
    /\ tasks' = Append(tasks, t)
    /\ fate' = [fate EXCEPT ![t] = "accepted"]
    /\ notifying' = notifying \cup {c}
    /\ UNCHANGED <<stopped, wpc, cur, owner>>

\* Mutant of Push: returns without notify_one.
PushSilently(c, t) ==
    /\ fate[t] = "fresh"
    /\ IF stopped
       THEN fate' = [fate EXCEPT ![t] = "rejected"] /\ UNCHANGED tasks
       ELSE fate' = [fate EXCEPT ![t] = "accepted"] /\ tasks' = Append(tasks, t)
    /\ UNCHANGED <<notifying, stopped, wpc, cur, owner>>

\* The critical section of post: refuse once stopped_, otherwise push.  The
\* caller still owes the condition variable a notify_one.
Push(c, t) ==
    /\ c \notin notifying
    /\ fate[t] = "fresh"
    /\ \/ /\ stopped
          /\ fate' = [fate EXCEPT ![t] = "rejected"]
          /\ UNCHANGED <<tasks, notifying>>
       \/ /\ ~stopped
          /\ tasks' = Append(tasks, t)
          /\ fate' = [fate EXCEPT ![t] = "accepted"]
          /\ notifying' = notifying \cup {c}
    /\ UNCHANGED <<stopped, wpc, cur, owner>>

post(c, t) == owner = "alive" /\ c \in Client /\ Push(c, t)

postFromTask(w, t) == wpc[w] = "running" /\ Push(w, t)

Waiting == {w \in Worker : wpc[w] = "waiting"}

\* cond_.notify_one(), the last statement of post, outside the mutex.
notify_one(c) ==
    /\ c \in notifying
    /\ notifying' = notifying \ {c}
    /\ \/ \E w \in Waiting : wpc' = [wpc EXCEPT ![w] = "check"]
       \/ Waiting = {} /\ UNCHANGED wpc
    /\ UNCHANGED <<tasks, stopped, cur, owner, fate>>

-----------------------------------------------------------------------------
\* Mutant of Take: no break before the pop, so a worker that was woken by the
\* destructor calls an empty task.
TakeOnStop(w) ==
    /\ wpc[w] = "check"
    /\ stopped \/ tasks # <<>>
    /\ cur' = [cur EXCEPT ![w] = IF tasks = <<>> THEN NoTask ELSE Head(tasks)]
    /\ tasks' = IF tasks = <<>> THEN <<>> ELSE Tail(tasks)
    /\ wpc' = [wpc EXCEPT ![w] = "running"]
    /\ UNCHANGED <<stopped, notifying, owner, fate>>

\* Mutant of Take: tasks_.pop() left out.
TakeWithoutPop(w) ==
    /\ wpc[w] = "check"
    /\ tasks # <<>>
    /\ cur' = [cur EXCEPT ![w] = Head(tasks)]
    /\ wpc' = [wpc EXCEPT ![w] = "running"]
    /\ UNCHANGED <<tasks, stopped, notifying, owner, fate>>

\* worker_loop takes the oldest task, queued before or after stopped_ was set.
Take(w) ==
    /\ wpc[w] = "check"
    /\ tasks # <<>>
    /\ cur' = [cur EXCEPT ![w] = Head(tasks)]
    /\ tasks' = Tail(tasks)
    /\ wpc' = [wpc EXCEPT ![w] = "running"]
    /\ UNCHANGED <<stopped, notifying, owner, fate>>

\* The predicate of cond_.wait is false: the worker joins the wait set and
\* releases the mutex in one step.
Wait(w) ==
    /\ wpc[w] = "check"
    /\ ~stopped
    /\ tasks = <<>>
    /\ wpc' = [wpc EXCEPT ![w] = "waiting"]
    /\ UNCHANGED <<tasks, stopped, cur, notifying, owner, fate>>

\* cond_.wait may return without a notify; the predicate is evaluated again.
SpuriousWakeup(w) ==
    /\ wpc[w] = "waiting"
    /\ wpc' = [wpc EXCEPT ![w] = "check"]
    /\ UNCHANGED <<tasks, stopped, cur, notifying, owner, fate>>

\* if (stopped_ && tasks_.empty()) break;
Exit(w) ==
    /\ wpc[w] = "check"
    /\ stopped
    /\ tasks = <<>>
    /\ wpc' = [wpc EXCEPT ![w] = "exited"]
    /\ UNCHANGED <<tasks, stopped, cur, notifying, owner, fate>>

\* task() returns; a post that the task made has returned before it.
Finish(w) ==
    /\ wpc[w] = "running"
    /\ w \notin notifying
    /\ fate' = [fate EXCEPT ![cur[w]] = "done"]
    /\ cur' = [cur EXCEPT ![w] = NoTask]
    /\ wpc' = [wpc EXCEPT ![w] = "check"]
    /\ UNCHANGED <<tasks, stopped, notifying, owner>>

-----------------------------------------------------------------------------
\* ~ThreadPool sets stopped_ under the mutex ...
BeginDestroy ==
    /\ owner = "alive"
    /\ notifying \cap Client = {}
    /\ stopped' = TRUE
    /\ owner' = "notify"
    /\ UNCHANGED <<tasks, wpc, cur, notifying, fate>>

\* Mutant of notify_all: notify_one, where every worker must be woken.
NotifyOnlyOne ==
    /\ owner = "notify"
    /\ \/ \E w \in Waiting : wpc' = [wpc EXCEPT ![w] = "check"]
       \/ Waiting = {} /\ UNCHANGED wpc
    /\ owner' = "join"
    /\ UNCHANGED <<tasks, stopped, cur, notifying, fate>>

\* ... wakes every waiter with notify_all ...
notify_all ==
    /\ owner = "notify"
    /\ wpc' = [w \in Worker |-> IF wpc[w] = "waiting" THEN "check" ELSE wpc[w]]
    /\ owner' = "join"
    /\ UNCHANGED <<tasks, stopped, cur, notifying, fate>>

\* ... and joins the workers.
Join ==
    /\ owner = "join"
    /\ \A w \in Worker : wpc[w] = "exited"
    /\ owner' = "destroyed"
    /\ UNCHANGED <<tasks, stopped, wpc, cur, notifying, fate>>

\* The pool is gone; the only state without a successor that is no deadlock.
Destroyed ==
    /\ owner = "destroyed"
    /\ UNCHANGED vars

WorkerStep(w) == Take(w) \/ Wait(w) \/ Exit(w) \/ Finish(w)

Next ==
    \/ \E c \in Client, t \in Task : post(c, t)
    \/ \E w \in Worker, t \in Task : postFromTask(w, t)
    \/ \E c \in Client \cup Worker : notify_one(c)
    \/ \E w \in Worker : WorkerStep(w) \/ SpuriousWakeup(w)
    \/ BeginDestroy
    \/ notify_all
    \/ Join
    \/ Destroyed

Spec == Init /\ [][Next]_vars

\* The scheduler runs every thread that can run, and tasks terminate.  Nobody
\* is obliged to post, to destroy the pool or to suffer a spurious wakeup.
Fairness ==
    /\ \A w \in Worker : WF_vars(WorkerStep(w))
    /\ \A c \in Client \cup Worker : WF_vars(notify_one(c))
    /\ WF_vars(notify_all)
    /\ WF_vars(Join)

FairSpec == Spec /\ Fairness
-----------------------------------------------------------------------------
TypeOK ==
    /\ tasks \in Seq(Task)
    /\ stopped \in BOOLEAN
    /\ wpc \in [Worker -> WorkerState]
    /\ cur \in [Worker -> Task \cup {NoTask}]
    /\ \A w \in Worker : wpc[w] = "running" <=> cur[w] # NoTask
    /\ notifying \subseteq Client \cup Worker
    /\ owner \in OwnerState
    /\ fate \in [Task -> Fate]

Queued(t)  == \E i \in 1..Len(tasks) : tasks[i] = t
Running(t) == \E w \in Worker : cur[w] = t

\* A task that post accepted is in one place and in one copy until it is done:
\* once in tasks_, or in the hands of one worker.  No worker loses a task
\* between tasks_.pop() and task(), and no two workers run the same task.
HeldOnce ==
    /\ \A i, j \in 1..Len(tasks) : tasks[i] = tasks[j] => i = j
    /\ \A v, w \in Worker : cur[v] = cur[w] /\ cur[v] # NoTask => v = w
    /\ \A t \in Task :
          /\ ~(Queued(t) /\ Running(t))
          /\ fate[t] = "accepted" <=> Queued(t) \/ Running(t)

\* The notify of post is outside the mutex, but it is never lost: while a task
\* is queued somebody is about to look at the queue (a worker that is not
\* asleep) or about to wake a sleeper (a caller or the destructor).
NoLostWakeup ==
    tasks # <<>> =>
        \/ \E w \in Worker : wpc[w] \in {"check", "running"}
        \/ notifying # {}
        \/ owner = "notify"

\* Once the destructor has called notify_all no worker sleeps again, so the
\* joins that follow wait only for tasks that are still queued or running.
NoSleeperAtJoin ==
    owner \in {"join", "destroyed"} => Waiting = {}

\* When ~ThreadPool returns, every task that post accepted has been run.
DrainedWhenDestroyed ==
    owner = "destroyed" => \A t \in Task : fate[t] # "accepted"

-----------------------------------------------------------------------------
\* Refinement: the state of the abstract executor.
ExecutorState ==
    [t \in Task |-> IF Running(t) THEN "running"
                   ELSE IF Queued(t) THEN "queued" ELSE fate[t]]

ExecutorPhase ==
    IF owner = "alive" THEN "open"
    ELSE IF owner = "destroyed" THEN "closed" ELSE "closing"

Exec == INSTANCE Executor WITH state <- ExecutorState, phase <- ExecutorPhase

\* The pool implements Executor: a task is accepted or refused once, started
\* once and finished once, and ~ThreadPool returns only after the drain.
ImplementsExecutor == Exec!Spec

\* With fair threads it implements it with its fairness: an accepted task does
\* run to its end, and a destructor that began does return.
ImplementsFairExecutor == Exec!FairSpec
=============================================================================
