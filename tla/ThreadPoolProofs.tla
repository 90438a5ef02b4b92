-------------------------- MODULE ThreadPoolProofs --------------------------
(***************************************************************************)
(* For every set of workers, clients and tasks: the invariants of          *)
(* ThreadPool, and that it implements Executor.  In the last part, the     *)
(* other thread of core/: for every geometry of the wheels and every set   *)
(* of timers and delays, the invariants of TimerWheel.                     *)
(***************************************************************************)
EXTENDS ThreadPool, TimerWheel, FiniteSetTheorems, TLAPS

\* The pool is built well typed.
LEMMA InitTyped == Init => TypeOK
<1> SUFFICES ASSUME Init PROVE TypeOK
  OBVIOUS
<1>1. tasks \in Seq(Task)
  BY DEF Init
<1>2. stopped \in BOOLEAN
  BY DEF Init
<1> QED
  BY <1>1, <1>2 DEF Init, TypeOK, WorkerState, OwnerState, Fate

\* ThreadPool is well typed.
THEOREM TypeCorrect == Spec => []TypeOK
<1>1. TypeOK /\ [Next]_vars => TypeOK'
  <2> SUFFICES ASSUME TypeOK, [Next]_vars PROVE TypeOK'
    OBVIOUS
  <2> USE DEF TypeOK, WorkerState, OwnerState, Fate
  <2>1. ASSUME NEW c \in Client \cup Worker, NEW t \in Task, Push(c, t)
        PROVE  TypeOK'
    <3>1. tasks' \in Seq(Task)
      BY <2>1 DEF Push
    <3>2. stopped' \in BOOLEAN
      BY <2>1 DEF Push
    <3> QED  BY <2>1, <3>1, <3>2 DEF Push
  <2>2. ASSUME NEW c \in Client \cup Worker, notify_one(c) PROVE TypeOK'
    BY <2>2 DEF notify_one, Waiting
  <2>3. ASSUME NEW w \in Worker, Take(w) PROVE TypeOK'
    <3>1. Head(tasks) \in Task /\ Tail(tasks) \in Seq(Task)
      BY <2>3 DEF Take
    <3>2. Head(tasks) # NoTask
      BY <3>1, PoolAssumption
    <3>3. QED  BY <2>3, <3>1, <3>2 DEF Take
  <2>4. ASSUME NEW w \in Worker, Wait(w) \/ Exit(w) \/ SpuriousWakeup(w)
        PROVE  TypeOK'
    BY <2>4 DEF Wait, Exit, SpuriousWakeup
  <2>5. ASSUME NEW w \in Worker, Finish(w) PROVE TypeOK'
    BY <2>5 DEF Finish
  <2>6. ASSUME BeginDestroy \/ notify_all \/ Join PROVE TypeOK'
    BY <2>6 DEF BeginDestroy, notify_all, Join
  <2>7. CASE UNCHANGED vars
    BY <2>7 DEF vars
  <2> QED
    BY <2>1, <2>2, <2>3, <2>4, <2>5, <2>6, <2>7
    DEF Next, WorkerStep, post, postFromTask, Destroyed
<1> QED  BY InitTyped, <1>1, PTL DEF Spec

-----------------------------------------------------------------------------
\* The control state that the properties rest on: who holds a task, when
\* stopped_ is set, and when a worker may have left worker_loop.
ControlInv ==
    /\ stopped <=> owner # "alive"
    /\ \A w \in Worker : wpc[w] = "exited" => stopped /\ tasks = <<>>
    /\ owner = "destroyed" => \A w \in Worker : wpc[w] = "exited"

IInv == TypeOK /\ ControlInv /\ HeldOnce /\ NoLostWakeup /\ NoSleeperAtJoin

\* Every step of the pool keeps ControlInv.
LEMMA ControlStep == IInv /\ [Next]_vars => ControlInv'
<1> SUFFICES ASSUME IInv, [Next]_vars PROVE ControlInv'
  OBVIOUS
<1> USE PoolAssumption DEF IInv, TypeOK, ControlInv, WorkerState, OwnerState
<1>1. ASSUME NEW c \in Client \cup Worker, NEW t \in Task, Push(c, t),
             c \in Worker => wpc[c] = "running"
      PROVE  ControlInv'
  BY <1>1 DEF Push
<1>2. ASSUME NEW c \in Client \cup Worker, notify_one(c) PROVE ControlInv'
  BY <1>2 DEF notify_one, Waiting
<1>3. ASSUME NEW w \in Worker, Take(w) PROVE ControlInv'
  <2>1. Head(tasks) \in Task
    BY <1>3 DEF Take
  <2>2. QED  BY <1>3, <2>1 DEF Take
<1>4. ASSUME NEW w \in Worker, Wait(w) \/ Exit(w) \/ SpuriousWakeup(w)
      PROVE  ControlInv'
  BY <1>4 DEF Wait, Exit, SpuriousWakeup
<1>5. ASSUME NEW w \in Worker, Finish(w) PROVE ControlInv'
  BY <1>5 DEF Finish
<1>6. ASSUME BeginDestroy \/ notify_all \/ Join PROVE ControlInv'
  BY <1>6 DEF BeginDestroy, notify_all, Join
<1>7. CASE UNCHANGED vars
  BY <1>7 DEF vars
<1> QED
  BY <1>1, <1>2, <1>3, <1>4, <1>5, <1>6, <1>7
  DEF Next, WorkerStep, post, postFromTask, Destroyed

-----------------------------------------------------------------------------
\* tasks_.push(t) adds t, and only t, to the queued tasks.
LEMMA PushQueued ==
  ASSUME TypeOK, NEW t \in Task, tasks' = Append(tasks, t)
  PROVE  \A u \in Task : Queued(u)' <=> Queued(u) \/ u = t
<1>1. /\ Len(tasks') = Len(tasks) + 1
      /\ \A i \in 1..Len(tasks) : tasks'[i] = tasks[i]
      /\ tasks'[Len(tasks) + 1] = t
      /\ Len(tasks) \in Nat
  BY DEF TypeOK
<1> QED  BY <1>1 DEF Queued

\* tasks_.pop() removes the head, and only the head: no task is queued twice.
LEMMA TakeQueued ==
  ASSUME TypeOK, HeldOnce, tasks # <<>>, tasks' = Tail(tasks)
  PROVE  \A u \in Task : Queued(u)' <=> Queued(u) /\ u # Head(tasks)
<1>1. /\ Len(tasks) \in Nat \ {0}
      /\ Len(tasks') = Len(tasks) - 1
      /\ \A i \in 1..Len(tasks') : tasks'[i] = tasks[i + 1]
      /\ Head(tasks) = tasks[1]
  BY DEF TypeOK
<1>2. \A i, j \in 1..Len(tasks) : tasks[i] = tasks[j] => i = j
  BY DEF HeldOnce
<1> SUFFICES ASSUME NEW u \in Task
             PROVE  Queued(u)' <=> Queued(u) /\ u # Head(tasks)
  OBVIOUS
<1>3. ASSUME Queued(u)' PROVE Queued(u) /\ u # Head(tasks)
  <2>1. PICK i \in 1..Len(tasks') : tasks'[i] = u
    BY <1>3 DEF Queued
  <2>2. i + 1 \in 1..Len(tasks) /\ tasks[i + 1] = u /\ i + 1 # 1
    BY <1>1, <2>1
  <2> QED  BY <1>1, <1>2, <2>2 DEF Queued
<1>4. ASSUME Queued(u), u # Head(tasks) PROVE Queued(u)'
  <2>1. PICK i \in 1..Len(tasks) : tasks[i] = u
    BY <1>4 DEF Queued
  <2>2. i - 1 \in 1..Len(tasks') /\ tasks'[i - 1] = u
    BY <1>1, <1>4, <2>1
  <2> QED  BY <2>2 DEF Queued
<1> QED  BY <1>3, <1>4

\* A step that leaves the queue, the workers' hands and the fates alone leaves
\* HeldOnce alone.
LEMMA HeldUnchanged ==
  ASSUME HeldOnce, UNCHANGED <<tasks, cur, fate>>
  PROVE  HeldOnce'
BY DEF HeldOnce, Queued, Running

\* Every step of the pool keeps HeldOnce.
LEMMA HeldStep == IInv /\ [Next]_vars => HeldOnce'
<1> SUFFICES ASSUME IInv, [Next]_vars PROVE HeldOnce'
  OBVIOUS
<1> USE PoolAssumption DEF IInv
<1>1. ASSUME NEW c \in Client \cup Worker, NEW t \in Task, Push(c, t)
      PROVE  HeldOnce'
  <2>1. CASE stopped
    <3>1. UNCHANGED <<tasks, cur>> /\ fate' = [fate EXCEPT ![t] = "rejected"]
      BY <1>1, <2>1 DEF Push
    <3>2. fate[t] = "fresh"
      BY <1>1 DEF Push
    <3> QED  BY <3>1, <3>2 DEF HeldOnce, Queued, Running, TypeOK
  <2>2. CASE ~stopped
    <3>1. /\ tasks' = Append(tasks, t)
          /\ cur' = cur
          /\ fate' = [fate EXCEPT ![t] = "accepted"]
          /\ fate[t] = "fresh"
      BY <1>1, <2>2 DEF Push
    <3>2. ~Queued(t) /\ ~Running(t)
      BY <3>1 DEF HeldOnce
    <3>3. \A u \in Task : Queued(u)' <=> Queued(u) \/ u = t
      BY <3>1, PushQueued
    <3>4. \A u \in Task : Running(u)' <=> Running(u)
      BY <3>1 DEF Running
    <3>5. \A i, j \in 1..Len(tasks') : tasks'[i] = tasks'[j] => i = j
      <4>1. /\ Len(tasks') = Len(tasks) + 1
            /\ \A i \in 1..Len(tasks) : tasks'[i] = tasks[i]
            /\ tasks'[Len(tasks) + 1] = t
            /\ Len(tasks) \in Nat
        BY <3>1 DEF TypeOK
      <4>2. \A i \in 1..Len(tasks) : tasks[i] # t
        BY <3>2 DEF Queued
      <4>3. \A i, j \in 1..Len(tasks) : tasks[i] = tasks[j] => i = j
        BY DEF HeldOnce
      <4> QED  BY <4>1, <4>2, <4>3
    <3>6. \A u \in Task :
              fate'[u] = "accepted" <=> fate[u] = "accepted" \/ u = t
      BY <3>1 DEF TypeOK
    <3>7. \A u \in Task : /\ ~(Queued(u) /\ Running(u))
                          /\ fate[u] = "accepted" <=> Queued(u) \/ Running(u)
      BY DEF HeldOnce
    <3>8. \A v, w \in Worker : cur'[v] = cur'[w] /\ cur'[v] # NoTask => v = w
      BY <3>1 DEF HeldOnce
    <3> QED
      BY <3>2, <3>3, <3>4, <3>5, <3>6, <3>7, <3>8 DEF HeldOnce
  <2> QED  BY <2>1, <2>2
<1>2. ASSUME NEW w \in Worker, Take(w) PROVE HeldOnce'
  <2> DEFINE h == Head(tasks)
  <2>1. /\ tasks # <<>> /\ tasks' = Tail(tasks)
        /\ cur' = [cur EXCEPT ![w] = h]
        /\ fate' = fate
        /\ cur[w] = NoTask
    BY <1>2 DEF Take, TypeOK
  <2>2. h \in Task /\ Queued(h)
    BY <2>1 DEF TypeOK, Queued
  <2>3. ~Running(h)
    BY <2>2 DEF HeldOnce
  <2>4. \A u \in Task : Queued(u)' <=> Queued(u) /\ u # h
    BY <2>1, TakeQueued
  <2>5. \A u \in Task : Running(u)' <=> Running(u) \/ u = h
    BY <2>1, <2>2 DEF Running, TypeOK
  <2>6. \A i, j \in 1..Len(tasks') : tasks'[i] = tasks'[j] => i = j
    <3>1. /\ Len(tasks) \in Nat \ {0}
          /\ Len(tasks') = Len(tasks) - 1
          /\ \A i \in 1..Len(tasks') : tasks'[i] = tasks[i + 1]
      BY <2>1 DEF TypeOK
    <3>2. \A i, j \in 1..Len(tasks) : tasks[i] = tasks[j] => i = j
      BY DEF HeldOnce
    <3> QED  BY <3>1, <3>2
  <2>7. \A v, x \in Worker : cur'[v] = cur'[x] /\ cur'[v] # NoTask => v = x
    BY <2>1, <2>3 DEF HeldOnce, Running, TypeOK
  <2>8. \A u \in Task : /\ ~(Queued(u) /\ Running(u))
                        /\ fate[u] = "accepted" <=> Queued(u) \/ Running(u)
    BY DEF HeldOnce
  <2> QED
    BY <2>1, <2>2, <2>3, <2>4, <2>5, <2>6, <2>7, <2>8 DEF HeldOnce
<1>3. ASSUME NEW w \in Worker, Finish(w) PROVE HeldOnce'
  <2> DEFINE t == cur[w]
  <2>1. /\ tasks' = tasks
        /\ cur' = [cur EXCEPT ![w] = NoTask]
        /\ fate' = [fate EXCEPT ![t] = "done"]
        /\ t \in Task
    BY <1>3 DEF Finish, TypeOK
  <2>2. \A u \in Task : Queued(u)' <=> Queued(u)
    BY <2>1 DEF Queued
  <2>3. Running(t)
    BY <2>1 DEF Running
  <2>4. \A u \in Task : Running(u)' <=> Running(u) /\ u # t
    BY <2>1 DEF HeldOnce, Running, TypeOK
  <2>5. \A v, x \in Worker : cur'[v] = cur'[x] /\ cur'[v] # NoTask => v = x
    BY <2>1 DEF HeldOnce, TypeOK
  <2>6. \A u \in Task : fate'[u] = "accepted" <=> fate[u] = "accepted" /\ u # t
    BY <2>1 DEF TypeOK
  <2> QED
    BY <2>1, <2>2, <2>3, <2>4, <2>5, <2>6 DEF HeldOnce
<1>4. ASSUME UNCHANGED <<tasks, cur, fate>> PROVE HeldOnce'
  BY <1>4, HeldUnchanged
<1> QED
  BY <1>1, <1>2, <1>3, <1>4
  DEF Next, WorkerStep, post, postFromTask, Destroyed, notify_one, Wait, Exit,
      SpuriousWakeup, BeginDestroy, notify_all, Join, vars

\* Every step of the pool keeps the two wakeup invariants.
LEMMA WakeupStep == IInv /\ [Next]_vars => NoLostWakeup' /\ NoSleeperAtJoin'
<1> SUFFICES ASSUME IInv, [Next]_vars PROVE NoLostWakeup' /\ NoSleeperAtJoin'
  OBVIOUS
<1> USE PoolAssumption
    DEF IInv, TypeOK, ControlInv, WorkerState, OwnerState, NoLostWakeup,
        NoSleeperAtJoin, Waiting
<1>1. ASSUME NEW c \in Client \cup Worker, NEW t \in Task, Push(c, t)
      PROVE  NoLostWakeup' /\ NoSleeperAtJoin'
  BY <1>1 DEF Push
<1>2. ASSUME NEW c \in Client \cup Worker, notify_one(c)
      PROVE  NoLostWakeup' /\ NoSleeperAtJoin'
  <2>1. CASE Waiting # {}
    BY <1>2, <2>1 DEF notify_one
  <2>2. CASE Waiting = {}
    <3>1. PICK w \in Worker : TRUE
      OBVIOUS
    <3>2. wpc[w] \in {"check", "running"} \/ tasks = <<>>
      BY <2>2
    <3> QED  BY <1>2, <2>2, <3>1, <3>2 DEF notify_one
  <2> QED  BY <2>1, <2>2
<1>3. ASSUME NEW w \in Worker, Take(w) \/ Finish(w)
      PROVE  NoLostWakeup' /\ NoSleeperAtJoin'
  BY <1>3 DEF Take, Finish
<1>4. ASSUME NEW w \in Worker, Wait(w) \/ Exit(w) \/ SpuriousWakeup(w)
      PROVE  NoLostWakeup' /\ NoSleeperAtJoin'
  BY <1>4 DEF Wait, Exit, SpuriousWakeup
<1>5. ASSUME notify_all PROVE NoLostWakeup' /\ NoSleeperAtJoin'
  <2>1. PICK w \in Worker : TRUE
    OBVIOUS
  <2>2. wpc'[w] \in {"check", "running"} \/ tasks' = <<>>
    BY <1>5 DEF notify_all
  <2> QED  BY <1>5, <2>1, <2>2 DEF notify_all
<1>6. ASSUME BeginDestroy \/ Join PROVE NoLostWakeup' /\ NoSleeperAtJoin'
  BY <1>6 DEF BeginDestroy, Join
<1>7. CASE UNCHANGED vars
  BY <1>7 DEF vars
<1> QED
  BY <1>1, <1>2, <1>3, <1>4, <1>5, <1>6, <1>7
  DEF Next, WorkerStep, post, postFromTask, Destroyed

-----------------------------------------------------------------------------
\* IInv is inductive: the invariants of the pool hold in every state.
LEMMA Inductive == Spec => []IInv
<1>1. Init => IInv
  <2> SUFFICES ASSUME Init PROVE IInv
    OBVIOUS
  <2>1. TypeOK
    BY InitTyped
  <2>3. ControlInv /\ NoLostWakeup /\ NoSleeperAtJoin
    BY DEF Init, ControlInv, NoLostWakeup, NoSleeperAtJoin, Waiting
  <2>2. HeldOnce
    BY PoolAssumption DEF Init, HeldOnce, Queued, Running
  <2> QED  BY <2>1, <2>2, <2>3 DEF IInv
<1>2. IInv /\ TypeOK' /\ [Next]_vars => IInv'
  BY ControlStep, HeldStep, WakeupStep DEF IInv
<1> QED  BY <1>1, <1>2, TypeCorrect, PTL DEF Spec

\* An accepted task is in exactly one place, in one copy, until it is done.
THEOREM TasksHeldOnce == Spec => []HeldOnce
<1>1. IInv => HeldOnce
  BY DEF IInv
<1> QED  BY <1>1, Inductive, PTL

\* Neither the notify_one of post nor the notify_all of the destructor is lost.
THEOREM WakeupsNotLost == Spec => [](NoLostWakeup /\ NoSleeperAtJoin)
<1>1. IInv => NoLostWakeup /\ NoSleeperAtJoin
  BY DEF IInv
<1> QED  BY <1>1, Inductive, PTL

\* ~ThreadPool returns only after every accepted task has run.
THEOREM Drained == Spec => []DrainedWhenDestroyed
<1>1. IInv => DrainedWhenDestroyed
  <2> SUFFICES ASSUME IInv, owner = "destroyed", NEW t \in Task
               PROVE  fate[t] # "accepted"
    BY DEF DrainedWhenDestroyed
  <2>1. \A w \in Worker : cur[w] = NoTask
    BY DEF IInv, ControlInv, TypeOK
  <2>2. tasks = <<>>
    BY PoolAssumption DEF IInv, ControlInv
  <2>3. ~Queued(t) /\ ~Running(t)
    BY PoolAssumption, <2>1, <2>2 DEF Queued, Running
  <2> QED  BY <2>3 DEF IInv, HeldOnce
<1> QED  BY <1>1, Inductive, PTL

-----------------------------------------------------------------------------
\* A step that leaves the queue, the hands and the fates alone does not move
\* any task of the abstract executor.
LEMMA StateUnchanged ==
  ASSUME UNCHANGED <<tasks, cur, fate>>
  PROVE  ExecutorState' = ExecutorState
BY DEF ExecutorState, Queued, Running

\* The pool implements Executor (its safety part): every task is accepted or
\* refused once, started once, finished once; the destructor drains.
THEOREM PoolImplementsExecutor == Spec => ImplementsExecutor
<1>1. Init => Exec!Init
  BY PoolAssumption
  DEF Init, Exec!Init, ExecutorState, ExecutorPhase, Queued, Running
<1>2. IInv /\ [Next]_vars => [Exec!Next]_(Exec!vars)
  <2> SUFFICES ASSUME IInv, [Next]_vars PROVE Exec!Next \/ UNCHANGED Exec!vars
    OBVIOUS
  <2> USE PoolAssumption DEF IInv
  <2>0. \A u \in Task : /\ ~(Queued(u) /\ Running(u))
                        /\ fate[u] = "accepted" <=> Queued(u) \/ Running(u)
    BY DEF HeldOnce
  <2>1. ASSUME NEW c \in Client \cup Worker, NEW t \in Task, Push(c, t),
               owner # "destroyed"
        PROVE  Exec!Accept(t) \/ Exec!Reject(t)
    <3>1. fate[t] = "fresh" /\ ~Queued(t) /\ ~Running(t)
      BY <2>0, <2>1 DEF Push
    <3>2. ExecutorState[t] = "fresh"
      BY <3>1 DEF ExecutorState
    <3>3. ExecutorPhase' = ExecutorPhase
      BY <2>1 DEF Push, ExecutorPhase
    <3>4. \A u \in Task : Running(u)' <=> Running(u)
      BY <2>1 DEF Push, Running
    <3>5. CASE stopped
      <4>1. fate' = [fate EXCEPT ![t] = "rejected"] /\ tasks' = tasks
        BY <2>1, <3>5 DEF Push
      <4>2. \A u \in Task : Queued(u)' <=> Queued(u)
        BY <4>1 DEF Queued
      <4>3. ExecutorState' = [ExecutorState EXCEPT ![t] = "rejected"]
        BY <3>1, <3>4, <4>1, <4>2 DEF ExecutorState, TypeOK
      <4>4. ExecutorPhase # "closed"
        BY <2>1 DEF ExecutorPhase
      <4> QED  BY <3>2, <3>3, <4>3, <4>4 DEF Exec!Reject, Exec!Move
    <3>6. CASE ~stopped
      <4>1. /\ fate' = [fate EXCEPT ![t] = "accepted"]
            /\ tasks' = Append(tasks, t)
        BY <2>1, <3>6 DEF Push
      <4>2. \A u \in Task : Queued(u)' <=> Queued(u) \/ u = t
        BY <4>1, PushQueued
      <4>3. ExecutorState' = [ExecutorState EXCEPT ![t] = "queued"]
        BY <3>1, <3>4, <4>1, <4>2 DEF ExecutorState, TypeOK
      <4>4. ExecutorPhase = "open"
        BY <3>6 DEF ExecutorPhase, ControlInv
      <4> QED  BY <3>2, <3>3, <4>3, <4>4 DEF Exec!Accept, Exec!Move
    <3> QED  BY <3>5, <3>6
  <2>2. ASSUME NEW w \in Worker, Take(w) PROVE \E t \in Task : Exec!Start(t)
    <3> DEFINE h == Head(tasks)
    <3>1. /\ tasks # <<>> /\ tasks' = Tail(tasks)
          /\ cur' = [cur EXCEPT ![w] = h]
          /\ fate' = fate /\ owner' = owner
          /\ cur[w] = NoTask
          /\ owner # "destroyed"
      BY <2>2 DEF Take, ControlInv, TypeOK
    <3>2. h \in Task /\ Queued(h)
      BY <3>1 DEF TypeOK, Queued
    <3>3. \A u \in Task : Queued(u)' <=> Queued(u) /\ u # h
      BY <3>1, TakeQueued
    <3>4. \A u \in Task : Running(u)' <=> Running(u) \/ u = h
      BY <3>1, <3>2 DEF Running, TypeOK
    <3>5. ExecutorState' = [ExecutorState EXCEPT ![h] = "running"]
      BY <3>1, <3>2, <3>3, <3>4 DEF ExecutorState
    <3>6. ExecutorState[h] = "queued"
      BY <2>0, <3>2 DEF ExecutorState
    <3>7. ExecutorPhase # "closed" /\ ExecutorPhase' = ExecutorPhase
      BY <3>1 DEF ExecutorPhase
    <3> QED  BY <3>2, <3>5, <3>6, <3>7 DEF Exec!Start, Exec!Move
  <2>3. ASSUME NEW w \in Worker, Finish(w) PROVE \E t \in Task : Exec!Finish(t)
    <3> DEFINE t == cur[w]
    <3>1. /\ tasks' = tasks
          /\ cur' = [cur EXCEPT ![w] = NoTask]
          /\ fate' = [fate EXCEPT ![t] = "done"]
          /\ owner' = owner
          /\ t \in Task
          /\ owner # "destroyed"
      BY <2>3 DEF Finish, ControlInv, TypeOK
    <3>2. Running(t)
      BY <3>1 DEF Running
    <3>3. \A u \in Task : Queued(u)' <=> Queued(u)
      BY <3>1 DEF Queued
    <3>4. \A u \in Task : Running(u)' <=> Running(u) /\ u # t
      BY <3>1 DEF HeldOnce, Running, TypeOK
    <3>5. ExecutorState' = [ExecutorState EXCEPT ![t] = "done"]
      BY <2>0, <3>1, <3>2, <3>3, <3>4 DEF ExecutorState, TypeOK
    <3>6. ExecutorState[t] = "running"
      BY <3>1, <3>2 DEF ExecutorState
    <3>7. ExecutorPhase # "closed" /\ ExecutorPhase' = ExecutorPhase
      BY <3>1 DEF ExecutorPhase
    <3> QED  BY <3>1, <3>5, <3>6, <3>7 DEF Exec!Finish, Exec!Move
  <2>4. ASSUME BeginDestroy PROVE Exec!Close
    BY <2>4, StateUnchanged DEF BeginDestroy, Exec!Close, ExecutorPhase
  <2>5. ASSUME Join PROVE Exec!Terminate
    <3>1. \A w \in Worker : cur[w] = NoTask
      BY <2>5 DEF Join, TypeOK
    <3>2. tasks = <<>>
      BY <2>5 DEF Join, ControlInv
    <3>3. \A t \in Task : ~Queued(t) /\ ~Running(t) /\ fate[t] \in Fate
      BY <3>1, <3>2 DEF Queued, Running, TypeOK
    <3>4. \A t \in Task : ExecutorState[t] \notin {"queued", "running"}
      BY <3>3 DEF ExecutorState, Fate
    <3>5. ExecutorState' = ExecutorState
      BY <2>5, StateUnchanged DEF Join
    <3> QED  BY <2>5, <3>4, <3>5 DEF Join, Exec!Terminate, ExecutorPhase
  <2>6. ASSUME UNCHANGED <<tasks, cur, fate>>, ExecutorPhase' = ExecutorPhase
        PROVE  UNCHANGED Exec!vars
    BY <2>6, StateUnchanged DEF Exec!vars
  <2>7. ASSUME NEW c \in Client \cup Worker, notify_one(c)
        PROVE  UNCHANGED Exec!vars
    BY <2>6, <2>7 DEF notify_one, ExecutorPhase
  <2>8. ASSUME NEW w \in Worker, Wait(w) \/ Exit(w) \/ SpuriousWakeup(w)
        PROVE  UNCHANGED Exec!vars
    BY <2>6, <2>8 DEF Wait, Exit, SpuriousWakeup, ExecutorPhase
  <2>9. ASSUME notify_all PROVE UNCHANGED Exec!vars
    BY <2>6, <2>9 DEF notify_all, ExecutorPhase
  <2>10. CASE UNCHANGED vars
    BY <2>6, <2>10 DEF vars, ExecutorPhase
  <2>11. ASSUME NEW c \in Client, NEW t \in Task, post(c, t)
         PROVE  Exec!Next
    BY <2>1, <2>11 DEF post, Exec!Next
  <2>12. ASSUME NEW w \in Worker, NEW t \in Task, postFromTask(w, t)
         PROVE  Exec!Next
    <3>1. owner # "destroyed" /\ Push(w, t)
      BY <2>12 DEF postFromTask, ControlInv, TypeOK
    <3> QED  BY <2>1, <3>1 DEF Exec!Next
  <2> QED
    BY <2>2, <2>3, <2>4, <2>5, <2>7, <2>8, <2>9, <2>10, <2>11, <2>12
    DEF Next, WorkerStep, Destroyed, Exec!Next
<1> QED  BY <1>1, <1>2, Inductive, PTL DEF Spec, ImplementsExecutor, Exec!Spec

-----------------------------------------------------------------------------
(***************************************************************************)
(* TimerWheel.  Ahead of every wheel lies its next step: for wheel 0 the   *)
(* tick that handles its current slot, for the others the cascade of       *)
(* theirs.  A timer in a slot is handled after that time and one tick of   *)
(* the wheel for every slot in between.                                    *)
(***************************************************************************)
T == TickMs

\* The constants, and the slots as the provers like them.
LEMMA WheelNumbers ==
  ASSUME WheelAssumption
  PROVE  /\ Tick \in Nat \ {0} /\ Size \in Nat \ {0, 1} /\ Layers \in {2, 3, 4} /\ LateCap \in Nat
         /\ Layer = 0..(Layers - 1) /\ Slot = 0..(Size - 1)
         /\ \A d \in Delay : d \in Nat \ {0}
BY DEF WheelAssumption, Layer, Slot

\* Induction over the wheels, from the lowest one up.
LEMMA LayerInduction ==
  ASSUME WheelAssumption, NEW G, 0 \in G, \A i \in Layer \ {0} : i - 1 \in G => i \in G
  PROVE  \A i \in Layer : i \in G
<1>1. Layers \in {2, 3, 4} /\ Layer = 0..(Layers - 1)
  BY WheelNumbers
<1>2. Layer \subseteq {0, 1, 2, 3} /\ 0 \in Layer /\ 1 \in Layer
  BY <1>1
<1>3. 1 \in G
  BY <1>2
<1>4. 2 \in Layer => 2 \in G
  BY <1>3
<1>5. 3 \in Layer => 2 \in Layer /\ 3 \in G
  BY <1>1, <1>4
<1> QED  BY <1>2, <1>3, <1>4, <1>5

\* The constructor's loop.
LEMMA TickIs ==
  ASSUME WheelAssumption
  PROVE  T = [i \in Layer |-> IF i = 0 THEN Tick ELSE T[i - 1] * Size]
<1>1. /\ Layers \in {2, 3, 4} /\ Layer = 0..(Layers - 1) /\ Layer \subseteq {0, 1, 2, 3}
      /\ Tick \in Int /\ Size \in Int
  BY WheelNumbers
<1>2. PICK a \in Int, b \in Int, c \in Int : a = Tick * Size /\ b = a * Size /\ c = b * Size
  BY <1>1
<1>3. PICK g : g = [i \in Layer |-> IF i = 0 THEN Tick ELSE IF i = 1 THEN a ELSE IF i = 2 THEN b ELSE c]
  OBVIOUS
<1>4. ASSUME NEW i \in Layer PROVE g[i] = IF i = 0 THEN Tick ELSE g[i - 1] * Size
  <2>1. i \in {0, 1, 2, 3}
    BY <1>1
  <2>2. i # 0 => i - 1 \in Layer
    BY <1>1
  <2> QED  BY <1>2, <1>3, <2>1, <2>2
<1>5. g = [i \in Layer |-> IF i = 0 THEN Tick ELSE g[i - 1] * Size]
  BY <1>3, <1>4
<1>6. \E f : f = [i \in Layer |-> IF i = 0 THEN Tick ELSE f[i - 1] * Size]
  BY <1>5
<1>7. T = CHOOSE f : f = [i \in Layer |-> IF i = 0 THEN Tick ELSE f[i - 1] * Size]
  BY DEF T, TickMs
<1> QED  BY <1>6, <1>7

\* tick_ms grows with the wheel: a tick of a wheel is a turn of the one below.
LEMMA TickNumbers ==
  ASSUME WheelAssumption
  PROVE  /\ \A i \in Layer : T[i] \in Nat /\ T[i] > 0 /\ T[i] >= Tick
         /\ T[0] = Tick /\ 0 \in Layer /\ 1 \in Layer /\ T[1] = Tick * Size
         /\ \A i \in Layer \ {0} : T[i] = T[i - 1] * Size /\ i - 1 \in Layer /\ T[i] >= T[1]
         /\ Layers - 1 \in Layer /\ \A i \in Layer : T[i] <= T[Layers - 1]
<1>1. /\ Layers \in {2, 3, 4} /\ Layer = 0..(Layers - 1) /\ Tick \in Nat \ {0} /\ Size \in Nat \ {0, 1}
      /\ 0 \in Layer /\ 1 \in Layer /\ Layers - 1 \in Layer
  BY WheelNumbers
<1>2. \A i \in Layer \ {0} : i - 1 \in Layer
  BY <1>1
<1>3. T[0] = Tick /\ \A i \in Layer \ {0} : T[i] = T[i - 1] * Size
  BY <1>1, TickIs
<1>4. T[1] = Tick * Size
  BY <1>1, <1>3
<1>5. ASSUME NEW a \in Nat, a > 0 PROVE a * Size \in Nat /\ a * Size > 0 /\ a * Size >= a
  BY <1>1, <1>5
<1>6. \A i \in Layer : T[i] \in Nat /\ T[i] > 0 /\ T[i] >= Tick
  <2> DEFINE G == {i \in Layer : T[i] \in Nat /\ T[i] > 0 /\ T[i] >= Tick}
  <2>1. 0 \in G
    BY <1>1, <1>3
  <2>2. ASSUME NEW i \in Layer \ {0}, i - 1 \in G PROVE i \in G
    <3>1. PICK a \in Nat : a = T[i - 1] /\ a > 0 /\ a >= Tick
      BY <2>2
    <3>2. T[i] = a * Size
      BY <1>3, <3>1
    <3>3. a * Size \in Nat /\ a * Size > 0 /\ a * Size >= a
      BY <1>5, <3>1
    <3> QED  BY <1>1, <3>1, <3>2, <3>3
  <2> HIDE DEF G
  <2>3. \A i \in Layer : i \in G
    BY <2>1, <2>2, LayerInduction
  <2> QED  BY <2>3 DEF G
<1>7. ASSUME NEW i \in Layer \ {0} PROVE T[i - 1] <= T[i]
  <2>1. PICK a \in Nat : a = T[i - 1] /\ a > 0
    BY <1>2, <1>6
  <2>2. a * Size >= a
    BY <1>5, <2>1
  <2> QED  BY <1>3, <2>1, <2>2
<1>8. \A i, j \in Layer : i <= j => T[i] <= T[j]
  <2>1. Layer \subseteq {0, 1, 2, 3}
    BY <1>1
  <2>2. T[0] <= T[1] /\ (2 \in Layer => T[1] <= T[2]) /\ (3 \in Layer => 2 \in Layer /\ T[2] <= T[3])
    BY <1>1, <1>7
  <2>3. /\ T[0] \in Int /\ T[1] \in Int
        /\ (2 \in Layer => T[2] \in Int) /\ (3 \in Layer => T[3] \in Int)
    BY <1>1, <1>6
  <2> QED  BY <2>1, <2>2, <2>3
<1>9. \A i \in Layer : i <= Layers - 1 /\ (i # 0 => 1 <= i)
  BY <1>1
<1> QED  BY <1>1, <1>2, <1>3, <1>4, <1>6, <1>8, <1>9

\* Positions ahead on a wheel: the slot m ahead of c.
Turned(c, m) == IF c + m < Size THEN c + m ELSE c + m - Size

\* Where add_task_to_wheel puts a timer, in whole ticks of the wheel: n, which
\* is r turns and m slots.
LEMMA PlaceIs ==
  ASSUME WheelAssumption, current_slot \in [Layer -> Slot], NEW d \in Nat \ {0}
  PROVE  \E i \in Layer, n \in Nat, m \in 0..(Size - 1), r \in Nat :
            /\ Place(d) = <<i, Turned(current_slot[i], m)>> /\ Rounds(d) = r
            /\ n = r * Size + m /\ n * T[i] <= d /\ d < (n + 1) * T[i]
            /\ i = 0 => r = 0
            /\ i # 0 => n >= 1
<1>0. /\ Size \in Nat \ {0, 1} /\ Layer = 0..(Layers - 1) /\ Slot = 0..(Size - 1) /\ Layers \in {2, 3, 4}
  BY WheelNumbers
<1> DEFINE S == {j \in Layer : d < TotalMs(j)} \cup {Layers - 1}
<1>1. PICK i : i = Min(S)
  OBVIOUS
<1>2. i \in S /\ \A j \in S : i <= j
  <2>1. S \subseteq {0, 1, 2, 3} /\ S # {}
    BY <1>0
  <2>2. \E x \in S : \A y \in S : x <= y
    <3> HIDE DEF S
    <3>1. CASE 0 \in S
      BY <2>1, <3>1
    <3>2. CASE 0 \notin S /\ 1 \in S
      BY <2>1, <3>2
    <3>3. CASE 0 \notin S /\ 1 \notin S /\ 2 \in S
      BY <2>1, <3>3
    <3>4. CASE 0 \notin S /\ 1 \notin S /\ 2 \notin S
      <4>1. \A x \in S : x = 3
        BY <2>1, <3>4
      <4>2. PICK x : x \in S
        BY <2>1
      <4>3. x = 3 /\ \A y \in S : x <= y
        BY <4>1, <4>2
      <4> QED  BY <4>2, <4>3
    <3> QED  BY <3>1, <3>2, <3>3, <3>4
  <2> HIDE DEF S
  <2> QED  BY <1>1, <2>2 DEF Min
<1>3. i \in Layer
  BY <1>0, <1>2
<1>4. PICK t \in Nat \ {0} : t = T[i]
  BY <1>3, TickNumbers
<1>5. ASSUME NEW q \in Nat \ {0}, NEW x \in Nat
      PROVE  /\ x \div q \in Nat /\ x % q \in 0..(q - 1)
             /\ (x \div q) * q <= x /\ x < ((x \div q) + 1) * q /\ x = (x \div q) * q + (x % q)
  <2>1. x % q \in 0..(q - 1)
    BY <1>5
  <2>2. x = q * (x \div q) + (x % q)
    BY <1>5
  <2>3. x \div q \in Nat
    BY <1>5
  <2>4. PICK k \in Nat, e \in 0..(q - 1) : k = x \div q /\ e = x % q /\ x = q * k + e
    BY <2>1, <2>2, <2>3
  <2>5. k * q <= x /\ x < (k + 1) * q /\ x = k * q + e
    BY <2>4
  <2> QED  BY <2>1, <2>3, <2>4, <2>5
<1>6. PICK n \in Nat : n = d \div t /\ n * t <= d /\ d < (n + 1) * t
  BY <1>4, <1>5
<1>7. PICK r \in Nat, m \in 0..(Size - 1) : r = n \div Size /\ n = r * Size + m
  <2>1. /\ n \div Size \in Nat /\ n % Size \in 0..(Size - 1)
        /\ n = (n \div Size) * Size + (n % Size)
    BY <1>0, <1>5, <1>6
  <2> QED  BY <2>1
<1>8. Place(d) = <<i, (current_slot[i] + n) % Size>> /\ Place(d)[1] = i
  <2>1. Place(d) = <<i, (current_slot[i] + d \div TickMs[i]) % Size>>
    <3>1. (IF d <= 0 THEN 1 ELSE d) = d
      OBVIOUS
    <3> QED  BY <1>1, <3>1, Zenon DEF Place
  <2> QED  BY <1>4, <1>6, <2>1 DEF T
<1>9. Rounds(d) = r
  <2>1. Rounds(d) = (d \div TickMs[Place(d)[1]]) \div Size
    BY DEF Rounds
  <2> QED  BY <1>4, <1>6, <1>7, <1>8, <2>1 DEF T
<1>10. (current_slot[i] + n) % Size = Turned(current_slot[i], m)
  <2>1. PICK c \in 0..(Size - 1) : c = current_slot[i]
    BY <1>0, <1>3
  <2>2. ASSUME NEW k \in Nat, NEW e \in 0..(Size - 1) PROVE (Size * k + e) % Size = e
    BY <1>0, <2>2
  <2>3. CASE c + m < Size
    <3>1. c + n = Size * r + (c + m) /\ c + m \in 0..(Size - 1)
      BY <1>0, <1>7, <2>1, <2>3
    <3>2. (Size * r + (c + m)) % Size = c + m
      BY <1>7, <2>2, <3>1
    <3> QED  BY <2>1, <2>3, <3>1, <3>2 DEF Turned
  <2>4. CASE ~(c + m < Size)
    <3>1. c + n = Size * (r + 1) + (c + m - Size) /\ c + m - Size \in 0..(Size - 1) /\ r + 1 \in Nat
      <4>1. PICK z \in Int : z = Size * r /\ n = z + m
        BY <1>0, <1>7
      <4>2. Size * (r + 1) = z + Size
        BY <1>0, <4>1
      <4> QED  BY <1>0, <2>1, <2>4, <4>1, <4>2
    <3>2. (Size * (r + 1) + (c + m - Size)) % Size = c + m - Size
      BY <2>2, <3>1
    <3> QED  BY <2>1, <2>4, <3>1, <3>2 DEF Turned
  <2> QED  BY <2>3, <2>4
<1>11. i = 0 => r = 0
  <2>1. SUFFICES ASSUME i = 0 PROVE r = 0
    OBVIOUS
  <2>2. d < t * Size
    BY <1>0, <1>2, <1>4, <2>1 DEF TotalMs, T
  <2>3. SUFFICES ASSUME r >= 1 PROVE FALSE
    BY <1>7
  <2>4. n >= Size
    BY <1>0, <1>7, <2>3
  <2>5. n * t >= Size * t
    BY <1>0, <1>4, <1>6, <2>4
  <2> QED  BY <1>0, <1>4, <1>6, <2>2, <2>5
<1>12. i # 0 => n >= 1
  <2>1. SUFFICES ASSUME i # 0, n = 0 PROVE FALSE
    BY <1>6
  <2>2. i - 1 \in Layer /\ T[i] = T[i - 1] * Size
    BY <1>3, <2>1, TickNumbers
  <2>3. i - 1 \notin S
    BY <1>0, <1>2, <1>3
  <2>4. ~(d < TickMs[i - 1] * Size)
    BY <2>2, <2>3 DEF TotalMs
  <2>5. ~(d < t)
    BY <1>4, <2>2, <2>4 DEF T
  <2>6. d < (0 + 1) * t
    BY <1>6, <2>1
  <2> QED  BY <1>4, <2>5, <2>6
<1> QED  BY <1>3, <1>4, <1>6, <1>7, <1>8, <1>9, <1>10, <1>11, <1>12

\* Slots between the current one, c, and s; a whole turn if c was handled.
Dist(c, s, over) == IF s > c \/ (s = c /\ ~over) THEN s - c ELSE s - c + Size

\* What a timer with x ms left, r rounds and e ms before it is handled has to
\* satisfy.  On wheel 0 it is on time up to the lateness that is allowed, and
\* not early.  Above it has its time left when its slot cascades, or it is late
\* by a tick of its wheel at most; with rounds left it is not late at all.
OnTime(i, x, e, r) ==
    IF i = 0 THEN /\ x >= e + r * T[1] - T[Layers - 1] - Tick
                  /\ x < e + r * T[1] + Tick
    ELSE x >= e + IF r = 0 THEN 0 - T[i] ELSE (r - 1) * (T[i] * Size)

\* A timer is placed on time, wherever the wheels are.
LEMMA PlacedOnTime ==
  ASSUME WheelAssumption, current_slot \in [Layer -> Slot], NEW d \in Nat \ {0},
         NEW f \in [Layer -> Int], \A i \in Layer : 0 <= f[i] /\ f[i] <= T[i],
         NEW i, NEW s, Place(d) = <<i, s>>, NEW over \in BOOLEAN, over => f[i] = 0
  PROVE  /\ i \in Layer /\ s \in Slot /\ Rounds(d) \in Nat
         /\ OnTime(i, d, f[i] + Dist(current_slot[i], s, over) * T[i], Rounds(d))
<1>0. Size \in Nat \ {0, 1} /\ Tick \in Nat \ {0} /\ Slot = 0..(Size - 1)
  BY WheelNumbers
<1>1. PICK j \in Layer, n \in Nat, m \in 0..(Size - 1), r \in Nat :
            /\ Place(d) = <<j, Turned(current_slot[j], m)>> /\ Rounds(d) = r
            /\ n = r * Size + m /\ n * T[j] <= d /\ d < (n + 1) * T[j]
            /\ j = 0 => r = 0
            /\ j # 0 => n >= 1
  BY PlaceIs
<1>2. i = j /\ s = Turned(current_slot[i], m) /\ i \in Layer
  BY <1>1
<1>3. PICK c \in 0..(Size - 1) : c = current_slot[i]
  BY <1>0, <1>2
<1>4. s \in 0..(Size - 1)
  BY <1>0, <1>2, <1>3 DEF Turned
<1>5. PICK t \in Nat : t = T[i] /\ t > 0
  BY <1>2, TickNumbers
<1>6. PICK a \in Int : a = f[i] /\ 0 <= a /\ a <= t /\ (over => a = 0)
  BY <1>2, <1>5
<1>7. PICK D \in Nat : D = Dist(current_slot[i], s, over) /\ (D = m \/ (over /\ m = 0 /\ D = Size))
  <2>1. Dist(c, s, over) = m \/ (over /\ m = 0 /\ Dist(c, s, over) = Size)
    <3>1. CASE m = 0
      <4>1. s = c
        BY <1>0, <1>2, <1>3, <3>1 DEF Turned
      <4> QED  BY <1>0, <3>1, <4>1 DEF Dist
    <3>2. CASE m # 0 /\ c + m < Size
      <4>1. s = c + m /\ s > c
        BY <1>0, <1>2, <1>3, <3>2 DEF Turned
      <4> QED  BY <1>0, <4>1 DEF Dist
    <3>3. CASE m # 0 /\ ~(c + m < Size)
      <4>1. s = c + m - Size /\ s < c
        BY <1>0, <1>2, <1>3, <3>3 DEF Turned
      <4> QED  BY <1>0, <4>1 DEF Dist
    <3> QED  BY <3>1, <3>2, <3>3
  <2> QED  BY <1>0, <1>3, <2>1
<1>8. n * t <= d /\ d < (n + 1) * t
  BY <1>1, <1>2, <1>5
<1>9. CASE i = 0
  <2>1. PICK last \in Nat, one \in Nat : last = T[Layers - 1] /\ one = T[1] /\ one <= last /\ one = t * Size /\ t = Tick
    BY <1>2, <1>5, <1>9, TickNumbers
  <2>2. r = 0 /\ n = m
    BY <1>0, <1>1, <1>2, <1>9
  <2>3. d >= (a + D * t) + 0 * one - last - t /\ d < (a + D * t) + 0 * one + t
    <3>1. CASE D = m
      BY <1>6, <1>8, <2>1, <2>2, <3>1
    <3>2. CASE over /\ m = 0 /\ D = Size
      <4>1. D * t = one /\ a = 0
        BY <1>0, <1>5, <1>6, <2>1, <3>2
      <4>2. d < t
        BY <1>8, <2>2, <3>2
      <4> QED  BY <2>1, <4>1, <4>2
    <3> QED  BY <1>7, <3>1, <3>2
  <2> QED  BY <1>0, <1>1, <1>2, <1>4, <1>5, <1>6, <1>7, <1>9, <2>1, <2>2, <2>3 DEF OnTime
<1>10. CASE i # 0
  <2>1. n >= 1
    BY <1>1, <1>2, <1>10
  <2>2. r = 0 => d >= (a + D * t) + (0 - t)
    <3>1. SUFFICES ASSUME r = 0 PROVE d >= (a + D * t) + (0 - t)
      OBVIOUS
    <3>2. n = m
      BY <1>0, <1>1, <3>1
    <3>3. D = m
      BY <1>7, <2>1, <3>2
    <3> QED  BY <1>6, <1>8, <3>2, <3>3
  <2>3. r # 0 => d >= (a + D * t) + (r - 1) * (t * Size)
    <3>1. SUFFICES ASSUME r # 0 PROVE d >= (a + D * t) + (r - 1) * (t * Size)
      OBVIOUS
    <3>2. PICK k \in Nat, z \in Nat : r = k + 1 /\ z = t * Size
      BY <1>0, <3>1
    <3>3. n * t = k * z + z + m * t
      BY <1>0, <1>1, <3>2
    <3>4. z >= t
      BY <1>0, <3>2
    <3>5. a + D * t <= z + m * t
      <4>1. CASE D = m
        BY <1>6, <3>4, <4>1
      <4>2. CASE over /\ m = 0 /\ D = Size
        BY <1>0, <1>6, <3>2, <4>2
      <4> QED  BY <1>7, <4>1, <4>2
    <3>6. d >= (a + D * t) + k * z
      BY <1>8, <3>3, <3>5
    <3> QED  BY <3>2, <3>6
  <2> QED  BY <1>0, <1>1, <1>2, <1>4, <1>5, <1>6, <1>7, <1>10, <2>2, <2>3 DEF OnTime
<1> QED  BY <1>9, <1>10
-----------------------------------------------------------------------------
\* The thread is in process_slot; it is in tick.
InSlot == pc \in {"slot", "copied", "calling"}
Pending == InSlot \/ pc \in {"advance", "cascade"}

\* f[i] is the time to the next step of wheel i: nothing while it is under way,
\* else the next tick, or the turn that the wheel below has still to make.
IsAhead(f) ==
    /\ f \in [Layer -> Int]
    /\ \A i \in Layer :
          f[i] = IF Pending /\ layer = i THEN 0
                 ELSE IF i = 0 THEN phase ELSE f[i - 1] + (Size - 1 - current_slot[i - 1]) * T[i - 1]

\* The thread is past the current slot of wheel i, or past the timer in it.
Over(t, i) == i = layer /\ (pc = "advance" \/ (InSlot /\ t \in passed))

AllOnTime(f) ==
    \A i \in Layer, s \in Slot : \A t \in slots[i][s] :
        OnTime(i, left[t], f[i] + Dist(current_slot[i], s, Over(t, i)) * T[i], rounds[t])

\* Where the thread is: the wheels below the one that is stepped have turned.
WheelControl ==
    /\ Pending => phase = Tick /\ \A j \in Layer : j < layer => current_slot[j] = 0
    /\ InSlot => layer = 0
    /\ pc = "cascade" => layer > 0
    /\ pc = "copied" => hand \in Timer

\* A wheel that is not paused.
WheelTiming ==
    /\ pc = "off" => phase = 0 /\ \A i \in Layer : current_slot[i] = 0
    /\ pc # "off" => running
    /\ \E f : IsAhead(f) /\ AllOnTime(f)

Single ==
    \A t \in Timer : \A i, j \in Layer, s, u \in Slot :
        t \in slots[i][s] /\ t \in slots[j][u] => i = j /\ s = u

WheelInv == WheelTypeOK /\ Single /\ WheelControl /\ (~pauses => WheelTiming)

\* The next step of a wheel is a tick of it away at most; while tick() steps a
\* wheel, those below have just turned and their next one is a whole tick away.
LEMMA AheadNumbers ==
  ASSUME WheelAssumption, WheelTypeOK, WheelControl, NEW f, IsAhead(f)
  PROVE  /\ f \in [Layer -> Int] /\ \A i \in Layer : 0 <= f[i] /\ f[i] <= T[i]
         /\ Pending => f[layer] = 0 /\ \A j \in Layer : j < layer => f[j] = T[j]
         /\ ~Pending => \A i \in Layer : f[i] >= phase
<1>0. /\ Size \in Nat \ {0, 1} /\ Slot = 0..(Size - 1) /\ phase \in Nat /\ phase <= Tick /\ Tick \in Nat
      /\ current_slot \in [Layer -> Slot] /\ layer \in Layer /\ Layer = 0..(Layers - 1) /\ Layers \in Int
  BY WheelNumbers DEF WheelTypeOK
<1>1. f \in [Layer -> Int]
  BY DEF IsAhead
<1>2. ASSUME NEW i \in Layer
      PROVE  f[i] = IF Pending /\ layer = i THEN 0
                    ELSE IF i = 0 THEN phase ELSE f[i - 1] + (Size - 1 - current_slot[i - 1]) * T[i - 1]
  BY DEF IsAhead
<1>3. ASSUME NEW i \in Layer \ {0}
      PROVE  /\ i - 1 \in Layer
             /\ \E t \in Nat, c \in 0..(Size - 1) :
                  /\ t > 0 /\ t = T[i - 1] /\ c = current_slot[i - 1] /\ T[i] = t * Size
                  /\ f[i] = (IF Pending /\ layer = i THEN 0 ELSE f[i - 1] + (Size - 1 - c) * t)
  <2>1. i - 1 \in Layer /\ T[i] = T[i - 1] * Size /\ T[i - 1] \in Nat /\ T[i - 1] > 0
    BY TickNumbers
  <2>2. current_slot[i - 1] \in 0..(Size - 1)
    BY <1>0, <2>1
  <2>3. i \in Layer /\ i # 0
    OBVIOUS
  <2>4. f[i] = (IF Pending /\ layer = i THEN 0 ELSE f[i - 1] + (Size - 1 - current_slot[i - 1]) * T[i - 1])
    BY <1>2, <2>3
  <2> QED  BY <2>1, <2>2, <2>4
<1>4. 0 \in Layer /\ T[0] = Tick /\ (f[0] = 0 \/ f[0] = phase) /\ (~Pending => f[0] = phase)
      /\ (Pending /\ layer # 0 => f[0] = phase)
  BY <1>2, TickNumbers
<1>5. \A i \in Layer : 0 <= f[i] /\ f[i] <= T[i] /\ (~Pending => f[i] >= phase)
  <2> DEFINE G == {i \in Layer : 0 <= f[i] /\ f[i] <= T[i] /\ (~Pending => f[i] >= phase)}
  <2>1. 0 \in G
    BY <1>0, <1>4
  <2>2. ASSUME NEW i \in Layer \ {0}, i - 1 \in G PROVE i \in G
    <3>1. PICK t \in Nat, c \in 0..(Size - 1) :
             /\ t > 0 /\ t = T[i - 1] /\ c = current_slot[i - 1] /\ T[i] = t * Size
             /\ f[i] = (IF Pending /\ layer = i THEN 0 ELSE f[i - 1] + (Size - 1 - c) * t)
      BY <1>3
    <3>2. PICK a \in Int : a = f[i - 1] /\ 0 <= a /\ a <= t /\ (~Pending => a >= phase)
      BY <1>1, <1>3, <2>2, <3>1
    <3>3. PICK z \in Int : z = (Size - 1 - c) * t /\ 0 <= z /\ z <= t * Size - t /\ t * Size \in Nat
      <4>1. PICK k \in Nat : k = Size - 1 - c /\ k <= Size - 1
        BY <1>0
      <4>2. k * t \in Nat /\ k * t <= (Size - 1) * t
        <5>1. PICK n \in Nat : n = Size - 1
          BY <1>0
        <5>2. k * t \in Nat /\ (k <= n => k * t <= n * t)
          OBVIOUS
        <5> QED  BY <4>1, <5>1, <5>2
      <4>3. (Size - 1) * t = t * Size - t /\ t * Size \in Nat
        BY <1>0
      <4> QED  BY <4>1, <4>2, <4>3
    <3>4. 0 <= f[i] /\ f[i] <= T[i] /\ (~Pending => f[i] >= phase)
      <4>1. PICK y \in Nat : T[i] = y /\ z <= y - t /\ 0 <= z /\ t > 0
        BY <3>1, <3>3
      <4>2. f[i] = (IF Pending /\ layer = i THEN 0 ELSE a + z)
        BY <3>1, <3>2, <3>3
      <4> QED  BY <1>0, <3>2, <4>1, <4>2
    <3> QED  BY <3>4
  <2> HIDE DEF G
  <2>3. \A i \in Layer : i \in G
    BY <2>1, <2>2, LayerInduction
  <2> QED  BY <2>3 DEF G
<1>6. ASSUME Pending PROVE f[layer] = 0 /\ \A j \in Layer : j < layer => f[j] = T[j]
  <2> DEFINE G == {j \in Layer : j < layer => f[j] = T[j]}
  <2>1. 0 \in G
    BY <1>0, <1>4, <1>6 DEF WheelControl
  <2>2. ASSUME NEW i \in Layer \ {0}, i - 1 \in G PROVE i \in G
    <3>1. SUFFICES ASSUME i < layer PROVE f[i] = T[i]
      OBVIOUS
    <3>2. PICK t \in Nat, c \in 0..(Size - 1) :
             /\ t > 0 /\ t = T[i - 1] /\ c = current_slot[i - 1] /\ T[i] = t * Size
             /\ f[i] = (IF Pending /\ layer = i THEN 0 ELSE f[i - 1] + (Size - 1 - c) * t)
      BY <1>3
    <3>3. i - 1 \in Layer /\ i - 1 < layer /\ layer # i
      BY <1>0, <1>3, <3>1
    <3>4. f[i - 1] = t /\ c = 0
      BY <1>6, <2>2, <3>2, <3>3 DEF WheelControl
    <3>5. f[i] = t + (Size - 1) * t
      BY <1>0, <3>2, <3>3, <3>4
    <3>6. t + (Size - 1) * t = t * Size
      BY <1>0
    <3> QED  BY <3>2, <3>5, <3>6
  <2> HIDE DEF G
  <2>3. \A i \in Layer : i \in G
    BY <2>1, <2>2, LayerInduction
  <2>4. f[layer] = 0
    BY <1>0, <1>2, <1>6
  <2> QED  BY <2>3, <2>4 DEF G
<1> QED  BY <1>1, <1>5, <1>6

AllSlots == [Layer -> [Slot -> SUBSET Timer]]

\* add_task_to_wheel finds a slot.
LEMMA PlaceThere ==
  ASSUME WheelAssumption, current_slot \in [Layer -> Slot], NEW d \in Nat \ {0}
  PROVE  /\ \E i \in Layer, s \in Slot : Place(d) = <<i, s>>
         /\ Rounds(d) \in Nat
<1>1. PICK i \in Layer, m \in 0..(Size - 1) : Place(d) = <<i, Turned(current_slot[i], m)>>
  BY PlaceIs
<1>2. current_slot[i] \in 0..(Size - 1) /\ Size \in Nat \ {0, 1} /\ Slot = 0..(Size - 1)
  BY WheelNumbers
<1>3. Turned(current_slot[i], m) \in Slot
  BY <1>2 DEF Turned
<1>4. Rounds(d) \in Nat
  BY PlaceIs
<1> QED  BY <1>1, <1>3, <1>4
-----------------------------------------------------------------------------
(* What the operations do to the slots.                                    *)

\* add_timer puts the timer into one slot.
LEMMA AddSlots ==
  ASSUME WheelAssumption, WheelTypeOK, NEW t \in Timer, NEW d \in Delay, add_timer(t, d)
  PROVE  /\ d \in Nat \ {0} /\ Rounds(d) \in Nat
         /\ slots' \in AllSlots
         /\ \E i \in Layer, s \in Slot :
              /\ Place(d) = <<i, s>>
              /\ \A j \in Layer, u \in Slot :
                   slots'[j][u] = IF j = i /\ u = s THEN slots[j][u] \cup {t} ELSE slots[j][u]
<1>1. d \in Nat \ {0} /\ current_slot \in [Layer -> Slot] /\ slots \in AllSlots
  BY WheelNumbers DEF WheelTypeOK, AllSlots
<1>2. PICK i \in Layer, s \in Slot : Place(d) = <<i, s>>
  BY <1>1, PlaceThere
<1>3. Rounds(d) \in Nat
  BY <1>1, PlaceThere
<1>4. PICK g \in AllSlots : g = slots /\ slots' = Put(g, t, <<i, s>>)
  BY <1>1, <1>2 DEF add_timer
<1>5. /\ Put(g, t, <<i, s>>) \in AllSlots
      /\ \A j \in Layer, u \in Slot :
           Put(g, t, <<i, s>>)[j][u] = IF j = i /\ u = s THEN g[j][u] \cup {t} ELSE g[j][u]
  <2>1. Put(g, t, <<i, s>>) \in AllSlots
    BY <1>2, <1>4 DEF Put, AllSlots
  <2>2. \A j \in Layer, u \in Slot :
          Put(g, t, <<i, s>>)[j][u] = IF j = i /\ u = s THEN g[j][u] \cup {t} ELSE g[j][u]
    BY <1>2, <1>4 DEF Put, AllSlots
  <2> QED  BY <2>1, <2>2
<1> QED  BY <1>1, <1>2, <1>3, <1>4, <1>5

\* process_slot takes a cancelled timer or a one-shot timer out.
LEMMA RemoveSlots ==
  ASSUME WheelAssumption, WheelTypeOK, NEW t \in Timer, RemoveCancelled(t) \/ ExpireOnce(t)
  PROVE  /\ slots' \in AllSlots
         /\ \A j \in Layer, u \in Slot :
              slots'[j][u] = IF j = 0 /\ u = current_slot[0] THEN slots[j][u] \ {t} ELSE slots[j][u]
<1>1. 0 \in Layer /\ current_slot[0] \in Slot /\ slots \in AllSlots
  BY TickNumbers DEF WheelTypeOK, AllSlots
<1>2. PICK s \in Slot, g \in AllSlots : s = current_slot[0] /\ g = slots /\ slots' = TakeOut(g, t, <<0, s>>)
  BY <1>1 DEF RemoveCancelled, ExpireOnce, Here
<1>3. /\ TakeOut(g, t, <<0, s>>) \in AllSlots
      /\ \A j \in Layer, u \in Slot :
           TakeOut(g, t, <<0, s>>)[j][u] = IF j = 0 /\ u = s THEN g[j][u] \ {t} ELSE g[j][u]
  <2>1. TakeOut(g, t, <<0, s>>) \in AllSlots
    BY <1>1, <1>2 DEF TakeOut, AllSlots
  <2>2. \A j \in Layer, u \in Slot :
          TakeOut(g, t, <<0, s>>)[j][u] = IF j = 0 /\ u = s THEN g[j][u] \ {t} ELSE g[j][u]
    BY <1>1, <1>2 DEF TakeOut, AllSlots
  <2> QED  BY <2>1, <2>2
<1> QED  BY <1>2, <1>3

\* process_slot moves a repeating timer.
LEMMA RepeatSlots ==
  ASSUME WheelAssumption, WheelTypeOK, NEW t \in Timer, ExpireRepeat(t)
  PROVE  /\ interval[t] \in Nat \ {0} /\ interval[t] \in Delay /\ Rounds(interval[t]) \in Nat
         /\ slots' \in AllSlots
         /\ \E i \in Layer, s \in Slot :
              /\ Place(interval[t]) = <<i, s>>
              /\ \A j \in Layer, u \in Slot : \A x \in slots'[j][u] :
                   \/ x = t /\ j = i /\ u = s
                   \/ x \in slots[j][u] /\ ~(x = t /\ j = 0 /\ u = current_slot[0])
<1>1. /\ 0 \in Layer /\ current_slot[0] \in Slot /\ slots \in AllSlots /\ current_slot \in [Layer -> Slot]
      /\ interval[t] \in Delay \cup {0}
  BY TickNumbers DEF WheelTypeOK, AllSlots
<1>2. interval[t] \in Delay /\ interval[t] \in Nat \ {0}
  BY <1>1, WheelNumbers DEF ExpireRepeat
<1>3. PICK i \in Layer, s \in Slot : Place(interval[t]) = <<i, s>>
  BY <1>1, <1>2, PlaceThere
<1>4. Rounds(interval[t]) \in Nat
  BY <1>1, <1>2, PlaceThere
<1>5. PICK c \in Slot, g \in AllSlots : c = current_slot[0] /\ g = slots
  BY <1>1
<1>6. /\ TakeOut(g, t, <<0, c>>) \in AllSlots
      /\ \A j \in Layer, u \in Slot :
           TakeOut(g, t, <<0, c>>)[j][u] = IF j = 0 /\ u = c THEN g[j][u] \ {t} ELSE g[j][u]
  <2>1. TakeOut(g, t, <<0, c>>) \in AllSlots
    BY <1>1, <1>5 DEF TakeOut, AllSlots
  <2>2. \A j \in Layer, u \in Slot :
          TakeOut(g, t, <<0, c>>)[j][u] = IF j = 0 /\ u = c THEN g[j][u] \ {t} ELSE g[j][u]
    BY <1>1, <1>5 DEF TakeOut, AllSlots
  <2> QED  BY <2>1, <2>2
<1>7. PICK h \in AllSlots : h = TakeOut(g, t, <<0, c>>)
  BY <1>6
<1>8. slots' = Put(h, t, <<i, s>>)
  BY <1>3, <1>5, <1>7 DEF ExpireRepeat, Here
<1>9. /\ Put(h, t, <<i, s>>) \in AllSlots
      /\ \A j \in Layer, u \in Slot :
           Put(h, t, <<i, s>>)[j][u] = IF j = i /\ u = s THEN h[j][u] \cup {t} ELSE h[j][u]
  <2>0. h \in AllSlots /\ i \in Layer /\ s \in Slot
    BY <1>3, <1>7
  <2>1. Put(h, t, <<i, s>>) \in AllSlots
    BY <2>0 DEF Put, AllSlots
  <2>2. \A j \in Layer, u \in Slot :
          Put(h, t, <<i, s>>)[j][u] = IF j = i /\ u = s THEN h[j][u] \cup {t} ELSE h[j][u]
    BY <1>3, <1>7 DEF Put, AllSlots
  <2> QED  BY <2>1, <2>2
<1>10. ASSUME NEW j \in Layer, NEW u \in Slot, NEW x \in slots'[j][u]
       PROVE  \/ x = t /\ j = i /\ u = s
              \/ x \in slots[j][u] /\ ~(x = t /\ j = 0 /\ u = current_slot[0])
  <2>1. x \in h[j][u] \/ (x = t /\ j = i /\ u = s)
    BY <1>8, <1>9, <1>10
  <2>2. x \in h[j][u] => x \in slots[j][u] /\ ~(x = t /\ j = 0 /\ u = current_slot[0])
    BY <1>5, <1>6, <1>7
  <2> QED  BY <2>1, <2>2
<1> QED  BY <1>2, <1>3, <1>4, <1>8, <1>9, <1>10

\* cascade moves the timers of one slot and drops the cancelled ones.
LEMMA CascadeSlots ==
  ASSUME WheelAssumption, WheelTypeOK, Cascade
  PROVE  /\ slots' \in AllSlots
         /\ \A t \in Timer : left[t] > 0 => Rounds(left[t]) \in Nat /\ left[t] \in Nat \ {0}
         /\ \A j \in Layer, u \in Slot : \A t \in slots'[j][u] :
              \/ t \in slots[j][u] /\ ~(j = layer /\ u = current_slot[layer])
              \/ /\ t \in slots[layer][current_slot[layer]] \ cancelled
                 /\ \/ left[t] <= 0 /\ j = 0 /\ u = current_slot[0]
                    \/ left[t] > 0 /\ Place(left[t]) = <<j, u>>
<1>1. /\ slots \in AllSlots /\ current_slot \in [Layer -> Slot] /\ layer \in Layer
      /\ left \in [Timer -> Int]
  BY DEF WheelTypeOK, AllSlots
<1>2. PICK moved : moved = slots[layer][current_slot[layer]] \ cancelled
  OBVIOUS
<1>3. moved \subseteq Timer
  BY <1>1, <1>2 DEF AllSlots
<1>4. slots' = [i \in Layer |-> [s \in Slot |->
                  (IF <<i, s>> = <<layer, current_slot[layer]>> THEN {} ELSE slots[i][s])
                     \cup {t \in moved : (IF left[t] <= 0 THEN Here ELSE Place(left[t])) = <<i, s>>}]]
  BY <1>2 DEF Cascade
<1>5. ASSUME NEW j \in Layer, NEW u \in Slot
      PROVE  slots'[j][u] = (IF <<j, u>> = <<layer, current_slot[layer]>> THEN {} ELSE slots[j][u])
                     \cup {t \in moved : (IF left[t] <= 0 THEN Here ELSE Place(left[t])) = <<j, u>>}
  BY <1>4
<1>6. slots' \in AllSlots
  <2>1. ASSUME NEW j \in Layer, NEW u \in Slot
        PROVE  (IF <<j, u>> = <<layer, current_slot[layer]>> THEN {} ELSE slots[j][u])
                     \cup {t \in moved : (IF left[t] <= 0 THEN Here ELSE Place(left[t])) = <<j, u>>}
               \in SUBSET Timer
    BY <1>1, <1>3 DEF AllSlots
  <2> QED  BY <1>4, <2>1 DEF AllSlots
<1>7. ASSUME NEW t \in Timer, left[t] > 0 PROVE Rounds(left[t]) \in Nat /\ left[t] \in Nat \ {0}
  <2>1. left[t] \in Nat \ {0}
    BY <1>1, <1>7
  <2> QED  BY <1>1, <2>1, PlaceThere
<1>8. ASSUME NEW j \in Layer, NEW u \in Slot, NEW t \in slots'[j][u]
      PROVE  \/ t \in slots[j][u] /\ ~(j = layer /\ u = current_slot[layer])
             \/ /\ t \in slots[layer][current_slot[layer]] \ cancelled
                /\ \/ left[t] <= 0 /\ j = 0 /\ u = current_slot[0]
                   \/ left[t] > 0 /\ Place(left[t]) = <<j, u>>
  <2>1. CASE t \in slots[j][u] /\ ~(j = layer /\ u = current_slot[layer])
    BY <2>1
  <2>2. CASE t \in moved /\ (IF left[t] <= 0 THEN Here ELSE Place(left[t])) = <<j, u>>
    <3>1. left[t] \in Int
      BY <1>1, <1>3, <2>2
    <3>2. CASE left[t] <= 0
      <4>1. <<0, current_slot[0]>> = <<j, u>>
        BY <2>2, <3>2 DEF Here
      <4> QED  BY <1>2, <2>2, <3>2, <4>1
    <3>3. CASE left[t] > 0
      BY <1>2, <2>2, <3>1, <3>3
    <3> QED  BY <3>1, <3>2, <3>3
  <2>3. t \in (IF <<j, u>> = <<layer, current_slot[layer]>> THEN {} ELSE slots[j][u])
        \/ (t \in moved /\ (IF left[t] <= 0 THEN Here ELSE Place(left[t])) = <<j, u>>)
    BY <1>5, <1>8
  <2>4. t \in (IF <<j, u>> = <<layer, current_slot[layer]>> THEN {} ELSE slots[j][u])
        => t \in slots[j][u] /\ ~(j = layer /\ u = current_slot[layer])
    OBVIOUS
  <2> QED  BY <2>1, <2>2, <2>3, <2>4
<1> QED  BY <1>6, <1>7, <1>8
-----------------------------------------------------------------------------
\* Every step keeps TypeOK.
LEMMA WheelTypeStep ==
  ASSUME WheelAssumption, WheelInv, [WheelNext]_timerWheelVars
  PROVE  WheelTypeOK'
<1> USE DEF wheelVars, timerVars, threadVars
<1>0. /\ WheelTypeOK /\ Single /\ WheelControl
      /\ 0 \in Layer /\ Tick \in Nat \ {0} /\ LateCap \in Nat /\ Delay \subseteq Nat \ {0}
  BY TickNumbers, WheelNumbers DEF WheelInv
<1>1. ASSUME NEW t \in Timer, NEW d \in Delay, add_timer(t, d) PROVE WheelTypeOK'
  <2>1. slots' \in [Layer -> [Slot -> SUBSET Timer]] /\ d \in Nat \ {0} /\ Rounds(d) \in Nat
    BY <1>0, <1>1, AddSlots DEF AllSlots
  <2>2. left' \in [Timer -> Int] /\ interval' \in [Timer -> Delay \cup {0}] /\ rounds' \in [Timer -> Nat]
    BY <1>0, <1>1, <2>1 DEF add_timer, WheelTypeOK
  <2>3. ASSUME NEW x \in Timer
        PROVE  left'[x] >= 0 - LateCap /\ \E e \in Delay \cup {0} : left'[x] <= e
    <3>1. CASE x = t
      <4>1. left'[x] = d
        BY <1>0, <1>1, <3>1 DEF add_timer, WheelTypeOK
      <4> QED  BY <1>0, <2>1, <4>1
    <3>2. CASE x # t
      <4>1. left'[x] = left[x]
        BY <1>0, <1>1, <3>2 DEF add_timer, WheelTypeOK
      <4> QED  BY <1>0, <4>1 DEF WheelTypeOK
    <3> QED  BY <3>1, <3>2
  <2> QED  BY <1>0, <1>1, <2>1, <2>2, <2>3 DEF add_timer, WheelTypeOK
<1>2. ASSUME NEW t \in Timer, cancel_timer(t) PROVE WheelTypeOK'
  BY <1>0, <1>2 DEF cancel_timer, WheelTypeOK
<1>3. CASE start
  <2>1. current_slot' \in [Layer -> Slot]
    <3>1. 0 \in Slot
      BY WheelNumbers
    <3> QED  BY <1>3, <3>1 DEF start
  <2> QED  BY <1>0, <1>3, <2>1 DEF start, WheelTypeOK
<1>4. CASE stop
  BY <1>0, <1>4 DEF stop, WheelTypeOK
<1>5. CASE Clock
  <2>1. left' = [t \in Timer |-> IF InWheel(t) /\ left[t] > Floor THEN left[t] - 1 ELSE left[t]]
    BY <1>5 DEF Clock
  <2>2. Floor \in Int /\ Floor >= 0 - LateCap
    BY <1>0 DEF Floor
  <2>3. ASSUME NEW x \in Timer
        PROVE  /\ left'[x] \in Int /\ left'[x] >= 0 - LateCap
               /\ \E e \in Delay \cup {0} : left'[x] <= e
    <3>1. PICK y \in Int : y = left[x] /\ y >= 0 - LateCap
      BY <1>0 DEF WheelTypeOK
    <3>2. PICK e \in Delay \cup {0} : y <= e
      BY <1>0, <3>1 DEF WheelTypeOK
    <3>3. (left'[x] = y /\ y >= 0 - LateCap) \/ (left'[x] = y - 1 /\ y > Floor)
      BY <2>1, <3>1
    <3>4. e \in Int
      BY <1>0, <3>2
    <3>5. left'[x] \in Int /\ left'[x] >= 0 - LateCap /\ left'[x] <= e
      BY <1>0, <2>2, <3>1, <3>2, <3>3, <3>4
    <3> QED  BY <3>2, <3>5
  <2>4. left' \in [Timer -> Int]
    <3>1. ASSUME NEW x \in Timer
          PROVE  (IF InWheel(x) /\ left[x] > Floor THEN left[x] - 1 ELSE left[x]) \in Int
      BY <1>0 DEF WheelTypeOK
    <3> QED  BY <2>1, <3>1
  <2>5. phase' \in 0..Tick
    BY <1>0, <1>5 DEF Clock, WheelTypeOK
  <2> QED  BY <1>0, <1>5, <2>3, <2>4, <2>5 DEF Clock, WheelTypeOK
<1>6. CASE BeginTick
  BY <1>0, <1>6 DEF BeginTick, WheelTypeOK
<1>7. CASE SlotDone \/ Callback \/ ThreadEnds
  BY <1>0, <1>7 DEF SlotDone, Callback, ThreadEnds, WheelTypeOK
<1>8. CASE UpdateMap
  BY <1>0, <1>8 DEF UpdateMap, WheelTypeOK, WheelControl
<1>9. CASE Advance
  <2>1. layer \in Layer /\ current_slot \in [Layer -> Slot] /\ Size \in Nat \ {0, 1} /\ Slot = 0..(Size - 1)
    BY <1>0, WheelNumbers DEF WheelTypeOK
  <2>2. (current_slot[layer] + 1) % Size \in Slot
    <3>1. PICK c \in 0..(Size - 1) : c = current_slot[layer]
      BY <2>1
    <3>2. (c + 1) % Size \in 0..(Size - 1)
      BY <2>1
    <3> QED  BY <2>1, <3>1, <3>2
  <2>3. current_slot' \in [Layer -> Slot]
    BY <1>9, <2>1, <2>2 DEF Advance
  <2>4. layer' \in Layer
    BY <1>9, <2>1, WheelNumbers DEF Advance
  <2>5. pc' \in {"sleep", "cascade"}
    BY <1>9 DEF Advance
  <2> QED  BY <1>0, <1>9, <2>3, <2>4, <2>5 DEF Advance, WheelTypeOK
<1>10. CASE Cascade
  <2>1. /\ slots' \in [Layer -> [Slot -> SUBSET Timer]]
        /\ \A t \in Timer : left[t] > 0 => Rounds(left[t]) \in Nat
    BY <1>0, <1>10, CascadeSlots DEF AllSlots
  <2>2. rounds' \in [Timer -> Nat]
    <3>1. rounds' = [t \in Timer |-> IF t \in slots[layer][current_slot[layer]] \ cancelled /\ left[t] > 0
                                     THEN Rounds(left[t]) ELSE rounds[t]]
      BY <1>10 DEF Cascade
    <3>2. ASSUME NEW t \in Timer
          PROVE  (IF t \in slots[layer][current_slot[layer]] \ cancelled /\ left[t] > 0
                  THEN Rounds(left[t]) ELSE rounds[t]) \in Nat
      BY <1>0, <2>1 DEF WheelTypeOK
    <3> QED  BY <3>1, <3>2
  <2> QED  BY <1>0, <1>10, <2>1, <2>2 DEF Cascade, WheelTypeOK
<1>11. ASSUME NEW t \in Timer, RemoveCancelled(t) \/ ExpireOnce(t) PROVE WheelTypeOK'
  <2>1. slots' \in [Layer -> [Slot -> SUBSET Timer]]
    BY <1>0, <1>11, RemoveSlots DEF AllSlots
  <2> QED  BY <1>0, <1>11, <2>1 DEF RemoveCancelled, ExpireOnce, WheelTypeOK
<1>12. ASSUME NEW t \in Timer, WaitARound(t) PROVE WheelTypeOK'
  <2>1. rounds' \in [Timer -> Nat]
    BY <1>0, <1>12 DEF WaitARound, WheelTypeOK
  <2> QED  BY <1>0, <1>12, <2>1 DEF WaitARound, WheelTypeOK
<1>13. ASSUME NEW t \in Timer, ExpireRepeat(t) PROVE WheelTypeOK'
  <2>1. /\ slots' \in [Layer -> [Slot -> SUBSET Timer]]
        /\ interval[t] \in Nat \ {0} /\ interval[t] \in Delay /\ Rounds(interval[t]) \in Nat
    BY <1>0, <1>13, RepeatSlots DEF AllSlots
  <2>2. left' \in [Timer -> Int] /\ rounds' \in [Timer -> Nat]
    BY <1>0, <1>13, <2>1 DEF ExpireRepeat, WheelTypeOK
  <2>3. ASSUME NEW x \in Timer
        PROVE  left'[x] >= 0 - LateCap /\ \E e \in Delay \cup {0} : left'[x] <= e
    <3>1. CASE x = t
      <4>1. left'[x] = interval[t]
        BY <1>0, <1>13, <3>1 DEF ExpireRepeat, WheelTypeOK
      <4> QED  BY <1>0, <2>1, <4>1
    <3>2. CASE x # t
      <4>1. left'[x] = left[x]
        BY <1>0, <1>13, <3>2 DEF ExpireRepeat, WheelTypeOK
      <4> QED  BY <1>0, <4>1 DEF WheelTypeOK
    <3> QED  BY <3>1, <3>2
  <2> QED  BY <1>0, <1>13, <2>1, <2>2, <2>3 DEF ExpireRepeat, WheelTypeOK
<1>14. CASE UNCHANGED timerWheelVars
  BY <1>0, <1>14 DEF timerWheelVars, WheelTypeOK
<1> QED
  BY <1>1, <1>2, <1>3, <1>4, <1>5, <1>6, <1>7, <1>8, <1>9, <1>10, <1>11, <1>12, <1>13, <1>14
     DEF WheelNext, ThreadStep

\* tick() goes from wheel to wheel in order.
LEMMA WheelControlStep ==
  ASSUME WheelAssumption, WheelInv, [WheelNext]_timerWheelVars
  PROVE  WheelControl'
<1> USE DEF wheelVars, timerVars, threadVars, WheelControl, Pending, InSlot
<1>0. /\ WheelTypeOK /\ Single /\ WheelControl
      /\ 0 \in Layer /\ Tick \in Nat \ {0}
  BY TickNumbers, WheelNumbers DEF WheelInv
<1>1. ASSUME NEW t \in Timer, NEW d \in Delay, add_timer(t, d) PROVE WheelControl'
  BY <1>0, <1>1 DEF add_timer
<1>2. ASSUME NEW t \in Timer, cancel_timer(t) PROVE WheelControl'
  BY <1>0, <1>2 DEF cancel_timer
<1>3. CASE start \/ stop \/ Clock \/ ThreadEnds
  BY <1>0, <1>3 DEF start, stop, Clock, ThreadEnds
<1>4. CASE BeginTick
  <2>1. ASSUME NEW j \in Layer PROVE ~(j < 0)
    BY WheelNumbers
  <2> QED  BY <1>0, <1>4, <2>1 DEF BeginTick
<1>5. CASE SlotDone \/ Callback \/ UpdateMap
  BY <1>0, <1>5 DEF SlotDone, Callback, UpdateMap
<1>6. CASE Advance
  <2>1. layer \in Layer /\ current_slot \in [Layer -> Slot] /\ Layer = 0..(Layers - 1) /\ Layers \in Int
    BY <1>0, WheelNumbers DEF WheelTypeOK
  <2>2. CASE pc' = "sleep"
    BY <2>2
  <2>3. CASE pc' = "cascade" /\ layer' = layer + 1 /\ current_slot'[layer] = 0
    <3>1. \A j \in Layer : j # layer => current_slot'[j] = current_slot[j]
      BY <1>6, <2>1 DEF Advance
    <3>2. ASSUME NEW j \in Layer, j < layer + 1 PROVE current_slot'[j] = 0
      <4>1. j = layer \/ j < layer
        BY <2>1, <3>2
      <4> QED  BY <1>0, <1>6, <2>3, <3>1, <4>1 DEF Advance
    <3>3. layer + 1 > 0 /\ phase' = phase
      BY <1>6, <2>1 DEF Advance
    <3> QED  BY <1>0, <1>6, <2>3, <3>2, <3>3 DEF Advance
  <2> QED  BY <1>6, <2>2, <2>3 DEF Advance
<1>7. CASE Cascade
  BY <1>0, <1>7 DEF Cascade
<1>8. ASSUME NEW t \in Timer, RemoveCancelled(t) \/ ExpireOnce(t) \/ WaitARound(t) \/ ExpireRepeat(t)
      PROVE WheelControl'
  BY <1>0, <1>8 DEF RemoveCancelled, ExpireOnce, WaitARound, ExpireRepeat
<1>9. CASE UNCHANGED timerWheelVars
  BY <1>0, <1>9 DEF timerWheelVars
<1> QED
  BY <1>1, <1>2, <1>3, <1>4, <1>5, <1>6, <1>7, <1>8, <1>9 DEF WheelNext, ThreadStep

\* No step puts a timer into two slots.
LEMMA SingleStep ==
  ASSUME WheelAssumption, WheelInv, [WheelNext]_timerWheelVars
  PROVE  Single'
<1> USE DEF wheelVars, timerVars, threadVars
<1>0. WheelTypeOK /\ Single /\ 0 \in Layer /\ current_slot \in [Layer -> Slot] /\ layer \in Layer
  BY TickNumbers DEF WheelInv, WheelTypeOK
<1>1. SUFFICES ASSUME NEW t \in Timer, NEW i \in Layer, NEW j \in Layer, NEW s \in Slot, NEW u \in Slot,
                      t \in slots'[i][s], t \in slots'[j][u]
               PROVE  i = j /\ s = u
  BY DEF Single
<1>2. t \in slots[i][s] /\ t \in slots[j][u] => i = j /\ s = u
  BY <1>0 DEF Single
<1>3. ASSUME NEW x \in Timer, NEW d \in Delay, add_timer(x, d) PROVE i = j /\ s = u
  <2>1. PICK k \in Layer, c \in Slot :
           /\ Place(d) = <<k, c>>
           /\ \A m \in Layer, v \in Slot :
                slots'[m][v] = IF m = k /\ v = c THEN slots[m][v] \cup {x} ELSE slots[m][v]
    BY <1>0, <1>3, AddSlots, ZenonT(30)
  <2>2. CASE t = x
    <3>1. ASSUME NEW m \in Layer, NEW v \in Slot PROVE t \notin slots[m][v]
      <4>1. ~(t \in slots[m][v] /\ <<m, v>> \in Layer \X Slot /\ <<m, v>>[1] = m /\ <<m, v>>[2] = v)
        BY <1>3, <2>2 DEF add_timer, InWheel, Places
      <4> QED  BY <4>1
    <3>2. ASSUME NEW m \in Layer, NEW v \in Slot, t \in slots'[m][v] PROVE m = k /\ v = c
      BY <2>1, <3>1, <3>2
    <3> QED  BY <1>1, <3>2
  <2>3. CASE t # x
    BY <1>1, <1>2, <2>1, <2>3
  <2> QED  BY <2>2, <2>3
<1>4. CASE Cascade
  <2>1. ASSUME NEW m \in Layer, NEW v \in Slot, t \in slots'[m][v]
        PROVE  \/ t \in slots[m][v] /\ ~(m = layer /\ v = current_slot[layer])
               \/ /\ t \in slots[layer][current_slot[layer]]
                  /\ \/ left[t] <= 0 /\ m = 0 /\ v = current_slot[0]
                     \/ left[t] > 0 /\ Place(left[t]) = <<m, v>>
    BY <1>0, <1>4, <2>1, CascadeSlots
  <2>2. left[t] \in Int /\ current_slot[layer] \in Slot
    BY <1>0 DEF WheelTypeOK
  <2>3. CASE t \in slots[layer][current_slot[layer]]
    <3>1. ASSUME NEW m \in Layer, NEW v \in Slot, t \in slots'[m][v]
          PROVE  \/ left[t] <= 0 /\ m = 0 /\ v = current_slot[0]
                 \/ left[t] > 0 /\ Place(left[t]) = <<m, v>>
      <4>1. t \in slots[m][v] => m = layer /\ v = current_slot[layer]
        BY <1>0, <2>2, <2>3 DEF Single
      <4> QED  BY <2>1, <3>1, <4>1
    <3>2. CASE left[t] <= 0
      BY <1>1, <2>2, <3>1, <3>2
    <3>3. CASE left[t] > 0
      <4>1. Place(left[t]) = <<i, s>> /\ Place(left[t]) = <<j, u>>
        BY <1>1, <2>2, <3>1, <3>3
      <4> QED  BY <4>1
    <3> QED  BY <2>2, <3>2, <3>3
  <2>4. CASE t \notin slots[layer][current_slot[layer]]
    BY <1>1, <1>2, <2>1, <2>4
  <2> QED  BY <2>3, <2>4
<1>5. ASSUME NEW x \in Timer, RemoveCancelled(x) \/ ExpireOnce(x) PROVE i = j /\ s = u
  <2>1. \A m \in Layer, v \in Slot :
              slots'[m][v] = IF m = 0 /\ v = current_slot[0] THEN slots[m][v] \ {x} ELSE slots[m][v]
    BY <1>0, <1>5, RemoveSlots
  <2> QED  BY <1>1, <1>2, <2>1
<1>6. ASSUME NEW x \in Timer, ExpireRepeat(x) PROVE i = j /\ s = u
  <2>1. PICK k \in Layer, c \in Slot :
           /\ Place(interval[x]) = <<k, c>>
           /\ \A m \in Layer, v \in Slot : \A y \in slots'[m][v] :
                \/ y = x /\ m = k /\ v = c
                \/ y \in slots[m][v] /\ ~(y = x /\ m = 0 /\ v = current_slot[0])
    BY <1>0, <1>6, RepeatSlots
  <2>2. CASE t = x
    <3>1. x \in slots[0][current_slot[0]]
      BY <1>6 DEF ExpireRepeat, Due
    <3>2. ASSUME NEW m \in Layer, NEW v \in Slot, t \in slots'[m][v] PROVE m = k /\ v = c
      <4>1. t \in slots[m][v] => m = 0 /\ v = current_slot[0]
        BY <1>0, <2>2, <3>1 DEF Single
      <4> QED  BY <2>1, <2>2, <3>2, <4>1
    <3> QED  BY <1>1, <3>2
  <2>3. CASE t # x
    BY <1>1, <1>2, <2>1, <2>3
  <2> QED  BY <2>2, <2>3
<1>7. CASE UNCHANGED slots
  BY <1>1, <1>2, <1>7
<1>8. \/ UNCHANGED slots \/ Cascade
      \/ \E x \in Timer : RemoveCancelled(x) \/ ExpireOnce(x) \/ ExpireRepeat(x)
      \/ \E x \in Timer, d \in Delay : add_timer(x, d)
  BY DEF WheelNext, ThreadStep, timerWheelVars, cancel_timer, start, stop, Clock, BeginTick,
         SlotDone, UpdateMap, Callback, Advance, ThreadEnds, WaitARound
<1> QED  BY <1>3, <1>4, <1>5, <1>6, <1>7, <1>8
-----------------------------------------------------------------------------
\* A timer that no step touches stays on time.
LEMMA StillOnTime ==
  ASSUME NEW f, AllOnTime(f), NEW j \in Layer, NEW u \in Slot, NEW x \in slots[j][u],
         left'[x] = left[x], rounds'[x] = rounds[x], current_slot'[j] = current_slot[j], Over(x, j)' = Over(x, j)
  PROVE  OnTime(j, left'[x], f[j] + Dist(current_slot'[j], u, Over(x, j)') * T[j], rounds'[x])
<1>1. OnTime(j, left[x], f[j] + Dist(current_slot[j], u, Over(x, j)) * T[j], rounds[x])
  BY DEF AllOnTime
<1>2. PICK a, b, c, d : a = left[x] /\ b = rounds[x] /\ c = current_slot[j] /\ d = Over(x, j)
  OBVIOUS
<1>3. OnTime(j, a, f[j] + Dist(c, u, d) * T[j], b)
  BY <1>1, <1>2
<1>4. a = left'[x] /\ b = rounds'[x] /\ c = current_slot'[j] /\ d = Over(x, j)'
  BY <1>2
<1> QED  BY <1>3, <1>4

\* The next steps of the wheels are where they were.
LEMMA AheadSame ==
  ASSUME NEW f, IsAhead(f), current_slot' = current_slot, phase' = phase,
         \A i \in Layer : (Pending' /\ layer' = i) <=> (Pending /\ layer = i)
  PROVE  IsAhead(f)'
<1>1. f \in [Layer -> Int]
  BY DEF IsAhead
<1>2. ASSUME NEW i \in Layer
      PROVE  f[i] = IF Pending' /\ layer' = i THEN 0
                    ELSE IF i = 0 THEN phase' ELSE f[i - 1] + (Size - 1 - current_slot'[i - 1]) * T[i - 1]
  BY DEF IsAhead
<1> QED  BY <1>1, <1>2 DEF IsAhead

\* The current slot is none ahead, or a whole turn once it was handled.
LEMMA DistNumbers ==
  ASSUME WheelAssumption, NEW c \in Slot, NEW s \in Slot, NEW over \in BOOLEAN
  PROVE  Dist(c, s, over) \in Nat /\ Dist(c, c, FALSE) = 0 /\ Dist(c, c, TRUE) = Size
BY WheelNumbers DEF Dist

\* current_slot = (current_slot + 1) % wheel_size: every slot comes one nearer.
LEMMA AdvanceDist ==
  ASSUME WheelAssumption, NEW c \in Slot, NEW s \in Slot
  PROVE  /\ (c + 1) % Size = IF c = Size - 1 THEN 0 ELSE c + 1
         /\ Dist((c + 1) % Size, s, FALSE) = Dist(c, s, TRUE) - 1
<1>1. Size \in Nat \ {0, 1} /\ Slot = 0..(Size - 1) /\ c \in 0..(Size - 1) /\ s \in 0..(Size - 1)
  BY WheelNumbers
<1>2. (c + 1) % Size = IF c = Size - 1 THEN 0 ELSE c + 1
  BY <1>1
<1>3. PICK n \in Int : n = (c + 1) % Size /\ n = IF c = Size - 1 THEN 0 ELSE c + 1
  BY <1>1, <1>2
<1>4. Dist(n, s, FALSE) = Dist(c, s, TRUE) - 1
  BY <1>1, <1>3 DEF Dist
<1> QED  BY <1>2, <1>3, <1>4

\* A millisecond passes for a timer that is not handled before it has passed.
LEMMA ClockOnTime ==
  ASSUME WheelAssumption, NEW i \in Layer, NEW y \in Int, NEW e \in Int, NEW r \in Nat,
         OnTime(i, y, e, r), e >= 1, NEW z \in Int, z = y - 1 \/ (z = y /\ y <= 0)
  PROVE  OnTime(i, z, e - 1, r)
<1>1. PICK one \in Nat, last \in Nat, t \in Nat : one = T[1] /\ last = T[Layers - 1] /\ t = T[i]
  BY TickNumbers
<1>2. Tick \in Nat \ {0} /\ Size \in Nat
  BY WheelNumbers
<1>3. CASE i = 0
  <2>1. PICK n \in Nat : n = r * one
    OBVIOUS
  <2>2. y >= e + n - last - Tick /\ y < e + n + Tick
    BY <1>1, <1>3, <2>1 DEF OnTime
  <2>3. z >= (e - 1) + n - last - Tick /\ z < (e - 1) + n + Tick
    BY <1>2, <2>2
  <2> QED  BY <1>1, <1>3, <2>1, <2>3 DEF OnTime
<1>4. CASE i # 0
  <2>1. PICK n \in Int : n = IF r = 0 THEN 0 - T[i] ELSE (r - 1) * (T[i] * Size)
    <3>1. (IF r = 0 THEN 0 - t ELSE (r - 1) * (t * Size)) \in Int
      BY <1>2
    <3> QED  BY <1>1, <3>1
  <2>2. y >= e + n
    BY <1>4, <2>1 DEF OnTime
  <2>3. z >= (e - 1) + n
    BY <2>2
  <2> QED  BY <1>4, <2>1, <2>3 DEF OnTime
<1> QED  BY <1>3, <1>4

\* Every step of a wheel that is not paused keeps its timers on time.
LEMMA WheelTimingStep ==
  ASSUME WheelAssumption, WheelInv, [WheelNext]_timerWheelVars
  PROVE  ~pauses' => WheelTiming'
<1> USE DEF wheelVars, timerVars, threadVars
<1>0. /\ WheelTypeOK /\ Single /\ WheelControl
      /\ 0 \in Layer /\ current_slot \in [Layer -> Slot] /\ layer \in Layer
      /\ Tick \in Nat \ {0} /\ left \in [Timer -> Int] /\ rounds \in [Timer -> Nat]
      /\ \A i \in Layer, s \in Slot : slots[i][s] \subseteq Timer
  <2>1. WheelTypeOK /\ Single /\ WheelControl /\ 0 \in Layer /\ Tick \in Nat \ {0}
    BY TickNumbers, WheelNumbers DEF WheelInv
  <2>2. \A i \in Layer, s \in Slot : slots[i][s] \subseteq Timer
    BY <2>1 DEF WheelTypeOK
  <2> QED  BY <2>1, <2>2 DEF WheelTypeOK
<1>1. SUFFICES ASSUME ~pauses' PROVE WheelTiming'
  OBVIOUS
<1>2. pauses' = pauses
  BY DEF WheelNext, ThreadStep, timerWheelVars, add_timer, cancel_timer, start, stop, Clock, BeginTick,
         SlotDone, UpdateMap, Callback, Advance, Cascade, ThreadEnds, WaitARound,
         RemoveCancelled, ExpireOnce, ExpireRepeat
<1>3. WheelTiming
  BY <1>1, <1>2 DEF WheelInv
<1>4. PICK f : IsAhead(f) /\ AllOnTime(f)
  BY <1>3 DEF WheelTiming
<1>5. /\ f \in [Layer -> Int] /\ \A i \in Layer : 0 <= f[i] /\ f[i] <= T[i]
      /\ Pending => f[layer] = 0 /\ \A j \in Layer : j < layer => f[j] = T[j]
      /\ ~Pending => \A i \in Layer : f[i] >= phase
  BY <1>0, <1>4, AheadNumbers
<1>6. \A x, i : Over(x, i) \in BOOLEAN /\ Over(x, i)' \in BOOLEAN
  BY DEF Over
<1>7. ASSUME NEW g, IsAhead(g)',
             \A i \in Layer, s \in Slot : \A t \in slots'[i][s] :
                OnTime(i, left'[t], g[i] + Dist(current_slot'[i], s, Over(t, i)') * T[i], rounds'[t]),
             pc' = "off" => phase' = 0 /\ \A i \in Layer : current_slot'[i] = 0,
             pc' # "off" => running'
      PROVE  WheelTiming'
  BY <1>7 DEF WheelTiming, AllOnTime
\* The steps that leave the slots and the clock alone.
<1>8. ASSUME slots' = slots, current_slot' = current_slot, phase' = phase, left' = left, rounds' = rounds,
             layer' = layer, Pending' = Pending, pc' # "off" \/ pc' = pc, pc = "off" \/ running' = running,
             pc' = "off" \/ running',
             \A i \in Layer, s \in Slot : \A t \in slots[i][s] : Over(t, i)' = Over(t, i)
      PROVE  WheelTiming'
  <2>1. IsAhead(f)'
    BY <1>4, <1>8, AheadSame
  <2>2. ASSUME NEW i \in Layer, NEW s \in Slot, NEW t \in slots'[i][s]
        PROVE  OnTime(i, left'[t], f[i] + Dist(current_slot'[i], s, Over(t, i)') * T[i], rounds'[t])
    BY <1>4, <1>8, StillOnTime
  <2> QED  BY <1>3, <1>7, <1>8, <2>1, <2>2 DEF WheelTiming
<1>9. ASSUME NEW t \in Timer, cancel_timer(t) PROVE WheelTiming'
  BY <1>3, <1>8, <1>9 DEF cancel_timer, Pending, InSlot, Over, WheelTiming
<1>10. CASE UpdateMap \/ Callback
  BY <1>3, <1>8, <1>10 DEF UpdateMap, Callback, Pending, InSlot, Over, WheelTiming
<1>11. CASE UNCHANGED timerWheelVars
  BY <1>3, <1>8, <1>11 DEF timerWheelVars, Pending, InSlot, Over, WheelTiming
<1>12. CASE stop \/ ThreadEnds
  BY <1>1, <1>2, <1>3, <1>12 DEF stop, ThreadEnds, WheelTiming
<1>13. CASE start
  <2>1. phase' = phase /\ current_slot' = current_slot
    <3>1. current_slot' = [i \in Layer |-> 0] /\ \A i \in Layer : current_slot[i] = 0
      BY <1>3, <1>13 DEF start, WheelTiming
    <3>2. current_slot' = current_slot
      BY <1>0, <3>1
    <3> QED  BY <1>3, <1>13, <3>2 DEF start, WheelTiming
  <2> QED  BY <1>3, <1>8, <1>13, <2>1 DEF start, Pending, InSlot, Over, WheelTiming
<1>14. CASE BeginTick
  <2>1. slots' = slots /\ current_slot' = current_slot /\ left' = left /\ rounds' = rounds /\ phase = 0
        /\ layer' = 0 /\ passed' = {} /\ pc' = "slot" /\ pc = "sleep" /\ running' = running /\ running
    BY <1>14 DEF BeginTick
  <2>2. f[0] = 0
    BY <1>0, <1>4, <2>1 DEF IsAhead, Pending, InSlot
  <2>3. ASSUME NEW i \in Layer
        PROVE  f[i] = IF Pending' /\ layer' = i THEN 0
                      ELSE IF i = 0 THEN phase' ELSE f[i - 1] + (Size - 1 - current_slot'[i - 1]) * T[i - 1]
    <3>1. Pending' /\ ~Pending
      BY <2>1 DEF Pending, InSlot
    <3>2. i # 0 => f[i] = f[i - 1] + (Size - 1 - current_slot'[i - 1]) * T[i - 1]
      BY <1>4, <2>1, <3>1 DEF IsAhead
    <3> QED  BY <2>1, <2>2, <3>1, <3>2
  <2>4. IsAhead(f)'
    BY <1>5, <2>3 DEF IsAhead
  <2>5. ASSUME NEW i \in Layer, NEW s \in Slot, NEW t \in slots'[i][s]
        PROVE  OnTime(i, left'[t], f[i] + Dist(current_slot'[i], s, Over(t, i)') * T[i], rounds'[t])
    <3>1. Over(t, i)' = Over(t, i)
      BY <2>1 DEF Over, InSlot
    <3> QED  BY <1>4, <2>1, <3>1, StillOnTime
  <2> QED  BY <1>7, <2>1, <2>4, <2>5
<1>15. CASE SlotDone
  <2>1. slots' = slots /\ current_slot' = current_slot /\ left' = left /\ rounds' = rounds /\ phase' = phase
        /\ layer' = layer /\ passed' = passed /\ pc' = "advance" /\ pc = "slot" /\ running' = running
        /\ slots[0][current_slot[0]] \subseteq passed
    BY <1>15 DEF SlotDone
  <2>2. layer = 0 /\ running
    BY <1>0, <1>3, <2>1 DEF WheelControl, WheelTiming, InSlot
  <2>3. IsAhead(f)'
    BY <1>4, <2>1, AheadSame DEF Pending, InSlot
  <2>4. ASSUME NEW i \in Layer, NEW s \in Slot, NEW t \in slots'[i][s]
        PROVE  OnTime(i, left'[t], f[i] + Dist(current_slot'[i], s, Over(t, i)') * T[i], rounds'[t])
    <3>1. CASE i = 0 /\ s # current_slot[0]
      <4>1. Dist(current_slot[i], s, Over(t, i)') = Dist(current_slot[i], s, Over(t, i))
        BY <1>6, <3>1 DEF Dist
      <4>2. OnTime(i, left[t], f[i] + Dist(current_slot[i], s, Over(t, i)) * T[i], rounds[t])
        BY <1>4, <2>1 DEF AllOnTime
      <4> QED  BY <2>1, <4>1, <4>2
    <3>2. CASE ~(i = 0 /\ s # current_slot[0])
      <4>1. Over(t, i)' = Over(t, i)
        BY <2>1, <2>2, <3>2 DEF Over, InSlot
      <4> QED  BY <1>4, <2>1, <4>1, StillOnTime
    <3> QED  BY <3>1, <3>2
  <2> QED  BY <1>7, <2>1, <2>2, <2>3, <2>4
\* The current slot of wheel 0 is being handled, or a timer is added.
<1>16. ASSUME ThreadStep \/ (\E x \in Timer, d \in Delay : add_timer(x, d)),
              current_slot' = current_slot, phase' = phase, layer' = layer, Pending' = Pending, running' = running,
              pc' # "off" \/ pc' = pc,
              \A i \in Layer, s \in Slot : \A t \in slots'[i][s] :
                 OnTime(i, left'[t], f[i] + Dist(current_slot[i], s, Over(t, i)') * T[i], rounds'[t])
       PROVE  WheelTiming'
  <2>1. IsAhead(f)'
    BY <1>4, <1>16, AheadSame
  <2>2. pc' # "off" => pc # "off"
    BY <1>16 DEF ThreadStep, add_timer, BeginTick, SlotDone, UpdateMap, Callback, Advance,
         Cascade, ThreadEnds, WaitARound, RemoveCancelled, ExpireOnce, ExpireRepeat
  <2>3. pc' = "off" => pc = "off"
    BY <1>16
  <2> QED  BY <1>3, <1>7, <1>16, <2>1, <2>2, <2>3 DEF WheelTiming
<1>17. ASSUME NEW d \in Nat \ {0}, NEW i, NEW s, Place(d) = <<i, s>>, NEW over \in BOOLEAN, over => Pending /\ i = layer
       PROVE  OnTime(i, d, f[i] + Dist(current_slot[i], s, over) * T[i], Rounds(d))
  BY <1>0, <1>5, <1>17, PlacedOnTime
<1>18. ASSUME NEW x \in Timer, NEW d \in Delay, add_timer(x, d) PROVE WheelTiming'
  <2>1. current_slot' = current_slot /\ phase' = phase /\ layer' = layer /\ pc' = pc /\ passed' = passed /\ running' = running
    BY <1>18 DEF add_timer
  <2>2. \A t, i : Over(t, i)' = Over(t, i)
    BY <2>1 DEF Over, InSlot
  <2>3. PICK k \in Layer, c \in Slot :
           /\ Place(d) = <<k, c>>
           /\ \A m \in Layer, v \in Slot :
                slots'[m][v] = IF m = k /\ v = c THEN slots[m][v] \cup {x} ELSE slots[m][v]
    BY <1>0, <1>18, AddSlots
  <2>4. d \in Nat \ {0} /\ left'[x] = d /\ rounds'[x] = Rounds(d)
    BY <1>0, <1>18, WheelNumbers DEF add_timer
  <2>5. ASSUME NEW i \in Layer, NEW s \in Slot, NEW t \in slots'[i][s]
        PROVE  OnTime(i, left'[t], f[i] + Dist(current_slot[i], s, Over(t, i)') * T[i], rounds'[t])
    <3>1. CASE t = x
      <4>1. x \notin slots[i][s]
        <5>1. ~(x \in slots[i][s] /\ <<i, s>> \in Layer \X Slot /\ <<i, s>>[1] = i /\ <<i, s>>[2] = s)
          BY <1>18 DEF add_timer, InWheel, Places
        <5> QED  BY <5>1
      <4>2. i = k /\ s = c
        BY <2>3, <2>5, <3>1, <4>1
      <4>3. PICK over \in BOOLEAN : over = Over(t, i)' /\ (over => Pending /\ i = layer)
        BY <1>6, <2>2 DEF Over, Pending
      <4>4. OnTime(i, d, f[i] + Dist(current_slot[i], s, over) * T[i], Rounds(d))
        BY <1>17, <2>3, <2>4, <4>2, <4>3
      <4> QED  BY <2>4, <3>1, <4>3, <4>4
    <3>2. CASE t # x
      <4>1. t \in slots[i][s]
        BY <2>3, <2>5, <3>2
      <4>2. t \in Timer
        BY <1>0, <4>1
      <4>3. left'[t] = left[t] /\ rounds'[t] = rounds[t]
        BY <1>0, <1>18, <3>2, <4>2 DEF add_timer
      <4> QED  BY <1>4, <2>1, <2>2, <4>1, <4>3, StillOnTime
    <3> QED  BY <3>1, <3>2
  <2> QED  BY <1>16, <1>18, <2>1, <2>5 DEF Pending, InSlot
<1>19. ASSUME NEW x \in Timer, RemoveCancelled(x) \/ ExpireOnce(x) PROVE WheelTiming'
  <2>1. /\ current_slot' = current_slot /\ phase' = phase /\ layer' = layer /\ passed' = passed /\ running' = running
        /\ left' = left /\ rounds' = rounds /\ InSlot /\ InSlot' /\ Pending /\ Pending' /\ pc' # "off"
        /\ pc # "advance" /\ pc' # "advance"
    BY <1>19 DEF RemoveCancelled, ExpireOnce, InSlot, Pending
  <2>2. \A t, i : Over(t, i)' = Over(t, i)
    BY <2>1 DEF Over
  <2>3. \A m \in Layer, v \in Slot :
              slots'[m][v] = IF m = 0 /\ v = current_slot[0] THEN slots[m][v] \ {x} ELSE slots[m][v]
    BY <1>0, <1>19, RemoveSlots
  <2>4. ASSUME NEW i \in Layer, NEW s \in Slot, NEW t \in slots'[i][s]
        PROVE  OnTime(i, left'[t], f[i] + Dist(current_slot[i], s, Over(t, i)') * T[i], rounds'[t])
    <3>1. t \in slots[i][s]
      BY <2>3, <2>4
    <3> QED  BY <1>4, <2>1, <2>2, <3>1, StillOnTime
  <2> QED  BY <1>16, <1>19, <2>1, <2>4 DEF ThreadStep
<1>20. ASSUME NEW x \in Timer, ExpireRepeat(x) PROVE WheelTiming'
  <2>1. /\ current_slot' = current_slot /\ phase' = phase /\ layer' = layer /\ passed' = passed /\ running' = running
        /\ InSlot /\ InSlot' /\ Pending /\ Pending' /\ pc' # "off" /\ pc # "advance" /\ pc' # "advance"
        /\ x \in slots[0][current_slot[0]]
    BY <1>20 DEF ExpireRepeat, InSlot, Pending, Due
  <2>2. \A t, i : Over(t, i)' = Over(t, i)
    BY <2>1 DEF Over
  <2>3. PICK k \in Layer, c \in Slot :
           /\ Place(interval[x]) = <<k, c>>
           /\ \A m \in Layer, v \in Slot : \A y \in slots'[m][v] :
                \/ y = x /\ m = k /\ v = c
                \/ y \in slots[m][v] /\ ~(y = x /\ m = 0 /\ v = current_slot[0])
    BY <1>0, <1>20, RepeatSlots
  <2>4. PICK d \in Nat \ {0} : d = interval[x] /\ left'[x] = d /\ rounds'[x] = Rounds(d)
    <3>1. interval[x] \in Nat \ {0}
      BY <1>0, <1>20, RepeatSlots
    <3> QED  BY <1>0, <1>20, <3>1 DEF ExpireRepeat
  <2>5. ASSUME NEW i \in Layer, NEW s \in Slot, NEW t \in slots'[i][s]
        PROVE  OnTime(i, left'[t], f[i] + Dist(current_slot[i], s, Over(t, i)') * T[i], rounds'[t])
    <3>1. CASE t = x
      <4>1. x \in slots[i][s] => i = 0 /\ s = current_slot[0]
        BY <1>0, <2>1 DEF Single
      <4>2. i = k /\ s = c
        BY <2>3, <2>5, <3>1, <4>1
      <4>3. PICK over \in BOOLEAN : over = Over(t, i)' /\ (over => Pending /\ i = layer)
        BY <1>6, <2>2 DEF Over, Pending
      <4>4. OnTime(i, d, f[i] + Dist(current_slot[i], s, over) * T[i], Rounds(d))
        BY <1>17, <2>3, <2>4, <4>2, <4>3
      <4> QED  BY <2>4, <3>1, <4>3, <4>4
    <3>2. CASE t # x
      <4>1. t \in slots[i][s]
        BY <2>3, <2>5, <3>2
      <4>2. t \in Timer
        BY <1>0, <4>1
      <4>3. left'[t] = left[t] /\ rounds'[t] = rounds[t]
        BY <1>0, <1>20, <3>2, <4>2 DEF ExpireRepeat
      <4> QED  BY <1>4, <2>1, <2>2, <4>1, <4>3, StillOnTime
    <3> QED  BY <3>1, <3>2
  <2> QED  BY <1>16, <1>20, <2>1, <2>5 DEF ThreadStep
<1>21. ASSUME NEW x \in Timer, WaitARound(x) PROVE WheelTiming'
  <2>1. /\ current_slot' = current_slot /\ phase' = phase /\ layer' = layer /\ passed' = passed \cup {x} /\ running' = running
        /\ left' = left /\ slots' = slots /\ pc' = pc /\ pc = "slot" /\ rounds[x] > 0
        /\ x \in slots[0][current_slot[0]] /\ x \notin passed
    BY <1>21 DEF WaitARound, Due
  <2>2. layer = 0
    BY <1>0, <2>1 DEF WheelControl, InSlot
  <2>3. ASSUME NEW i \in Layer, NEW s \in Slot, NEW t \in slots'[i][s]
        PROVE  OnTime(i, left'[t], f[i] + Dist(current_slot[i], s, Over(t, i)') * T[i], rounds'[t])
    <3>1. CASE t = x
      <4>1. i = 0 /\ s = current_slot[0]
        BY <1>0, <2>1, <2>3, <3>1 DEF Single
      <4>2. ~Over(t, i) /\ Over(t, i)'
        BY <2>1, <2>2, <3>1, <4>1 DEF Over, InSlot
      <4>3. Over(t, i) = FALSE /\ Over(t, i)' = TRUE
        BY <1>6, <4>2
      <4>4. Dist(current_slot[i], s, Over(t, i)) = 0 /\ Dist(current_slot[i], s, Over(t, i)') = Size
        BY <1>0, <4>1, <4>3, DistNumbers
      <4>5. PICK y \in Int, r \in Nat, a \in Int : y = left[t] /\ r = rounds[t] - 1 /\ r + 1 = rounds[t] /\ a = f[i]
                                                 /\ rounds'[t] = r /\ left'[t] = y
        BY <1>0, <1>5, <1>21, <2>1, <3>1 DEF WaitARound
      <4>6. OnTime(0, y, a + 0 * T[0], r + 1)
        <5>1. OnTime(i, left[t], f[i] + Dist(current_slot[i], s, Over(t, i)) * T[i], rounds[t])
          BY <1>4, <2>1 DEF AllOnTime
        <5> QED  BY <4>1, <4>4, <4>5, <5>1
      <4>7. PICK one \in Nat, last \in Nat, tick \in Nat : one = T[1] /\ last = T[Layers - 1] /\ tick = T[0]
                                      /\ tick = Tick /\ one = tick * Size
        BY TickNumbers
      <4>8. PICK n \in Nat : n = r * one /\ (r + 1) * one = n + one /\ Size * tick = one
        BY <4>7, WheelNumbers
      <4>9. y >= a + n + one - last - Tick /\ y < a + n + one + Tick
        BY <1>0, <4>6, <4>7, <4>8 DEF OnTime
      <4>10. OnTime(0, y, a + Size * T[0], r)
        BY <1>0, <4>7, <4>8, <4>9 DEF OnTime
      <4> QED  BY <4>1, <4>4, <4>5, <4>10
    <3>2. CASE t # x
      <4>1. Over(t, i)' = Over(t, i)
        BY <2>1, <3>2 DEF Over, InSlot
      <4>2. t \in Timer
        BY <1>0, <2>1
      <4>3. rounds'[t] = rounds[t]
        BY <1>0, <1>21, <3>2, <4>2 DEF WaitARound
      <4> QED  BY <1>4, <2>1, <4>1, <4>3, StillOnTime
    <3> QED  BY <3>1, <3>2
  <2> QED  BY <1>16, <1>21, <2>1, <2>3 DEF ThreadStep, Pending, InSlot
<1>22. CASE Clock
  <2>1. /\ current_slot' = current_slot /\ layer' = layer /\ passed' = passed /\ running' = running
        /\ slots' = slots /\ pc' = pc /\ pc = "sleep" /\ rounds' = rounds /\ phase > 0 /\ phase' = phase - 1
        /\ left' = [t \in Timer |-> IF InWheel(t) /\ left[t] > Floor THEN left[t] - 1 ELSE left[t]]
    BY <1>1, <1>2, <1>22 DEF Clock
  <2>2. ~Pending /\ ~Pending' /\ phase \in Int
    BY <1>0, <2>1 DEF Pending, InSlot, WheelTypeOK
  <2>3. PICK g \in [Layer -> Int] : \A i \in Layer : g[i] = f[i] - 1
    <3>1. [i \in Layer |-> f[i] - 1] \in [Layer -> Int]
      BY <1>5
    <3> QED  BY <3>1
  <2>4. IsAhead(g)'
    <3>1. ASSUME NEW i \in Layer
          PROVE  g[i] = IF Pending' /\ layer' = i THEN 0
                        ELSE IF i = 0 THEN phase' ELSE g[i - 1] + (Size - 1 - current_slot'[i - 1]) * T[i - 1]
      <4>1. f[i] = IF i = 0 THEN phase ELSE f[i - 1] + (Size - 1 - current_slot[i - 1]) * T[i - 1]
        BY <1>4, <2>2 DEF IsAhead
      <4>2. CASE i = 0
        BY <2>1, <2>2, <2>3, <4>1, <4>2
      <4>3. CASE i # 0
        <5>1. i - 1 \in Layer /\ T[i - 1] \in Nat
          BY <4>3, TickNumbers
        <5>2. current_slot[i - 1] \in Int /\ Size \in Int
          BY <1>0, <5>1, WheelNumbers
        <5>3. PICK z \in Int : z = (Size - 1 - current_slot[i - 1]) * T[i - 1]
          BY <5>1, <5>2
        <5>4. f[i] = f[i - 1] + z
          BY <4>1, <4>3, <5>3
        <5>5. g[i] = g[i - 1] + z
          BY <1>5, <2>3, <5>1, <5>4
        <5> QED  BY <2>1, <2>2, <4>3, <5>3, <5>5
      <4> QED  BY <4>2, <4>3
    <3> QED  BY <2>3, <3>1 DEF IsAhead
  <2>5. ASSUME NEW i \in Layer, NEW s \in Slot, NEW t \in slots'[i][s]
        PROVE  OnTime(i, left'[t], g[i] + Dist(current_slot'[i], s, Over(t, i)') * T[i], rounds'[t])
    <3>1. Over(t, i)' = Over(t, i) /\ t \in slots[i][s] /\ t \in Timer
      BY <1>0, <2>1 DEF Over, InSlot
    <3>2. PICK y \in Int, r \in Nat, z \in Int : y = left[t] /\ r = rounds[t] /\ z = left'[t]
                                               /\ (z = y - 1 \/ (z = y /\ y <= 0))
      <4>1. t \in slots[i][s] /\ <<i, s>> \in Layer \X Slot /\ <<i, s>>[1] = i /\ <<i, s>>[2] = s
        BY <3>1
      <4>2. InWheel(t)
        BY <4>1 DEF InWheel, Places
      <4>3. Floor <= 0 /\ Floor \in Int
        BY WheelNumbers DEF Floor
      <4>4. left[t] \in Int /\ rounds[t] \in Nat
        BY <1>0, <3>1
      <4>5. left'[t] = IF left[t] > Floor THEN left[t] - 1 ELSE left[t]
        BY <2>1, <3>1, <4>2
      <4> QED  BY <4>3, <4>4, <4>5
    <3>3. PICK D \in Nat, w \in Nat : D = Dist(current_slot[i], s, Over(t, i)) /\ w = T[i]
      BY <1>0, <1>6, DistNumbers, TickNumbers
    <3>4. PICK e \in Int : e = f[i] + D * w /\ e >= 1 /\ g[i] + D * w = e - 1
      <4>1. PICK n \in Nat : n = D * w
        OBVIOUS
      <4>2. f[i] \in Int /\ f[i] >= 1
        BY <1>5, <2>1, <2>2
      <4> QED  BY <2>3, <4>1, <4>2
    <3>5. OnTime(i, y, e, r)
      <4>1. OnTime(i, left[t], f[i] + Dist(current_slot[i], s, Over(t, i)) * T[i], rounds[t])
        BY <1>4, <3>1 DEF AllOnTime
      <4> QED  BY <3>2, <3>3, <3>4, <4>1
    <3>6. OnTime(i, z, e - 1, r)
      BY <3>2, <3>4, <3>5, ClockOnTime
    <3> QED  BY <2>1, <3>1, <3>2, <3>3, <3>4, <3>6
  <2> QED  BY <1>3, <1>7, <2>1, <2>4, <2>5 DEF WheelTiming
<1>23. CASE Cascade
  <2>1. /\ current_slot' = current_slot /\ phase' = phase /\ layer' = layer /\ passed' = passed /\ running' = running
        /\ left' = left /\ pc' = "advance" /\ pc = "cascade" /\ Pending /\ Pending'
        /\ rounds' = [t \in Timer |-> IF t \in slots[layer][current_slot[layer]] \ cancelled /\ left[t] > 0
                                      THEN Rounds(left[t]) ELSE rounds[t]]
    BY <1>23 DEF Cascade, Pending
  <2>2. layer # 0 /\ layer > 0
    BY <1>0, <2>1, WheelNumbers DEF WheelControl
  <2>3. f[layer] = 0 /\ f[0] = T[0]
    BY <1>0, <1>5, <2>1, <2>2
  <2>4. ASSUME NEW i \in Layer, NEW s \in Slot, NEW t \in slots'[i][s]
        PROVE  OnTime(i, left'[t], f[i] + Dist(current_slot[i], s, Over(t, i)') * T[i], rounds'[t])
    <3>1. Over(t, i)' = (i = layer) /\ Over(t, i) = FALSE
      BY <2>1 DEF Over, InSlot
    <3>2. \/ t \in slots[i][s] /\ ~(i = layer /\ s = current_slot[layer])
          \/ /\ t \in slots[layer][current_slot[layer]] \ cancelled
             /\ \/ left[t] <= 0 /\ i = 0 /\ s = current_slot[0]
                \/ left[t] > 0 /\ Place(left[t]) = <<i, s>>
      BY <1>0, <1>23, <2>4, CascadeSlots
    <3>3. current_slot[layer] \in Slot
      BY <1>0
    <3>4. CASE t \in slots[i][s] /\ ~(i = layer /\ s = current_slot[layer])
      <4>1. t \in Timer
        BY <1>0, <3>4
      <4>2. t \notin slots[layer][current_slot[layer]]
        BY <1>0, <3>3, <3>4, <4>1 DEF Single
      <4>3. rounds'[t] = rounds[t]
        BY <2>1, <4>1, <4>2
      <4>4. Dist(current_slot[i], s, Over(t, i)') = Dist(current_slot[i], s, Over(t, i))
        BY <3>1, <3>4 DEF Dist
      <4>5. OnTime(i, left[t], f[i] + Dist(current_slot[i], s, Over(t, i)) * T[i], rounds[t])
        BY <1>4, <3>4 DEF AllOnTime
      <4> QED  BY <2>1, <4>3, <4>4, <4>5
    <3>5. CASE t \in slots[layer][current_slot[layer]] \ cancelled /\ left[t] > 0 /\ Place(left[t]) = <<i, s>>
      <4>1. t \in Timer
        BY <1>0, <3>3, <3>5
      <4>2. PICK d \in Nat \ {0} : d = left[t]
        BY <1>0, <3>5, <4>1
      <4>3. rounds'[t] = Rounds(d) /\ left'[t] = d
        BY <2>1, <3>5, <4>1, <4>2
      <4>4. PICK over \in BOOLEAN : over = Over(t, i)' /\ (over => Pending /\ i = layer)
        BY <1>6, <2>1, <3>1
      <4>5. OnTime(i, d, f[i] + Dist(current_slot[i], s, over) * T[i], Rounds(d))
        BY <1>17, <3>5, <4>2, <4>4
      <4> QED  BY <4>3, <4>4, <4>5
    <3>6. CASE t \in slots[layer][current_slot[layer]] \ cancelled /\ left[t] <= 0 /\ i = 0 /\ s = current_slot[0]
      <4>1. t \in Timer
        BY <1>0, <3>3, <3>6
      <4>2. PICK y \in Int, r \in Nat : y = left[t] /\ r = rounds[t] /\ y <= 0 /\ rounds'[t] = r /\ left'[t] = y
        BY <1>0, <2>1, <3>6, <4>1
      <4>3. PICK one \in Nat, last \in Nat, w \in Nat :
               /\ one = T[1] /\ last = T[Layers - 1] /\ w = T[layer] /\ w <= last /\ one <= last /\ w > 0
               /\ T[0] = Tick
        BY <1>0, TickNumbers
      <4>4. Over(t, layer) = FALSE
        BY <2>1 DEF Over, InSlot
      <4>5. OnTime(layer, y, 0 + 0 * w, r)
        <5>1. OnTime(layer, left[t], f[layer] + Dist(current_slot[layer], current_slot[layer], Over(t, layer)) * T[layer], rounds[t])
          BY <1>0, <1>4, <3>3, <3>6 DEF AllOnTime
        <5>2. Dist(current_slot[layer], current_slot[layer], Over(t, layer)) = 0
          BY <3>3, <4>4, DistNumbers
        <5> QED  BY <2>3, <4>2, <4>3, <5>1, <5>2
      <4>6. y >= IF r = 0 THEN 0 - w ELSE (r - 1) * (w * Size)
        <5>1. y >= (0 + 0 * w) + IF r = 0 THEN 0 - w ELSE (r - 1) * (w * Size)
          BY <2>2, <4>3, <4>5 DEF OnTime
        <5>2. PICK n \in Int : n = IF r = 0 THEN 0 - w ELSE (r - 1) * (w * Size)
          <6>1. Size \in Nat
            BY WheelNumbers
          <6> QED  BY <6>1
        <5>3. y >= (0 + 0 * w) + n
          BY <5>1, <5>2
        <5>4. y >= n
          BY <5>3
        <5> QED  BY <5>2, <5>4
      <4>7. (r = 0 /\ y >= 0 - last) \/ (r = 1 /\ y = 0)
        <5>1. CASE r = 0
          BY <4>2, <4>3, <4>6, <5>1
        <5>2. CASE r = 1
          BY <4>2, <4>3, <4>6, <5>2, WheelNumbers
        <5>3. CASE r >= 2
          <6>0. PICK z \in Nat : z = w * Size /\ z > 0
            BY <4>3, WheelNumbers
          <6>1. PICK k \in Nat : k = r - 1 /\ k >= 1 /\ z = w * Size /\ z > 0
            BY <5>3, <6>0
          <6>2. k * z > 0
            BY <6>1
          <6>3. y >= k * z
            BY <4>6, <5>3, <6>1
          <6> QED  BY <4>2, <6>1, <6>2, <6>3
        <5> QED  BY <4>2, <5>1, <5>2, <5>3
      <4>8. OnTime(0, y, Tick + 0 * Tick, r)
        <5>1. y >= (Tick + 0 * Tick) + r * one - last - Tick /\ y < (Tick + 0 * Tick) + r * one + Tick
          BY <1>0, <4>2, <4>3, <4>7
        <5> QED  BY <4>3, <5>1 DEF OnTime
      <4>9. Dist(current_slot[i], s, Over(t, i)') = 0
        <5>1. Over(t, i)' = FALSE
          BY <2>2, <3>1, <3>6
        <5> QED  BY <1>0, <3>6, <5>1, DistNumbers
      <4> QED  BY <2>3, <3>6, <4>2, <4>3, <4>8, <4>9
    <3> QED  BY <3>2, <3>4, <3>5, <3>6
  <2> QED  BY <1>16, <1>23, <2>1, <2>4 DEF ThreadStep
<1>24. CASE Advance
  <2>1. /\ phase' = phase /\ passed' = passed /\ running' = running /\ left' = left /\ rounds' = rounds
        /\ slots' = slots /\ pc = "advance" /\ pc' \in {"sleep", "cascade"}
        /\ current_slot' = [current_slot EXCEPT ![layer] = (current_slot[layer] + 1) % Size]
        /\ \/ current_slot'[layer] = 0 /\ layer + 1 < Layers /\ pc' = "cascade" /\ layer' = layer + 1
           \/ (current_slot'[layer] # 0 \/ layer + 1 = Layers) /\ pc' = "sleep" /\ layer' = layer
    BY <1>24 DEF Advance
  <2>2. PICK c \in Slot : c = current_slot[layer]
    BY <1>0
  <2>3. /\ Size \in Nat \ {0, 1} /\ Slot = 0..(Size - 1) /\ Layer = 0..(Layers - 1) /\ Layers \in Int
    BY WheelNumbers
  <2>4. /\ current_slot'[layer] = IF c = Size - 1 THEN 0 ELSE c + 1
        /\ current_slot'[layer] = (c + 1) % Size
        /\ \A i \in Layer : i # layer => current_slot'[i] = current_slot[i]
    <3>1. (c + 1) % Size = IF c = Size - 1 THEN 0 ELSE c + 1
      BY <2>2, AdvanceDist
    <3> QED  BY <1>0, <2>1, <2>2, <3>1
  <2>5. Pending /\ (Pending' <=> pc' = "cascade") /\ f[layer] = 0 /\ phase = Tick
    BY <1>0, <1>5, <2>1 DEF Pending, InSlot, WheelControl
  <2>6. PICK g \in [Layer -> Int] : g[layer] = T[layer] /\ \A i \in Layer : i # layer => g[i] = f[i]
    <3>1. PICK w \in Int : w = T[layer]
      BY <1>0, TickNumbers
    <3>2. [f EXCEPT ![layer] = w] \in [Layer -> Int]
      BY <1>0, <1>5
    <3> QED  BY <1>0, <1>5, <3>1, <3>2
  <2>7. ASSUME NEW i \in Layer
        PROVE  g[i] = IF Pending' /\ layer' = i THEN 0
                      ELSE IF i = 0 THEN phase' ELSE g[i - 1] + (Size - 1 - current_slot'[i - 1]) * T[i - 1]
    <3>1. f[i] = IF Pending /\ layer = i THEN 0
                 ELSE IF i = 0 THEN phase ELSE f[i - 1] + (Size - 1 - current_slot[i - 1]) * T[i - 1]
      BY <1>4 DEF IsAhead
    <3>2. i # 0 => i - 1 \in Layer /\ T[i] = T[i - 1] * Size /\ T[i - 1] \in Nat
      BY TickNumbers
    <3>3. CASE i = layer
      <4>1. ~(Pending' /\ layer' = i)
        BY <1>0, <2>1, <2>3, <2>5, <3>3
      <4>2. CASE i = 0
        BY <2>1, <2>5, <2>6, <3>3, <4>1, <4>2, TickNumbers
      <4>3. CASE i # 0
        <5>1. i - 1 < layer /\ i - 1 # layer
          BY <1>0, <2>3, <3>3
        <5>2. PICK t \in Nat : t = T[i - 1] /\ T[i] = t * Size
          BY <3>2, <4>3
        <5>3. f[i - 1] = t /\ current_slot[i - 1] = 0 /\ current_slot'[i - 1] = 0 /\ g[i - 1] = t
          BY <1>0, <1>5, <2>4, <2>5, <2>6, <3>2, <4>3, <5>1, <5>2 DEF WheelControl
        <5>4. t + (Size - 1 - 0) * t = t * Size
          BY <2>3
        <5> QED  BY <2>6, <3>3, <4>1, <4>3, <5>2, <5>3, <5>4
      <4> QED  BY <4>2, <4>3
    <3>4. CASE i # layer /\ i # 0 /\ i - 1 = layer
      <4>1. PICK t \in Nat : t = T[i - 1]
        BY <3>2, <3>4
      <4>2. f[i] = 0 + (Size - 1 - c) * t /\ g[i] = f[i]
        BY <2>2, <2>5, <2>6, <3>1, <3>4, <4>1
      <4>3. g[i - 1] = t
        BY <2>6, <3>4, <4>1
      <4>4. CASE c = Size - 1
        <5>1. current_slot'[layer] = 0 /\ layer + 1 < Layers
          BY <1>0, <2>3, <2>4, <3>4, <4>4
        <5>2. Pending' /\ layer' = i
          BY <1>0, <2>1, <2>3, <2>5, <3>4, <5>1
        <5>3. f[i] = 0
          BY <2>3, <4>2, <4>4
        <5> QED  BY <4>2, <5>2, <5>3
      <4>5. CASE c # Size - 1
        <5>1. current_slot'[i - 1] = c + 1 /\ c + 1 # 0
          BY <2>2, <2>3, <2>4, <3>4, <4>5
        <5>2. ~Pending'
          BY <2>1, <2>5, <3>4, <5>1
        <5>3. t + (Size - 1 - (c + 1)) * t = 0 + (Size - 1 - c) * t
          <6>1. PICK k \in Int : k = Size - 1 - c
            BY <2>2, <2>3
          <6>2. Size - 1 - (c + 1) = k - 1
            BY <2>2, <2>3, <6>1
          <6>3. t + (k - 1) * t = 0 + k * t
            OBVIOUS
          <6> QED  BY <6>1, <6>2, <6>3
        <5> QED  BY <3>4, <4>1, <4>2, <4>3, <5>1, <5>2, <5>3
      <4> QED  BY <4>4, <4>5
    <3>5. CASE i # layer /\ (i = 0 \/ i - 1 # layer)
      <4>1. ~(Pending' /\ layer' = i)
        BY <1>0, <2>1, <2>3, <2>5, <3>5
      <4>2. g[i] = f[i]
        BY <2>6, <3>5
      <4>3. i # 0 => g[i - 1] = f[i - 1] /\ current_slot'[i - 1] = current_slot[i - 1]
        BY <2>4, <2>6, <3>2, <3>5
      <4> QED  BY <2>1, <3>1, <3>5, <4>1, <4>2, <4>3
    <3> QED  BY <3>3, <3>4, <3>5
  <2>8. IsAhead(g)'
    BY <2>6, <2>7 DEF IsAhead
  <2>9. ASSUME NEW i \in Layer, NEW s \in Slot, NEW t \in slots'[i][s]
        PROVE  OnTime(i, left'[t], g[i] + Dist(current_slot'[i], s, Over(t, i)') * T[i], rounds'[t])
    <3>1. Over(t, i)' = FALSE /\ Over(t, i) = (i = layer)
      BY <2>1 DEF Over, InSlot
    <3>2. OnTime(i, left[t], f[i] + Dist(current_slot[i], s, Over(t, i)) * T[i], rounds[t])
      BY <1>4, <2>1 DEF AllOnTime
    <3>3. CASE i = layer
      <4>1. PICK D \in Nat, w \in Nat : D = Dist(c, s, TRUE) /\ w = T[i]
        BY <2>2, DistNumbers, TickNumbers
      <4>2. Dist(current_slot'[i], s, FALSE) = D - 1
        BY <2>2, <2>4, <3>3, <4>1, AdvanceDist
      <4>3. 0 + D * w = w + (D - 1) * w
        OBVIOUS
      <4>4. f[i] + Dist(current_slot[i], s, Over(t, i)) * T[i] = 0 + D * w
        BY <2>2, <2>5, <3>1, <3>3, <4>1
      <4>5. g[i] + Dist(current_slot'[i], s, Over(t, i)') * T[i] = w + (D - 1) * w
        BY <2>6, <3>1, <3>3, <4>1, <4>2
      <4> QED  BY <2>1, <3>2, <4>3, <4>4, <4>5
    <3>4. CASE i # layer
      <4>1. Over(t, i) = FALSE /\ current_slot'[i] = current_slot[i] /\ g[i] = f[i]
        BY <2>4, <2>6, <3>1, <3>4
      <4> QED  BY <2>1, <3>1, <3>2, <4>1
    <3> QED  BY <3>3, <3>4
  <2> QED  BY <1>3, <1>7, <2>1, <2>8, <2>9 DEF WheelTiming
<1> QED
  BY <1>9, <1>10, <1>11, <1>12, <1>13, <1>14, <1>15, <1>18, <1>19, <1>20, <1>21, <1>22, <1>23, <1>24
     DEF WheelNext, ThreadStep
-----------------------------------------------------------------------------
\* The constructor.
LEMMA WheelStarts ==
  ASSUME WheelAssumption, WheelInit
  PROVE  WheelInv
<1>0. /\ 0 \in Layer /\ 0 \in Slot /\ Tick \in Nat \ {0} /\ LateCap \in Nat
      /\ Size \in Nat \ {0, 1} /\ Slot = 0..(Size - 1)
  BY TickNumbers, WheelNumbers
<1>1. WheelTypeOK
  <2>1. \A t \in Timer : left[t] >= 0 - LateCap /\ \E d \in Delay \cup {0} : left[t] <= d
    <3>1. 0 >= 0 - LateCap /\ 0 <= 0 /\ 0 \in Delay \cup {0}
      BY <1>0
    <3> QED  BY <3>1 DEF WheelInit
  <2>2. phase \in 0..Tick
    BY <1>0 DEF WheelInit
  <2>3. slots \in [Layer -> [Slot -> SUBSET Timer]] /\ current_slot \in [Layer -> Slot]
    BY <1>0 DEF WheelInit
  <2>4. left \in [Timer -> Int] /\ interval \in [Timer -> Delay \cup {0}] /\ rounds \in [Timer -> Nat]
    BY DEF WheelInit
  <2>5. /\ pauses \in Pauses /\ cancelled \subseteq Timer /\ known \subseteq Timer /\ dropped \subseteq Timer
        /\ running \in BOOLEAN /\ pc = "off" /\ layer \in Layer
        /\ hand \in Timer \cup {NoTimer} /\ passed \subseteq Timer
    BY <1>0 DEF WheelInit
  <2> QED  BY <2>1, <2>2, <2>3, <2>4, <2>5 DEF WheelTypeOK
<1>2. Single
  BY DEF Single, WheelInit
<1>3. WheelControl
  BY DEF WheelControl, WheelInit, Pending, InSlot
<1>4. WheelTiming
  <2>1. PICK f \in [Layer -> Int] : \A i \in Layer : f[i] = T[i] - Tick
    <3>1. [i \in Layer |-> T[i] - Tick] \in [Layer -> Int]
      BY <1>0, TickNumbers
    <3> QED  BY <3>1
  <2>2. ASSUME NEW i \in Layer
        PROVE  f[i] = IF Pending /\ layer = i THEN 0
                      ELSE IF i = 0 THEN phase ELSE f[i - 1] + (Size - 1 - current_slot[i - 1]) * T[i - 1]
    <3>1. ~Pending /\ phase = 0 /\ \A j \in Layer : current_slot[j] = 0
      BY DEF WheelInit, Pending, InSlot
    <3>2. CASE i = 0
      BY <1>0, <2>1, <3>1, <3>2, TickNumbers
    <3>3. CASE i # 0
      <4>1. PICK t \in Nat : t = T[i - 1] /\ T[i] = t * Size /\ i - 1 \in Layer
        BY <3>3, TickNumbers
      <4>2. f[i - 1] = t - Tick /\ current_slot[i - 1] = 0 /\ f[i] = t * Size - Tick
        BY <2>1, <3>1, <4>1
      <4>3. t * Size - Tick = (t - Tick) + (Size - 1 - 0) * t
        BY <1>0
      <4> QED  BY <3>1, <3>3, <4>1, <4>2, <4>3
    <3> QED  BY <3>2, <3>3
  <2>3. IsAhead(f)
    BY <2>1, <2>2 DEF IsAhead
  <2>4. AllOnTime(f)
    BY DEF AllOnTime, WheelInit
  <2> QED  BY <2>3, <2>4 DEF WheelTiming, WheelInit
<1> QED  BY <1>1, <1>2, <1>3, <1>4 DEF WheelInv

\* The inductive invariant.
LEMMA WheelInductive ==
  ASSUME WheelAssumption
  PROVE  WheelSpec => []WheelInv
<1>1. WheelInit => WheelInv
  BY WheelStarts
<1>2. WheelInv /\ [WheelNext]_timerWheelVars => WheelInv'
  BY WheelTypeStep, WheelControlStep, SingleStep, WheelTimingStep DEF WheelInv
<1> QED  BY <1>1, <1>2, PTL DEF WheelSpec

\* How late a timer in the wheel can be.
LEMMA NotLate ==
  ASSUME WheelAssumption, WheelInv, ~pauses, NEW t \in Timer,
         NEW i \in Layer, NEW s \in Slot, t \in slots[i][s]
  PROVE  left[t] >= 0 - T[Layers - 1] - Tick
<1>1. WheelTypeOK /\ WheelControl /\ WheelTiming
  BY DEF WheelInv
<1>2. PICK f : IsAhead(f) /\ AllOnTime(f)
  BY <1>1 DEF WheelTiming
<1>3. f \in [Layer -> Int] /\ 0 <= f[i]
  BY <1>1, <1>2, AheadNumbers
<1>4. PICK a \in Nat, w \in Nat, last \in Nat, one \in Nat :
         a = f[i] /\ w = T[i] /\ w <= last /\ last = T[Layers - 1] /\ one = T[1]
  BY <1>3, TickNumbers
<1>5. PICK y \in Int, r \in Nat : y = left[t] /\ r = rounds[t]
  BY <1>1 DEF WheelTypeOK
<1>6. Tick \in Nat /\ Size \in Nat
  BY WheelNumbers
<1>7. PICK D \in Nat : D = Dist(current_slot[i], s, Over(t, i))
  <2>1. current_slot[i] \in Slot /\ Over(t, i) \in BOOLEAN
    BY <1>1 DEF WheelTypeOK, Over
  <2> QED  BY <2>1, DistNumbers
<1>8. PICK e \in Nat : e = a + D * w
  OBVIOUS
<1>9. OnTime(i, y, e, r)
  <2>1. OnTime(i, left[t], f[i] + Dist(current_slot[i], s, Over(t, i)) * T[i], rounds[t])
    BY <1>2 DEF AllOnTime
  <2> QED  BY <1>4, <1>5, <1>7, <1>8, <2>1
<1>10. y >= 0 - last - Tick
  <2>1. CASE i = 0
    <3>1. PICK n \in Nat : n = r * one
      OBVIOUS
    <3>2. y >= e + n - last - Tick
      BY <1>4, <1>9, <2>1, <3>1 DEF OnTime
    <3> QED  BY <1>6, <3>2
  <2>2. CASE i # 0
    <3>1. PICK n \in Int : n = (IF r = 0 THEN 0 - w ELSE (r - 1) * (w * Size)) /\ n >= 0 - w
      <4>1. CASE r = 0
        BY <4>1
      <4>2. CASE r # 0
        <5>1. PICK k \in Nat, z \in Nat : k = r - 1 /\ z = w * Size
          BY <1>6, <4>2
        <5>2. k * z \in Nat
          OBVIOUS
        <5> QED  BY <4>2, <5>1, <5>2
      <4> QED  BY <4>1, <4>2
    <3>2. y >= e + n
      BY <1>4, <1>9, <2>2, <3>1 DEF OnTime
    <3>3. n >= 0 - w /\ w <= last
      BY <1>4, <3>1
    <3> QED  BY <1>6, <3>2, <3>3
  <2> QED  BY <2>1, <2>2
<1> QED  BY <1>4, <1>5, <1>10

\* TimerWheel, process_slot and cascade: a timer is in one slot of one wheel, and
\* no later than a turn of the wheel below the last one and a tick allow.
THEOREM TimersPlaced == WheelSpec => []WheelSound
<1> USE WheelConstants
<1>1. WheelInv => WheelSound
  <2>1. SUFFICES ASSUME WheelInv PROVE WheelSound
    OBVIOUS
  <2>2. WheelTypeOK /\ Single
    BY <2>1 DEF WheelInv
  <2>3. ASSUME NEW t \in Timer PROVE Cardinality(Places(t)) <= 1
    <3>1. CASE Places(t) = {}
      <4>1. Cardinality({}) = 0
        BY FS_EmptySet
      <4> QED  BY <3>1, <4>1
    <3>2. CASE Places(t) # {}
      <4>1. PICK p : p \in Places(t)
        BY <3>2
      <4>2. ASSUME NEW q \in Places(t) PROVE q = p
        <5>1. /\ p \in Layer \X Slot /\ q \in Layer \X Slot
              /\ t \in slots[p[1]][p[2]] /\ t \in slots[q[1]][q[2]]
          BY <4>1 DEF Places
        <5>2. p[1] = q[1] /\ p[2] = q[2]
          BY <2>2, <5>1 DEF Single
        <5> QED  BY <5>1, <5>2
      <4>3. Places(t) = {p}
        BY <4>1, <4>2
      <4>4. Cardinality({p}) = 1
        BY FS_Singleton
      <4> QED  BY <4>3, <4>4
    <3> QED  BY <3>1, <3>2
  <2>4. ASSUME NEW t \in Timer, ~pauses, InWheel(t) PROVE left[t] >= 0 - TotalMs(Layers - 2) - Tick
    <3>1. PICK i \in Layer, s \in Slot : t \in slots[i][s]
      BY <2>4 DEF InWheel, Places
    <3>2. left[t] >= 0 - T[Layers - 1] - Tick
      BY <2>1, <2>4, <3>1, NotLate
    <3>3. TotalMs(Layers - 2) = T[Layers - 1]
      <4>1. Layers - 1 \in Layer \ {0} /\ (Layers - 1) - 1 = Layers - 2
        BY WheelNumbers, TickNumbers
      <4>2. T[Layers - 1] = T[Layers - 2] * Size
        BY <4>1, TickNumbers
      <4> QED  BY <4>2 DEF TotalMs, T
    <3> QED  BY <3>2, <3>3
  <2>5. OnePlace
    BY <2>3 DEF OnePlace
  <2>6. LatenessBounded
    BY <2>4 DEF LatenessBounded
  <2> QED  BY <2>2, <2>5, <2>6 DEF WheelSound
<1> QED  BY <1>1, WheelInductive, PTL

\* TimerWheel, process_slot: no callback is called a tick or more before its time.
THEOREM TimersNeverEarly == WheelSpec => NeverEarly
<1> USE WheelConstants
<1>1. WheelInv /\ [WheelNext]_timerWheelVars
      => [\A t \in Timer : ~pauses /\ hand = NoTimer /\ hand' = t => left[t] < Tick]_timerWheelVars
  <2>1. SUFFICES ASSUME WheelInv, [WheelNext]_timerWheelVars, NEW t \in Timer, ~pauses, hand = NoTimer, hand' = t
                 PROVE  left[t] < Tick
    OBVIOUS
  <2>2. hand' # hand
    BY <2>1 DEF WheelAssumption
  <2>3. ExpireOnce(t) \/ ExpireRepeat(t)
    <3>1. \E x \in Timer : (ExpireOnce(x) \/ ExpireRepeat(x)) /\ hand' = x
      <4>1. UNCHANGED hand \/ hand' = NoTimer \/ \E x \in Timer : ExpireOnce(x) \/ ExpireRepeat(x)
        BY <2>1 DEF WheelNext, ThreadStep, timerWheelVars, wheelVars, timerVars, threadVars,
             add_timer, cancel_timer, start, stop, Clock, BeginTick,
             SlotDone, UpdateMap, Callback, Advance, Cascade, ThreadEnds, WaitARound,
             RemoveCancelled
      <4> QED  BY <2>1, <2>2, <4>1 DEF ExpireOnce, ExpireRepeat
    <3> QED  BY <2>1, <3>1
  <2>4. /\ pc = "slot" /\ rounds[t] = 0 /\ t \in slots[0][current_slot[0]] /\ t \notin passed
    BY <2>3 DEF ExpireOnce, ExpireRepeat, Due
  <2>5. WheelTypeOK /\ WheelControl /\ WheelTiming
    BY <2>1 DEF WheelInv
  <2>6. PICK f : IsAhead(f) /\ AllOnTime(f)
    BY <2>5 DEF WheelTiming
  <2>7. 0 \in Layer /\ current_slot[0] \in Slot /\ left[t] \in Int /\ Tick \in Nat
    BY <2>5, TickNumbers, WheelNumbers DEF WheelTypeOK
  <2>8. layer = 0 /\ f[0] = 0
    <3>1. Pending /\ InSlot
      BY <2>4 DEF Pending, InSlot
    <3>2. layer = 0
      BY <2>5, <3>1 DEF WheelControl
    <3> QED  BY <2>5, <2>6, <3>1, <3>2, AheadNumbers
  <2>9. Dist(current_slot[0], current_slot[0], Over(t, 0)) = 0
    <3>1. Over(t, 0) = FALSE
      BY <2>4 DEF Over
    <3> QED  BY <2>7, <3>1, DistNumbers
  <2>10. OnTime(0, left[t], f[0] + Dist(current_slot[0], current_slot[0], Over(t, 0)) * T[0], rounds[t])
    BY <2>4, <2>6, <2>7 DEF AllOnTime
  <2>11. PICK tick \in Nat, one \in Nat : tick = T[0] /\ one = T[1]
    BY <2>7, TickNumbers
  <2>12. left[t] < (0 + 0 * tick) + 0 * one + Tick
    BY <2>4, <2>8, <2>9, <2>10, <2>11 DEF OnTime
  <2> QED  BY <2>7, <2>11, <2>12
<1> QED  BY <1>1, WheelInductive, PTL DEF WheelSpec, NeverEarly
=============================================================================
