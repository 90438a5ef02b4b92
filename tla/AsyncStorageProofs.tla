------------------------- MODULE AsyncStorageProofs -------------------------
(***************************************************************************)
(* For every set of workers, callers and calls and every max_queue_size:   *)
(* the queue of AsyncStorage keeps its bound, and the adapter implements   *)
(* Executor.                                                               *)
(***************************************************************************)
EXTENDS AsyncStorage, TLAPS

\* Who holds a task, when stopping_ is set, when a worker may have left
\* worker_loop, and that a worker is inside enqueue only from a callback.
ControlInv ==
    /\ stopping <=> owner # "alive"
    /\ owner = "destroyed" => \A w \in Worker : wpc[w] = "exited"
    /\ \A w \in Worker :
          /\ wpc[w] = "exited" => stopping /\ tasks = <<>>
          /\ cur[w] # NoTask <=> wpc[w] \in {"popped", "running", "again"}
          /\ epc[w] # "none" => wpc[w] \in {"running", "again"}

\* Callers enqueue different calls, which nobody has accepted or refused.
OfferedOnce ==
    /\ \A c, d \in Caller : offered[c] = offered[d] /\ offered[c] # NoTask => c = d
    /\ \A c \in Caller : offered[c] # NoTask => fate[offered[c]] = "offered"

\* An accepted call is in the queue once, or with one worker, until it is done.
HeldOnce ==
    /\ \A i, j \in 1..Len(tasks) : tasks[i] = tasks[j] => i = j
    /\ \A v, w \in Worker : cur[v] = cur[w] /\ cur[v] # NoTask => v = w
    /\ \A t \in Task :
          /\ ~(Queued(t) /\ Running(t))
          /\ fate[t] = "accepted" <=> Queued(t) \/ Running(t)

IInv == QueueSound /\ ControlInv /\ OfferedOnce /\ HeldOnce

-----------------------------------------------------------------------------
\* The adapter as it is made.
LEMMA InitSound == Init => IInv
<1> SUFFICES ASSUME Init PROVE IInv
  OBVIOUS
<1>1. tasks \in Seq(Task) /\ Len(tasks) = 0 /\ maxQueueSize \in Nat
  BY StorageAssumption DEF Init
<1>2. stopping \in BOOLEAN
  BY DEF Init
<1>3. TypeOK
  BY <1>1, <1>2 DEF Init, TypeOK, Caller
<1>4. ControlInv
  BY DEF Init, ControlInv, Caller
<1>5. OfferedOnce
  BY DEF Init, OfferedOnce
<1>6. HeldOnce
  BY <1>1, StorageAssumption DEF Init, HeldOnce, Queued, Running
<1> QED  BY <1>1, <1>3, <1>4, <1>5, <1>6 DEF IInv, QueueSound, Bounded

\* A call that is being enqueued is a call.
LEMMA OfferIsTask ==
  ASSUME TypeOK, NEW c \in Caller, epc[c] = "check"
  PROVE  offered[c] \in Task
BY DEF TypeOK

\* The workers are callers.
LEMMA WorkersCall == \A w \in Worker : w \in Caller
BY DEF Caller

-----------------------------------------------------------------------------
\* Every step keeps the types.
LEMMA TypeStep == TypeOK /\ [Next]_vars => TypeOK'
<1> SUFFICES ASSUME TypeOK, [Next]_vars PROVE TypeOK'
  OBVIOUS
<1> USE StorageAssumption, WorkersCall DEF TypeOK, workerVars, enqueueVars
<1>1. ASSUME NEW c \in Caller, NEW t \in Task, Offer(c, t) PROVE TypeOK'
  BY <1>1 DEF Offer
<1>2. ASSUME NEW c \in Caller, Refuse(c) PROVE TypeOK'
  BY <1>2, OfferIsTask DEF Refuse
<1>3. ASSUME NEW c \in Caller, BlockFull(c) PROVE TypeOK'
  BY <1>3 DEF BlockFull
<1>4. ASSUME NEW c \in Caller, Push(c) PROVE TypeOK'
  <2>1. offered[c] \in Task
    BY <1>4, OfferIsTask DEF Push
  <2>2. tasks' \in Seq(Task)
    BY <1>4, <2>1 DEF Push
  <2>3. QED  BY <1>4, <2>1, <2>2 DEF Push
<1>5. ASSUME NEW c \in Caller, NotifyPushed(c) PROVE TypeOK'
  BY <1>5 DEF NotifyPushed, WakeWorker, WaitingWorkers, Blocked
<1>6. ASSUME NEW w \in Worker, Take(w) PROVE TypeOK'
  <2>1. Head(tasks) \in Task /\ Tail(tasks) \in Seq(Task)
    BY <1>6 DEF Take
  <2>2. QED  BY <1>6, <2>1 DEF Take
<1>7. ASSUME NEW w \in Worker, NotifyPopped(w) PROVE TypeOK'
  BY <1>7 DEF NotifyPopped, WakeCaller, WaitingWorkers, Blocked
<1>8. ASSUME NEW w \in Worker, Finish(w) PROVE TypeOK'
  BY <1>8 DEF Finish
<1>9. ASSUME NEW w \in Worker, CallbackThrows(w) \/ Wait(w) \/ Exit(w) PROVE TypeOK'
  BY <1>9 DEF CallbackThrows, Wait, Exit
<1>10. CASE SpuriousWakeup
  BY <1>10 DEF SpuriousWakeup, WakeWorker, WakeCaller, WaitingWorkers, Blocked
<1>11. CASE BeginDestroy
  <2>1. stopping' \in BOOLEAN
    BY <1>11 DEF BeginDestroy
  <2>2. QED  BY <1>11, <2>1 DEF BeginDestroy
<1>12. CASE notify_all
  BY <1>12 DEF notify_all, WaitingWorkers, Blocked
<1>13. CASE Join
  BY <1>13 DEF Join
<1>14. CASE UNCHANGED vars
  BY <1>14 DEF vars
<1> QED
  BY <1>1, <1>2, <1>3, <1>4, <1>5, <1>6, <1>7, <1>8, <1>9, <1>10, <1>11,
     <1>12, <1>13, <1>14
  DEF Next, WorkerStep, EnqueueStep, Call, CallFromCallback, Destroyed, Caller

\* The bound: only Push lets the queue grow, after it has looked at its length
\* in the same critical section, however many producers were woken.
LEMMA BoundStep == IInv /\ [Next]_vars => Bounded'
<1> SUFFICES ASSUME IInv, [Next]_vars PROVE Bounded'
  OBVIOUS
<1>0. /\ maxQueueSize \in Nat /\ Len(tasks) \in Nat
      /\ tasks \in Seq(Task)
      /\ maxQueueSize > 0 => Len(tasks) <= maxQueueSize
  BY StorageAssumption DEF IInv, QueueSound, TypeOK, Bounded
<1>1. ASSUME NEW c \in Caller, Push(c) PROVE Bounded'
  <2>1. offered[c] \in Task
    BY <1>1, OfferIsTask DEF Push, IInv, QueueSound
  <2>2. Len(tasks') = Len(tasks) + 1
    BY <1>0, <1>1, <2>1 DEF Push
  <2>3. QED  BY <1>0, <1>1, <2>2 DEF Push, Full, Bounded
<1>2. ASSUME NEW w \in Worker, Take(w) PROVE Bounded'
  <2>1. Len(tasks') = Len(tasks) - 1
    BY <1>0, <1>2 DEF Take
  <2>2. QED  BY <1>0, <1>2, <2>1 DEF Take, Bounded
<1>3. ASSUME UNCHANGED <<tasks, maxQueueSize>> PROVE Bounded'
  BY <1>0, <1>3 DEF Bounded
<1> QED
  BY <1>1, <1>2, <1>3
  DEF Next, vars, WorkerStep, EnqueueStep, Call, CallFromCallback, Offer, Refuse,
      BlockFull, NotifyPushed, NotifyPopped, Finish, CallbackThrows, Wait, Exit, SpuriousWakeup,
      BeginDestroy, notify_all, Join, Destroyed

\* Every step keeps ControlInv.
LEMMA ControlStep == IInv /\ [Next]_vars => ControlInv'
<1> SUFFICES ASSUME IInv, [Next]_vars PROVE ControlInv'
  OBVIOUS
<1> USE StorageAssumption, WorkersCall
    DEF IInv, QueueSound, TypeOK, ControlInv, workerVars, enqueueVars
<1>1. ASSUME NEW c \in Client, NEW t \in Task, Call(c, t) PROVE ControlInv'
  BY <1>1 DEF Call, Offer, Caller
<1>2. ASSUME NEW w \in Worker, NEW t \in Task, CallFromCallback(w, t)
      PROVE  ControlInv'
  BY <1>2 DEF CallFromCallback, Offer
<1>3. ASSUME NEW c \in Caller, Refuse(c) \/ BlockFull(c) PROVE ControlInv'
  BY <1>3 DEF Refuse, BlockFull
<1>4. ASSUME NEW c \in Caller, Push(c) PROVE ControlInv'
  BY <1>4 DEF Push
<1>5. ASSUME NEW c \in Caller, NotifyPushed(c) PROVE ControlInv'
  BY <1>5 DEF NotifyPushed, WakeWorker, WaitingWorkers, Blocked
<1>6. ASSUME NEW w \in Worker, Take(w) PROVE ControlInv'
  <2>1. Head(tasks) \in Task
    BY <1>6 DEF Take
  <2>2. QED  BY <1>6, <2>1 DEF Take
<1>7. ASSUME NEW w \in Worker, NotifyPopped(w) PROVE ControlInv'
  BY <1>7 DEF NotifyPopped, WakeCaller, WaitingWorkers, Blocked
<1>8. ASSUME NEW w \in Worker, Finish(w) \/ CallbackThrows(w) \/ Wait(w) \/ Exit(w) PROVE ControlInv'
  BY <1>8 DEF Finish, CallbackThrows, Wait, Exit
<1>9. CASE SpuriousWakeup
  BY <1>9 DEF SpuriousWakeup, WakeWorker, WakeCaller, WaitingWorkers, Blocked
<1>10. CASE BeginDestroy \/ Join
  BY <1>10 DEF BeginDestroy, Join
<1>11. CASE notify_all
  BY <1>11 DEF notify_all, WaitingWorkers, Blocked
<1>12. CASE UNCHANGED vars
  BY <1>12 DEF vars
<1> QED
  BY <1>1, <1>2, <1>3, <1>4, <1>5, <1>6, <1>7, <1>8, <1>9, <1>10, <1>11, <1>12
  DEF Next, WorkerStep, EnqueueStep, Destroyed

\* Every step keeps OfferedOnce.
LEMMA OfferStep == IInv /\ [Next]_vars => OfferedOnce'
<1> SUFFICES ASSUME IInv, [Next]_vars PROVE OfferedOnce'
  OBVIOUS
<1> USE StorageAssumption DEF IInv, QueueSound, TypeOK, OfferedOnce, workerVars, enqueueVars
<1>1. ASSUME NEW c \in Caller, NEW t \in Task, Offer(c, t) PROVE OfferedOnce'
  BY <1>1 DEF Offer
<1>2. ASSUME NEW c \in Caller, Refuse(c) PROVE OfferedOnce'
  BY <1>2, OfferIsTask DEF Refuse
<1>3. ASSUME NEW c \in Caller, Push(c) PROVE OfferedOnce'
  BY <1>3, OfferIsTask DEF Push
<1>4. ASSUME NEW w \in Worker, Finish(w) PROVE OfferedOnce'
  <2>1. cur[w] \in Task /\ fate[cur[w]] = "accepted"
    BY <1>4 DEF Finish, ControlInv, HeldOnce, Running
  <2>2. QED  BY <1>4, <2>1 DEF Finish
<1>5. ASSUME UNCHANGED <<offered, fate>> PROVE OfferedOnce'
  BY <1>5
<1> QED
  BY <1>1, <1>2, <1>3, <1>4, <1>5
  DEF Next, vars, WorkerStep, EnqueueStep, Call, CallFromCallback, Caller, BlockFull,
      NotifyPushed, NotifyPopped, Take, CallbackThrows, Wait, Exit, SpuriousWakeup, BeginDestroy,
      notify_all, Join, Destroyed

-----------------------------------------------------------------------------
\* tasks_.push(t) adds t, and only t, to the queued calls.
LEMMA PushQueued ==
  ASSUME TypeOK, NEW t \in Task, tasks' = Append(tasks, t)
  PROVE  \A u \in Task : Queued(u)' <=> Queued(u) \/ u = t
<1>1. /\ Len(tasks') = Len(tasks) + 1
      /\ \A i \in 1..Len(tasks) : tasks'[i] = tasks[i]
      /\ tasks'[Len(tasks) + 1] = t
      /\ Len(tasks) \in Nat
  BY DEF TypeOK
<1> QED  BY <1>1 DEF Queued

\* tasks_.pop() removes the head, and only the head: no call is queued twice.
LEMMA TakeQueued ==
  ASSUME TypeOK, HeldOnce, tasks # <<>>, tasks' = Tail(tasks)
  PROVE  \A u \in Task : Queued(u)' <=> Queued(u) /\ u # Head(tasks)
<1>1. /\ Len(tasks) \in Nat \ {0}
      /\ Len(tasks') = Len(tasks) - 1
      /\ \A i \in 1..Len(tasks') : tasks'[i] = tasks[i + 1]
      /\ Head(tasks) = tasks[1]
  BY DEF TypeOK
<1>2. \A i, j \in 1..Len(tasks) : tasks[i] = tasks[j] => i = j
  BY DEF HeldOnce
<1> SUFFICES ASSUME NEW u \in Task
             PROVE  Queued(u)' <=> Queued(u) /\ u # Head(tasks)
  OBVIOUS
<1>3. ASSUME Queued(u)' PROVE Queued(u) /\ u # Head(tasks)
  <2>1. PICK i \in 1..Len(tasks') : tasks'[i] = u
    BY <1>3 DEF Queued
  <2>2. i + 1 \in 1..Len(tasks) /\ tasks[i + 1] = u /\ i + 1 # 1
    BY <1>1, <2>1
  <2> QED  BY <1>1, <1>2, <2>2 DEF Queued
<1>4. ASSUME Queued(u), u # Head(tasks) PROVE Queued(u)'
  <2>1. PICK i \in 1..Len(tasks) : tasks[i] = u
    BY <1>4 DEF Queued
  <2>2. i - 1 \in 1..Len(tasks') /\ tasks'[i - 1] = u
    BY <1>1, <1>4, <2>1
  <2> QED  BY <2>2 DEF Queued
<1> QED  BY <1>3, <1>4

\* Every step keeps HeldOnce.
LEMMA HeldStep == IInv /\ [Next]_vars => HeldOnce'
<1> SUFFICES ASSUME IInv, [Next]_vars PROVE HeldOnce'
  OBVIOUS
<1> USE StorageAssumption
<1>0. /\ TypeOK /\ HeldOnce
      /\ \A u \in Task : /\ ~(Queued(u) /\ Running(u))
                         /\ fate[u] = "accepted" <=> Queued(u) \/ Running(u)
      /\ \A i, j \in 1..Len(tasks) : tasks[i] = tasks[j] => i = j
      /\ \A v, w \in Worker : cur[v] = cur[w] /\ cur[v] # NoTask => v = w
  BY DEF IInv, QueueSound, HeldOnce
<1>1. ASSUME NEW t \in Task, UNCHANGED <<tasks, cur>>, fate[t] \in {"fresh", "offered"},
             NEW f \in {"offered", "rejected"}, fate' = [fate EXCEPT ![t] = f]
      PROVE  HeldOnce'
  BY <1>0, <1>1 DEF HeldOnce, Queued, Running, TypeOK
<1>2. ASSUME NEW c \in Caller, NEW t \in Task, Offer(c, t) PROVE HeldOnce'
  BY <1>1, <1>2 DEF Offer, workerVars
<1>3. ASSUME NEW c \in Caller, Refuse(c) PROVE HeldOnce'
  <2>1. offered[c] \in Task /\ fate[offered[c]] = "offered"
    BY <1>0, <1>3, OfferIsTask DEF IInv, OfferedOnce, Refuse
  <2>2. QED  BY <1>1, <1>3, <2>1 DEF Refuse, workerVars
<1>4. ASSUME NEW c \in Caller, Push(c) PROVE HeldOnce'
  <2> DEFINE t == offered[c]
  <2>1. t \in Task /\ fate[t] = "offered"
    BY <1>0, <1>4, OfferIsTask DEF IInv, OfferedOnce, Push
  <2>2. /\ tasks' = Append(tasks, t) /\ cur' = cur
        /\ fate' = [fate EXCEPT ![t] = "accepted"]
    BY <1>4 DEF Push, workerVars
  <2>3. ~Queued(t) /\ ~Running(t)
    BY <1>0, <2>1
  <2>4. \A u \in Task : Queued(u)' <=> Queued(u) \/ u = t
    BY <1>0, <2>1, <2>2, PushQueued
  <2>5. \A u \in Task : Running(u)' <=> Running(u)
    BY <2>2 DEF Running
  <2>6. \A i, j \in 1..Len(tasks') : tasks'[i] = tasks'[j] => i = j
    <3>1. /\ Len(tasks') = Len(tasks) + 1
          /\ \A i \in 1..Len(tasks) : tasks'[i] = tasks[i]
          /\ tasks'[Len(tasks) + 1] = t
          /\ Len(tasks) \in Nat
      BY <1>0, <2>1, <2>2 DEF TypeOK
    <3>2. \A i \in 1..Len(tasks) : tasks[i] # t
      BY <2>3 DEF Queued
    <3> QED  BY <1>0, <3>1, <3>2
  <2>7. \A u \in Task : fate'[u] = "accepted" <=> fate[u] = "accepted" \/ u = t
    BY <1>0, <2>1, <2>2 DEF TypeOK
  <2> QED
    BY <1>0, <2>2, <2>3, <2>4, <2>5, <2>6, <2>7 DEF HeldOnce
<1>5. ASSUME NEW w \in Worker, Take(w) PROVE HeldOnce'
  <2> DEFINE h == Head(tasks)
  <2>1. /\ tasks # <<>> /\ tasks' = Tail(tasks)
        /\ cur' = [cur EXCEPT ![w] = h] /\ fate' = fate
        /\ cur[w] = NoTask
    BY <1>5 DEF Take, IInv, ControlInv
  <2>2. h \in Task /\ Queued(h)
    BY <1>0, <2>1 DEF TypeOK, Queued
  <2>3. ~Running(h)
    BY <1>0, <2>2
  <2>4. \A u \in Task : Queued(u)' <=> Queued(u) /\ u # h
    BY <1>0, <2>1, TakeQueued
  <2>5. \A u \in Task : Running(u)' <=> Running(u) \/ u = h
    BY <1>0, <2>1, <2>2 DEF Running, TypeOK
  <2>6. \A i, j \in 1..Len(tasks') : tasks'[i] = tasks'[j] => i = j
    <3>1. /\ Len(tasks) \in Nat \ {0}
          /\ Len(tasks') = Len(tasks) - 1
          /\ \A i \in 1..Len(tasks') : tasks'[i] = tasks[i + 1]
      BY <1>0, <2>1 DEF TypeOK
    <3> QED  BY <1>0, <3>1
  <2>7. \A v, x \in Worker : cur'[v] = cur'[x] /\ cur'[v] # NoTask => v = x
    BY <1>0, <2>1, <2>3 DEF Running, TypeOK
  <2> QED
    BY <1>0, <2>1, <2>2, <2>3, <2>4, <2>5, <2>6, <2>7 DEF HeldOnce
<1>6. ASSUME NEW w \in Worker, Finish(w) PROVE HeldOnce'
  <2> DEFINE t == cur[w]
  <2>1. /\ tasks' = tasks /\ cur' = [cur EXCEPT ![w] = NoTask]
        /\ fate' = [fate EXCEPT ![t] = "done"]
        /\ t \in Task
    BY <1>0, <1>6 DEF Finish, TypeOK, IInv, ControlInv
  <2>2. \A u \in Task : Queued(u)' <=> Queued(u)
    BY <2>1 DEF Queued
  <2>3. Running(t)
    BY <2>1 DEF Running
  <2>4. \A u \in Task : Running(u)' <=> Running(u) /\ u # t
    BY <1>0, <2>1 DEF Running, TypeOK
  <2>5. \A v, x \in Worker : cur'[v] = cur'[x] /\ cur'[v] # NoTask => v = x
    BY <1>0, <2>1 DEF TypeOK
  <2>6. \A u \in Task : fate'[u] = "accepted" <=> fate[u] = "accepted" /\ u # t
    BY <1>0, <2>1 DEF TypeOK
  <2> QED
    BY <1>0, <2>1, <2>2, <2>3, <2>4, <2>5, <2>6 DEF HeldOnce
<1>7. ASSUME UNCHANGED <<tasks, cur, fate>> PROVE HeldOnce'
  BY <1>0, <1>7 DEF HeldOnce, Queued, Running
<1> QED
  BY <1>2, <1>3, <1>4, <1>5, <1>6, <1>7
  DEF Next, vars, workerVars, WorkerStep, EnqueueStep, Call, CallFromCallback, Caller,
      BlockFull, NotifyPushed, NotifyPopped, CallbackThrows, Wait, Exit, SpuriousWakeup, BeginDestroy,
      notify_all, Join, Destroyed

\* IInv holds in every reachable state.
THEOREM Inductive == Spec => []IInv
<1>1. IInv /\ [Next]_vars => IInv'
  BY TypeStep, BoundStep, ControlStep, OfferStep, HeldStep DEF IInv, QueueSound
<1> QED  BY InitSound, <1>1, PTL DEF Spec

\* The queue never outgrows max_queue_size, whatever the number of producers
\* that one notify or a spurious wakeup lets go on together.
THEOREM QueueBounded == Spec => []QueueSound
<1>1. IInv => QueueSound
  BY DEF IInv
<1> QED  BY Inductive, <1>1, PTL

-----------------------------------------------------------------------------
\* A step that moves no call of the adapter moves none of the executor.
LEMMA StateUnchanged ==
  ASSUME UNCHANGED <<tasks, cur, fate>>
  PROVE  ExecutorState' = ExecutorState
BY DEF ExecutorState, Queued, Running

\* Each async_* call is accepted or refused once, an accepted one runs once, and
\* ~AsyncStorageAdapter returns only when the accepted ones are done.
THEOREM AdapterImplementsExecutor == Spec => ImplementsExecutor
<1>1. Init => Exec!Init
  <2> SUFFICES ASSUME Init PROVE Exec!Init
    OBVIOUS
  <2>1. \A t \in Task : ~Running(t) /\ ~Queued(t) /\ fate[t] = "fresh"
    BY StorageAssumption DEF Init, Queued, Running
  <2> QED  BY <2>1 DEF Init, Exec!Init, ExecutorState, ExecutorPhase
<1>2. IInv /\ [Next]_vars => [Exec!Next]_(Exec!vars)
  <2> SUFFICES ASSUME IInv, [Next]_vars PROVE Exec!Next \/ UNCHANGED Exec!vars
    OBVIOUS
  <2> USE StorageAssumption
  <2>0. /\ TypeOK /\ HeldOnce
        /\ \A u \in Task : /\ ~(Queued(u) /\ Running(u))
                           /\ fate[u] = "accepted" <=> Queued(u) \/ Running(u)
    BY DEF IInv, QueueSound, HeldOnce
  <2>1. ASSUME NEW c \in Caller, NEW t \in Task, Offer(c, t)
        PROVE  UNCHANGED Exec!vars
    <3>1. \A u \in Task : (Running(u)' <=> Running(u)) /\ (Queued(u)' <=> Queued(u))
      BY <2>1 DEF Offer, workerVars, Running, Queued
    <3>2. fate[t] = "fresh" /\ fate' = [fate EXCEPT ![t] = "offered"] /\ owner' = owner
      BY <2>1 DEF Offer
    <3>3. ExecutorState' = ExecutorState
      BY <2>0, <3>1, <3>2 DEF ExecutorState, TypeOK
    <3> QED  BY <3>2, <3>3 DEF Exec!vars, ExecutorPhase
  <2>2. ASSUME NEW c \in Caller, Refuse(c), owner # "destroyed"
        PROVE  \E t \in Task : Exec!Reject(t)
    <3> DEFINE t == offered[c]
    <3>1. t \in Task /\ fate[t] = "offered"
      BY <2>0, <2>2, OfferIsTask DEF IInv, OfferedOnce, Refuse
    <3>2. /\ UNCHANGED <<tasks, cur, owner>>
          /\ fate' = [fate EXCEPT ![t] = "rejected"]
      BY <2>2 DEF Refuse, workerVars
    <3>3. \A u \in Task : (Running(u)' <=> Running(u)) /\ (Queued(u)' <=> Queued(u))
      BY <3>2 DEF Running, Queued
    <3>4. ExecutorState[t] = "fresh" /\ ~Running(t) /\ ~Queued(t)
      BY <2>0, <3>1 DEF ExecutorState
    <3>5. ExecutorState' = [ExecutorState EXCEPT ![t] = "rejected"]
      BY <2>0, <3>1, <3>2, <3>3, <3>4 DEF ExecutorState, TypeOK
    <3>6. ExecutorPhase # "closed" /\ ExecutorPhase' = ExecutorPhase
      BY <2>2, <3>2 DEF ExecutorPhase
    <3> QED  BY <3>1, <3>4, <3>5, <3>6 DEF Exec!Reject, Exec!Move
  <2>3. ASSUME NEW c \in Caller, Push(c) PROVE \E t \in Task : Exec!Accept(t)
    <3> DEFINE t == offered[c]
    <3>1. t \in Task /\ fate[t] = "offered"
      BY <2>0, <2>3, OfferIsTask DEF IInv, OfferedOnce, Push
    <3>2. /\ tasks' = Append(tasks, t) /\ UNCHANGED <<cur, owner>>
          /\ fate' = [fate EXCEPT ![t] = "accepted"]
          /\ owner = "alive"
      BY <2>3 DEF Push, workerVars, IInv, ControlInv
    <3>3. \A u \in Task : Running(u)' <=> Running(u)
      BY <3>2 DEF Running
    <3>4. \A u \in Task : Queued(u)' <=> Queued(u) \/ u = t
      BY <2>0, <3>1, <3>2, PushQueued
    <3>5. ExecutorState[t] = "fresh" /\ ~Running(t) /\ ~Queued(t)
      BY <2>0, <3>1 DEF ExecutorState
    <3>6. ExecutorState' = [ExecutorState EXCEPT ![t] = "queued"]
      BY <2>0, <3>1, <3>2, <3>3, <3>4, <3>5 DEF ExecutorState, TypeOK
    <3>7. ExecutorPhase = "open" /\ ExecutorPhase' = ExecutorPhase
      BY <3>2 DEF ExecutorPhase
    <3> QED  BY <3>1, <3>5, <3>6, <3>7 DEF Exec!Accept, Exec!Move
  <2>4. ASSUME NEW w \in Worker, Take(w) PROVE \E t \in Task : Exec!Start(t)
    <3> DEFINE h == Head(tasks)
    <3>1. /\ tasks # <<>> /\ tasks' = Tail(tasks)
          /\ cur' = [cur EXCEPT ![w] = h]
          /\ UNCHANGED <<fate, owner>>
          /\ cur[w] = NoTask /\ owner # "destroyed"
      BY <2>4 DEF Take, IInv, ControlInv
    <3>2. h \in Task /\ Queued(h)
      BY <2>0, <3>1 DEF TypeOK, Queued
    <3>3. \A u \in Task : Queued(u)' <=> Queued(u) /\ u # h
      BY <2>0, <3>1, TakeQueued
    <3>4. \A u \in Task : Running(u)' <=> Running(u) \/ u = h
      BY <2>0, <3>1, <3>2 DEF Running, TypeOK
    <3>5. ExecutorState' = [ExecutorState EXCEPT ![h] = "running"]
      BY <3>1, <3>2, <3>3, <3>4 DEF ExecutorState
    <3>6. ExecutorState[h] = "queued"
      BY <2>0, <3>2 DEF ExecutorState
    <3>7. ExecutorPhase # "closed" /\ ExecutorPhase' = ExecutorPhase
      BY <3>1 DEF ExecutorPhase
    <3> QED  BY <3>2, <3>5, <3>6, <3>7 DEF Exec!Start, Exec!Move
  <2>5. ASSUME NEW w \in Worker, Finish(w) PROVE \E t \in Task : Exec!Finish(t)
    <3>1. PICK t \in Task : t = cur[w]
      BY <2>0, <2>5 DEF Finish, IInv, ControlInv, TypeOK
    <3>2. /\ tasks' = tasks /\ cur' = [cur EXCEPT ![w] = NoTask]
          /\ fate' = [fate EXCEPT ![t] = "done"]
          /\ owner' = owner /\ owner # "destroyed"
      BY <2>5, <3>1 DEF Finish, IInv, ControlInv
    <3>3. Running(t) /\ ~Queued(t)
      BY <2>0, <3>1 DEF Running
    <3>4. \A u \in Task : Queued(u)' <=> Queued(u)
      BY <3>2 DEF Queued
    <3>5. \A u \in Task : Running(u)' <=> Running(u) /\ u # t
      BY <2>0, <3>1, <3>2 DEF HeldOnce, Running, TypeOK
    <3>6. fate'[t] = "done" /\ \A u \in Task : u # t => fate'[u] = fate[u]
      BY <2>0, <3>2 DEF TypeOK
    <3>7. ExecutorState' = [ExecutorState EXCEPT ![t] = "done"]
      BY <3>3, <3>4, <3>5, <3>6 DEF ExecutorState
    <3>8. ExecutorState[t] = "running"
      BY <3>3 DEF ExecutorState
    <3>9. ExecutorPhase # "closed" /\ ExecutorPhase' = ExecutorPhase
      BY <3>2 DEF ExecutorPhase
    <3> QED  BY <3>7, <3>8, <3>9 DEF Exec!Finish, Exec!Move
  <2>6. ASSUME BeginDestroy PROVE Exec!Close
    BY <2>6, StateUnchanged DEF BeginDestroy, workerVars, Exec!Close, ExecutorPhase
  <2>7. ASSUME Join PROVE Exec!Terminate
    <3>1. \A w \in Worker : cur[w] = NoTask
      BY <2>7 DEF Join, IInv, ControlInv
    <3>2. tasks = <<>>
      BY <2>7 DEF Join, IInv, ControlInv
    <3>3. \A t \in Task : ~Queued(t) /\ ~Running(t)
      BY <3>1, <3>2 DEF Queued, Running
    <3>4. \A t \in Task : ExecutorState[t] \notin {"queued", "running"}
      BY <2>0, <3>3 DEF ExecutorState, TypeOK
    <3>5. ExecutorState' = ExecutorState
      BY <2>7, StateUnchanged DEF Join, workerVars
    <3> QED  BY <2>7, <3>4, <3>5 DEF Join, Exec!Terminate, ExecutorPhase
  <2>8. ASSUME UNCHANGED <<tasks, cur, fate>>, ExecutorPhase' = ExecutorPhase
        PROVE  UNCHANGED Exec!vars
    BY <2>8, StateUnchanged DEF Exec!vars
  <2>9. ASSUME NEW c \in Caller, BlockFull(c) \/ NotifyPushed(c)
        PROVE  UNCHANGED Exec!vars
    BY <2>8, <2>9 DEF BlockFull, NotifyPushed, ExecutorPhase, workerVars
  <2>10. ASSUME NEW w \in Worker, NotifyPopped(w) \/ CallbackThrows(w) \/ Wait(w) \/ Exit(w)
         PROVE  UNCHANGED Exec!vars
    BY <2>8, <2>10 DEF NotifyPopped, CallbackThrows, Wait, Exit, ExecutorPhase
  <2>11. ASSUME SpuriousWakeup \/ notify_all PROVE UNCHANGED Exec!vars
    BY <2>8, <2>11 DEF SpuriousWakeup, notify_all, ExecutorPhase
  <2>12. CASE UNCHANGED vars
    BY <2>8, <2>12 DEF vars, workerVars, ExecutorPhase
  <2>13. ASSUME NEW c \in Caller, owner # "destroyed", EnqueueStep(c)
         PROVE  Exec!Next \/ UNCHANGED Exec!vars
    BY <2>2, <2>3, <2>9, <2>13 DEF EnqueueStep, Exec!Next
  <2>14. ASSUME NEW w \in Worker, WorkerStep(w)
         PROVE  Exec!Next \/ UNCHANGED Exec!vars
    BY <2>4, <2>5, <2>10, <2>14 DEF WorkerStep, Exec!Next
  <2>15. Exec!Close \/ Exec!Terminate => Exec!Next
    BY DEF Exec!Next
  <2> QED
    BY <2>1, <2>6, <2>7, <2>11, <2>12, <2>13, <2>14, <2>15
    DEF Next, Call, CallFromCallback, Caller, Destroyed
<1> QED  BY <1>1, <1>2, Inductive, PTL DEF Spec, ImplementsExecutor, Exec!Spec
=============================================================================
