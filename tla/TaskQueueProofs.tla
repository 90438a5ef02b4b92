--------------------------- MODULE TaskQueueProofs --------------------------
(***************************************************************************)
(* For any number of workers, tasks and priorities and any capacity: the   *)
(* map of TaskQueue tracks exactly its live tasks, its two counters are    *)
(* exact, and it implements the executor that never closes.                *)
(***************************************************************************)
EXTENDS TaskQueue, FiniteSetTheorems, TLAPS

Idle == {"loop", "lock", "prewait", "waiting", "exited"}

\* A task that was accepted is in the queue or in the hands of one worker that
\* has not run it yet; what a worker holds is in no queue and in no other hands;
\* ids are given out in order.
Holding ==
    /\ \A w \in Worker : wpc[w] \in {"taken", "executing"} => fate[cur[w]] = "accepted"
    /\ \A w \in Worker : wpc[w] \in {"uncount", "complete", "erase"} => Finished(cur[w])
    /\ \A w \in Worker : cur[w] \notin queue
    /\ \A v, w \in Worker : cur[v] = cur[w] /\ cur[v] # NoTask => v = w
    /\ \A id \in queue : fate[id] = "accepted"
    /\ \A id \in Id : fate[id] = "accepted" => id \in queue \cup InHand
    /\ \A id \in Id : id >= nextId => fate[id] = "unused"
    /\ \A id \in cancelled : fate[id] # "unused"

\* Between a stop() that has returned and the next start() no worker exists.
StoppedIsQuiet == owner = "stopped" => \A w \in Worker : wpc[w] = "exited"

IInv == BooksAgree /\ Holding /\ StoppedIsQuiet

\* The sets whose sizes the counters are.
Counted == {w \in Worker : wpc[w] \in {"executing", "uncount"}}
Unreported == {w \in Worker : wpc[w] \in {"uncount", "complete"}}
Ended == {id \in Id : Finished(id)}

\* CountersExact in terms of them.
LEMMA Counters ==
  CountersExact <=> /\ runningCount = Cardinality(Counted)
                    /\ completedCount = Cardinality(Ended) - Cardinality(Unreported)
BY DEF CountersExact, Counted, Unreported, Ended

\* They are finite, in every state.
LEMMA Finite ==
  /\ IsFiniteSet(Counted) /\ IsFiniteSet(Unreported) /\ IsFiniteSet(Ended)
  /\ Cardinality(Counted) \in Nat /\ Cardinality(Unreported) \in Nat /\ Cardinality(Ended) \in Nat
<1>1. IsFiniteSet(Id)
  BY QueueAssumption, FS_Interval DEF Id
<1>2. Counted \in SUBSET Worker /\ Unreported \in SUBSET Worker /\ Ended \in SUBSET Id
  BY DEF Counted, Unreported, Ended
<1>3. IsFiniteSet(Counted) /\ IsFiniteSet(Unreported) /\ IsFiniteSet(Ended)
  BY <1>1, <1>2, QueueAssumption, FS_Subset
<1> QED  BY <1>3, FS_CardinalityType

\* A queue that was made and not started.
LEMMA InitSound == Init => IInv
<1> SUFFICES ASSUME Init PROVE IInv
  OBVIOUS
<1> USE QueueAssumption
<1>1. TypeOK
  <2>0. 1 \in 1..(MaxId + 1)
    OBVIOUS
  <2>1. running \in BOOLEAN
    BY DEF Init
  <2>2. \A w \in Worker :
           (cur[w] = NoTask) = (wpc[w] \in {"loop", "lock", "prewait", "waiting", "exited"})
    BY DEF Init
  <2>3. QED  BY <2>0, <2>1, <2>2 DEF Init, TypeOK, WorkerState, OwnerState, Fate, WaiterState
<1>2. InHand = {}
  BY DEF Init, InHand
<1>3. MapTracksLiveTasks
  BY <1>2 DEF Init, MapTracksLiveTasks
<1>4. Counted = {} /\ Unreported = {} /\ Ended = {}
  BY DEF Init, Counted, Unreported, Ended, Finished
<1>5. CountersExact
  BY <1>4, FS_EmptySet, Counters DEF Init
<1>6. Holding /\ StoppedIsQuiet
  BY DEF Init, Holding, StoppedIsQuiet, Finished, Id
<1> QED  BY <1>1, <1>3, <1>5, <1>6 DEF IInv, BooksAgree

-----------------------------------------------------------------------------
(* The steps, by what they change.                                         *)

\* A step after which the tasks, the counts and the busy workers are as before.
Quiet ==
    /\ UNCHANGED <<queueVars, countVars, cur, fate, cancelled>>
    /\ wpc' \in [Worker -> WorkerState]
    /\ \A w \in Worker : wpc'[w] = wpc[w] \/ (wpc[w] \in Idle /\ wpc'[w] \in Idle)

\* What is typed and no count.
Control ==
    /\ running \in BOOLEAN /\ mutex \in Worker \cup {NoWorker}
    /\ owner \in OwnerState
    /\ waiter \in WaiterState /\ awaited \subseteq Id

\* A quiet step keeps the books.
LEMMA QuietSound ==
  ASSUME IInv, Quiet, Control', StoppedIsQuiet' PROVE IInv'
<1>0. /\ TypeOK /\ MapTracksLiveTasks /\ CountersExact /\ Holding
      /\ UNCHANGED <<queue, prio, tasks, nextId, runningCount, completedCount, cur, fate, cancelled>>
  BY DEF IInv, BooksAgree, Quiet, queueVars, countVars
<1>1. TypeOK'
  <2>1. \A w \in Worker : (cur'[w] = NoTask) = (wpc'[w] \in Idle)
    BY <1>0 DEF TypeOK, Quiet, Idle
  <2>2. QED  BY <1>0, <2>1 DEF TypeOK, Control, Quiet, Idle
<1>2. InHand' = InHand /\ MapTracksLiveTasks'
  BY <1>0 DEF InHand, MapTracksLiveTasks
<1>3. Counted' = Counted /\ Unreported' = Unreported /\ Ended' = Ended
  BY <1>0 DEF Counted, Unreported, Ended, Finished, Quiet, Idle
<1>4. CountersExact'
  BY <1>0, <1>3, Counters DEF CountersExact, Counted, Unreported, Ended
<1>5. Holding'
  BY <1>0, <1>2 DEF Holding, Finished, Quiet, Idle
<1> QED  BY <1>1, <1>2, <1>4, <1>5 DEF IInv, BooksAgree

\* The steps that are quiet.
LEMMA QuietSteps ==
  ASSUME IInv,
         \/ start \/ stop \/ notify_all \/ join
         \/ CallWaitAll \/ ReadPending \/ ReturnWaitAll \/ PollAgain
         \/ UNCHANGED vars
         \/ \E w \in Worker : Loop(w) \/ PredicateFalse(w) \/ Block(w) \/ Leave(w) \/ SpuriousWakeup(w)
  PROVE  IInv'
<1>0. TypeOK /\ StoppedIsQuiet /\ Control /\ wpc \in [Worker -> WorkerState]
  BY DEF IInv, BooksAgree, TypeOK, Control
<1>1. CASE start
  <2>1. Quiet
    BY <1>0, <1>1 DEF start, Quiet, StoppedIsQuiet, Idle, WorkerState
  <2>2. Control' /\ StoppedIsQuiet'
    BY <1>0, <1>1 DEF start, Control, StoppedIsQuiet, OwnerState, waiterVars
  <2>3. QED  BY <2>1, <2>2, QuietSound
<1>2. CASE stop \/ notify_all \/ join
  <2>1. Quiet
    BY <1>0, <1>2 DEF stop, notify_all, join, Quiet, Idle, WorkerState
  <2>2. Control' /\ StoppedIsQuiet'
    BY <1>0, <1>2 DEF stop, notify_all, join, Control, StoppedIsQuiet, OwnerState, waiterVars
  <2>3. QED  BY <2>1, <2>2, QuietSound
<1>3. CASE CallWaitAll \/ ReadPending \/ ReturnWaitAll \/ PollAgain \/ UNCHANGED vars
  <2>1. Quiet
    BY <1>0, <1>3
    DEF CallWaitAll, ReadPending, ReturnWaitAll, PollAgain, vars, Quiet, queueVars, countVars
  <2>2. Control' /\ StoppedIsQuiet'
    BY <1>0, <1>3
    DEF CallWaitAll, ReadPending, ReturnWaitAll, PollAgain, vars, waiterVars,
        Control, StoppedIsQuiet, WaiterState
  <2>3. QED  BY <2>1, <2>2, QuietSound
<1>4. ASSUME NEW w \in Worker,
             Loop(w) \/ PredicateFalse(w) \/ Block(w) \/ Leave(w) \/ SpuriousWakeup(w)
      PROVE  IInv'
  <2>1. Quiet
    BY <1>0, <1>4
    DEF Loop, PredicateFalse, Block, Leave, SpuriousWakeup, Goto, Quiet, Idle, WorkerState
  <2>2. Control' /\ StoppedIsQuiet'
    BY <1>0, <1>4
    DEF Loop, PredicateFalse, Block, Leave, SpuriousWakeup, Goto, Control, StoppedIsQuiet,
        waiterVars
  <2>3. QED  BY <2>1, <2>2, QuietSound
<1> QED  BY <1>1, <1>2, <1>3, <1>4

\* submit(): the next id is in nobody's hands, neither before nor after.
LEMMA SubmitSound == ASSUME IInv, submit PROVE IInv'
<1> USE QueueAssumption
<1>0. TypeOK /\ MapTracksLiveTasks /\ CountersExact /\ Holding /\ StoppedIsQuiet
  BY DEF IInv, BooksAgree
<1>1. /\ nextId \in Id /\ nextId' = nextId + 1 /\ cur' = cur /\ cancelled' = cancelled
      /\ prio' \in [Id -> Priority] /\ UNCHANGED <<countVars, waiterVars, running, mutex, owner>>
      /\ \/ /\ fate' = [fate EXCEPT ![nextId] = "rejected"]
            /\ queue' = queue /\ tasks' = tasks
         \/ /\ fate' = [fate EXCEPT ![nextId] = "accepted"]
            /\ queue' = queue \cup {nextId} /\ tasks' = tasks \cup {nextId}
  BY <1>0 DEF submit, TypeOK
<1>2. /\ wpc' \in [Worker -> WorkerState]
      /\ \A w \in Worker : wpc'[w] = wpc[w] \/ (wpc[w] = "waiting" /\ wpc'[w] = "lock")
  BY <1>0 DEF submit, Waiting, TypeOK, WorkerState
<1>3. fate[nextId] = "unused" /\ nextId \notin queue /\ nextId \notin cancelled /\ nextId \in Nat
  BY <1>0, <1>1 DEF Holding, TypeOK, Id
<1>4. \A w \in Worker : cur[w] # nextId
  <2> SUFFICES ASSUME NEW w \in Worker, cur[w] = nextId PROVE FALSE
    OBVIOUS
  <2>1. cur[w] # NoTask
    BY <1>1
  <2>2. wpc[w] \in {"taken", "executing", "uncount", "complete", "erase"}
    BY <1>0, <2>1 DEF TypeOK, WorkerState
  <2>3. QED  BY <1>0, <1>3, <2>2 DEF Holding, Finished
<1>5. /\ fate' \in [Id -> Fate]
      /\ \A id \in Id : id # nextId => fate'[id] = fate[id]
      /\ fate'[nextId] \in {"accepted", "rejected"}
      /\ fate'[nextId] = "accepted" <=> nextId \in queue'
  BY <1>0, <1>1, <1>3 DEF TypeOK, Fate
<1>6. TypeOK'
  <2>1. nextId' \in 1..(MaxId + 1)
    BY <1>1 DEF Id
  <2>2. \A w \in Worker : (cur'[w] = NoTask) = (wpc'[w] \in Idle)
    BY <1>0, <1>1, <1>2 DEF TypeOK, Idle
  <2>3. QED  BY <1>0, <1>1, <1>2, <1>5, <2>1, <2>2 DEF TypeOK, countVars, waiterVars, Idle
<1>7. InHand' = InHand /\ nextId \notin InHand
  BY <1>1, <1>4 DEF InHand
<1>8. MapTracksLiveTasks'
  BY <1>0, <1>1, <1>3, <1>7 DEF MapTracksLiveTasks
<1>9. Counted' = Counted /\ Unreported' = Unreported /\ Ended' = Ended
  BY <1>1, <1>2, <1>3, <1>5 DEF Counted, Unreported, Ended, Finished
<1>10. CountersExact'
  BY <1>0, <1>1, <1>9, Counters DEF CountersExact, Counted, Unreported, Ended, countVars
<1>11. Holding'
  <2>1. \A w \in Worker : cur[w] \in Id => fate'[cur[w]] = fate[cur[w]]
    BY <1>4, <1>5
  <2>2. \A w \in Worker : cur'[w] \notin queue'
    BY <1>0, <1>1, <1>4 DEF Holding
  <2>3. \A w \in Worker : /\ wpc'[w] \in {"taken", "executing"} => fate'[cur'[w]] = "accepted"
                          /\ wpc'[w] \in {"uncount", "complete", "erase"} =>
                                fate'[cur'[w]] \in {"completed", "failed"}
    BY <1>0, <1>1, <1>2, <2>1 DEF Holding, TypeOK, Finished
  <2>4. \A id \in queue' : fate'[id] = "accepted"
    <3> SUFFICES ASSUME NEW id \in queue' PROVE fate'[id] = "accepted"
      OBVIOUS
    <3>1. CASE id = nextId
      BY <1>5, <3>1
    <3>2. CASE id # nextId
      <4>1. id \in queue
        BY <1>1, <3>2
      <4>2. id \in Id /\ fate[id] = "accepted"
        BY <1>0, <4>1 DEF Holding, TypeOK
      <4>3. QED  BY <1>5, <3>2, <4>2
    <3>3. QED  BY <3>1, <3>2
  <2>5. \A id \in Id : fate'[id] = "accepted" => id \in queue' \cup InHand'
    BY <1>0, <1>1, <1>5, <1>7 DEF Holding
  <2>6. \A id \in Id : id >= nextId' => fate'[id] = "unused"
    BY <1>0, <1>1, <1>3, <1>5 DEF Holding, Id
  <2>7. \A id \in cancelled' : fate'[id] # "unused"
    BY <1>0, <1>1, <1>3, <1>5 DEF Holding, TypeOK
  <2>8. \A v, w \in Worker : cur'[v] = cur'[w] /\ cur'[v] # NoTask => v = w
    BY <1>0, <1>1 DEF Holding
  <2> QED  BY <2>2, <2>3, <2>4, <2>5, <2>6, <2>7, <2>8 DEF Holding, Finished
<1>12. StoppedIsQuiet'
  BY <1>0, <1>1, <1>2 DEF StoppedIsQuiet
<1> QED  BY <1>6, <1>8, <1>10, <1>11, <1>12 DEF IInv, BooksAgree

\* cancel(): the id leaves the map and is remembered as cancelled.
LEMMA CancelSound == ASSUME IInv, NEW id \in Id, cancel(id) PROVE IInv'
<1>0. TypeOK /\ MapTracksLiveTasks /\ CountersExact /\ Holding /\ StoppedIsQuiet
  BY DEF IInv, BooksAgree
<1>1. /\ id \in tasks /\ tasks' = tasks \ {id} /\ cancelled' = cancelled \cup {id}
      /\ UNCHANGED <<queue, prio, nextId, runningCount, completedCount, waiter, awaited, running,
                     mutex, wpc, cur, owner, fate>>
  BY DEF cancel, countVars, waiterVars
<1>2. TypeOK' /\ StoppedIsQuiet'
  BY <1>0, <1>1 DEF TypeOK, StoppedIsQuiet
<1>3. InHand' = InHand
  BY <1>1 DEF InHand
<1>4. MapTracksLiveTasks'
  BY <1>0, <1>1, <1>3 DEF MapTracksLiveTasks
<1>5. CountersExact'
  BY <1>0, <1>1 DEF CountersExact, Finished
<1>6. fate[id] # "unused"
  <2>1. id \in queue \cup InHand
    BY <1>0, <1>1 DEF MapTracksLiveTasks
  <2>2. CASE id \in queue
    BY <1>0, <2>2 DEF Holding
  <2>3. CASE id \in InHand
    <3>1. PICK w \in Worker : cur[w] = id
      BY <2>3 DEF InHand
    <3>2. id # NoTask
      BY QueueAssumption
    <3>3. wpc[w] \in {"taken", "executing", "uncount", "complete", "erase"}
      BY <1>0, <3>1, <3>2 DEF TypeOK, WorkerState
    <3>4. QED  BY <1>0, <3>1, <3>3 DEF Holding, Finished
  <2>4. QED  BY <2>1, <2>2, <2>3
<1>7. Holding'
  BY <1>0, <1>1, <1>3, <1>6 DEF Holding, Finished
<1> QED  BY <1>2, <1>4, <1>5, <1>7 DEF IInv, BooksAgree

\* queue_.pop(): the task goes from the queue into one worker's hands.
LEMMA PopSound == ASSUME IInv, NEW w \in Worker, NEW id \in Id, Pop(w, id) PROVE IInv'
<1> USE QueueAssumption
<1>0. TypeOK /\ MapTracksLiveTasks /\ CountersExact /\ Holding /\ StoppedIsQuiet
  BY DEF IInv, BooksAgree
<1>1. /\ id \in queue /\ wpc[w] = "lock" /\ wpc' = [wpc EXCEPT ![w] = "taken"]
      /\ cur' = [cur EXCEPT ![w] = id] /\ queue' = queue \ {id}
      /\ prio' \in [Id -> Priority]
      /\ UNCHANGED <<tasks, nextId, runningCount, completedCount, waiter, awaited, running,
                     mutex, owner, fate, cancelled>>
  BY <1>0 DEF TypeOK, Pop, Goto, countVars, waiterVars
<1>2. cur[w] = NoTask /\ id # NoTask
  BY <1>0, <1>1 DEF TypeOK
<1>3. /\ wpc \in [Worker -> WorkerState] /\ cur \in [Worker -> Id \cup {NoTask}]
      /\ wpc' \in [Worker -> WorkerState] /\ cur' \in [Worker -> Id \cup {NoTask}]
  BY <1>0, <1>1 DEF TypeOK, WorkerState
<1>4. TypeOK'
  <2>1. \A v \in Worker : (cur'[v] = NoTask) = (wpc'[v] \in Idle)
    BY <1>0, <1>1, <1>2, <1>3 DEF TypeOK, Idle
  <2>2. QED  BY <1>0, <1>1, <1>3, <2>1 DEF TypeOK, Idle
<1>5. InHand' = InHand \cup {id}
  BY <1>1, <1>2, <1>3 DEF InHand
<1>6. MapTracksLiveTasks'
  BY <1>0, <1>1, <1>5 DEF MapTracksLiveTasks
<1>7. Counted' = Counted /\ Unreported' = Unreported /\ Ended' = Ended
  BY <1>1, <1>3 DEF Counted, Unreported, Ended, Finished
<1>8. CountersExact'
  BY <1>0, <1>1, <1>7, Counters DEF CountersExact, Counted, Unreported, Ended
<1>9. Holding'
  <2>1. fate[id] = "accepted" /\ \A v \in Worker : cur[v] # id
    BY <1>0, <1>1 DEF Holding
  <2>2. \A v \in Worker : /\ wpc'[v] \in {"taken", "executing"} => fate'[cur'[v]] = "accepted"
                          /\ wpc'[v] \in {"uncount", "complete", "erase"} =>
                                fate'[cur'[v]] \in {"completed", "failed"}
    BY <1>0, <1>1, <1>3, <2>1 DEF Holding, Finished
  <2>3. \A v \in Worker : cur'[v] \notin queue'
    BY <1>0, <1>1, <1>3 DEF Holding
  <2>4. \A u, v \in Worker : cur'[u] = cur'[v] /\ cur'[u] # NoTask => u = v
    BY <1>0, <1>1, <1>3, <2>1 DEF Holding
  <2>5. \A x \in Id : fate'[x] = "accepted" => x \in queue' \cup InHand'
    BY <1>0, <1>1, <1>5 DEF Holding
  <2> QED  BY <1>0, <1>1, <2>2, <2>3, <2>4, <2>5 DEF Holding, Finished
<1>10. StoppedIsQuiet'
  BY <1>0, <1>1 DEF StoppedIsQuiet
<1> QED  BY <1>4, <1>6, <1>8, <1>9, <1>10 DEF IInv, BooksAgree

\* task->execute() and the changes of the counters around it: the worker keeps
\* its task, and the sets whose sizes are counted change with the counters.
LEMMA RunSound ==
  ASSUME IInv, NEW w \in Worker,
         \/ CountRunning(w) \/ UncountRunning(w) \/ CountCompleted(w)
         \/ \E outcome \in {"completed", "failed"} : Execute(w, outcome)
  PROVE  IInv'
<1> USE QueueAssumption
<1>0. TypeOK /\ MapTracksLiveTasks /\ CountersExact /\ Holding /\ StoppedIsQuiet
  BY DEF IInv, BooksAgree
<1>1. /\ UNCHANGED <<queue, prio, tasks, nextId, waiter, running, mutex, cur, owner, cancelled>>
      /\ awaited' \subseteq awaited
      /\ wpc[w] \in {"taken", "executing", "uncount", "complete"}
      /\ wpc' = [wpc EXCEPT ![w] = CASE wpc[w] = "taken" -> "executing"
                                     [] wpc[w] = "executing" -> "uncount"
                                     [] wpc[w] = "uncount" -> "complete"
                                     [] wpc[w] = "complete" -> "erase"]
  BY DEF CountRunning, UncountRunning, CountCompleted, Execute, Goto, queueVars, waiterVars
<1>2. cur[w] \in Id /\ cur[w] # NoTask
  BY <1>0, <1>1 DEF TypeOK
<1>3. /\ wpc \in [Worker -> WorkerState] /\ wpc' \in [Worker -> WorkerState]
      /\ \A v \in Worker : v # w => wpc'[v] = wpc[v]
      /\ wpc'[w] \notin Idle /\ wpc[w] \notin Idle
  BY <1>0, <1>1 DEF TypeOK, WorkerState, Idle
<1>4. InHand' = InHand /\ MapTracksLiveTasks' /\ StoppedIsQuiet'
  BY <1>0, <1>1, <1>3 DEF InHand, MapTracksLiveTasks, StoppedIsQuiet, Idle
<1>5. \A v \in Worker : (cur'[v] = NoTask) = (wpc'[v] \in Idle)
  BY <1>0, <1>1, <1>3 DEF TypeOK, Idle
<1>6. ASSUME fate' \in [Id -> Fate], runningCount' \in Nat, completedCount' \in Nat
      PROVE  TypeOK'
  BY <1>0, <1>1, <1>3, <1>5, <1>6 DEF TypeOK, Idle
<1>7. CASE CountRunning(w)
  <2>1. /\ wpc[w] = "taken" /\ wpc'[w] = "executing" /\ fate' = fate
        /\ runningCount' = runningCount + 1 /\ completedCount' = completedCount
    BY <1>0, <1>7 DEF CountRunning, Goto, TypeOK
  <2>2. Counted' = Counted \cup {w} /\ w \notin Counted
    BY <1>3, <2>1 DEF Counted
  <2>3. Unreported' = Unreported /\ Ended' = Ended
    BY <1>3, <2>1 DEF Unreported, Ended, Finished
  <2>4. Cardinality(Counted') = Cardinality(Counted) + 1
    BY <2>2, Finite, FS_AddElement
  <2>5. CountersExact'
    BY <1>0, <2>1, <2>3, <2>4, Counters DEF CountersExact, Counted, Unreported, Ended
  <2>6. Holding'
    BY <1>0, <1>1, <1>3, <1>4, <2>1 DEF Holding, Finished
  <2>7. TypeOK'
    BY <1>0, <1>6, <2>1 DEF TypeOK
  <2>8. QED  BY <1>4, <2>5, <2>6, <2>7 DEF IInv, BooksAgree
<1>8. ASSUME NEW outcome \in {"completed", "failed"}, Execute(w, outcome)
      PROVE  IInv'
  <2>1. PICK id \in Id : id = cur[w]
    BY <1>2
  <2>2. /\ wpc[w] = "executing" /\ wpc'[w] = "uncount" /\ fate' = [fate EXCEPT ![id] = outcome]
        /\ runningCount' = runningCount /\ completedCount' = completedCount
        /\ fate[id] = "accepted"
    BY <1>0, <1>8, <2>1 DEF Execute, Goto, TypeOK, countVars, Holding
  <2>3. /\ fate' \in [Id -> Fate] /\ fate'[id] = outcome
        /\ \A x \in Id : x # id => fate'[x] = fate[x]
    BY <1>0, <2>2 DEF TypeOK, Fate
  <2>4. Counted' = Counted /\ Unreported' = Unreported \cup {w} /\ w \notin Unreported
    BY <1>3, <2>2 DEF Counted, Unreported
  <2>5. Ended' = Ended \cup {id} /\ id \notin Ended
    BY <2>2, <2>3 DEF Ended, Finished
  <2>6. /\ Cardinality(Unreported') = Cardinality(Unreported) + 1
        /\ Cardinality(Ended') = Cardinality(Ended) + 1
    BY <2>4, <2>5, Finite, FS_AddElement
  <2>7. Cardinality(Ended') - Cardinality(Unreported') = Cardinality(Ended) - Cardinality(Unreported)
    BY <2>6, Finite
  <2>8. CountersExact'
    BY <1>0, <2>2, <2>4, <2>7, Counters DEF CountersExact, Counted, Unreported, Ended
  <2>9. Holding'
    <3>1. \A v \in Worker : v # w => cur[v] # id
      BY <1>0, <1>2, <2>1 DEF Holding
    <3>2. id \notin queue
      BY <1>0, <2>1 DEF Holding
    <3>3. \A v \in Worker : /\ wpc'[v] \in {"taken", "executing"} => fate'[cur'[v]] = "accepted"
                            /\ wpc'[v] \in {"uncount", "complete", "erase"} =>
                                  fate'[cur'[v]] \in {"completed", "failed"}
      <4> SUFFICES ASSUME NEW v \in Worker
                   PROVE  /\ wpc'[v] \in {"taken", "executing"} => fate'[cur'[v]] = "accepted"
                          /\ wpc'[v] \in {"uncount", "complete", "erase"} =>
                                fate'[cur'[v]] \in {"completed", "failed"}
        OBVIOUS
      <4>1. CASE v = w
        BY <1>1, <2>1, <2>2, <2>3, <4>1
      <4>2. CASE v # w
        <5>1. cur[v] = NoTask \/ (cur[v] \in Id /\ cur[v] # id)
          BY <1>0, <3>1, <4>2 DEF TypeOK
        <5>2. cur[v] = NoTask => wpc'[v] \notin {"taken", "executing", "uncount", "complete", "erase"}
          BY <1>1, <1>5 DEF Idle
        <5>3. QED  BY <1>0, <1>1, <1>3, <2>3, <4>2, <5>1, <5>2 DEF Holding, Finished
      <4>3. QED  BY <4>1, <4>2
    <3>4. \A x \in queue' : fate'[x] = "accepted"
      BY <1>0, <1>1, <2>3, <3>2 DEF Holding, TypeOK
    <3>5. \A x \in Id : fate'[x] = "accepted" => x \in queue' \cup InHand'
      BY <1>0, <1>1, <1>4, <2>3 DEF Holding
    <3>6. \A x \in Id : x >= nextId' => fate'[x] = "unused"
      BY <1>0, <1>1, <2>2, <2>3 DEF Holding
    <3>7. \A x \in cancelled' : fate'[x] # "unused"
      BY <1>0, <1>1, <2>3 DEF Holding, TypeOK
    <3>8. /\ \A v \in Worker : cur'[v] \notin queue'
          /\ \A v, x \in Worker : cur'[v] = cur'[x] /\ cur'[v] # NoTask => v = x
      BY <1>0, <1>1 DEF Holding
    <3> QED  BY <3>3, <3>4, <3>5, <3>6, <3>7, <3>8 DEF Holding, Finished
  <2>10. TypeOK'
    BY <1>0, <1>6, <2>2, <2>3 DEF TypeOK
  <2>11. QED  BY <1>4, <2>8, <2>9, <2>10 DEF IInv, BooksAgree
<1>9. CASE UncountRunning(w)
  <2>1. /\ wpc[w] = "uncount" /\ wpc'[w] = "complete" /\ fate' = fate
        /\ runningCount' = runningCount - 1 /\ completedCount' = completedCount
    BY <1>0, <1>9 DEF UncountRunning, Goto, TypeOK
  <2>2. Counted' = Counted \ {w} /\ w \in Counted
    BY <1>3, <2>1 DEF Counted
  <2>3. Unreported' = Unreported /\ Ended' = Ended
    BY <1>3, <2>1 DEF Unreported, Ended, Finished
  <2>4. Cardinality(Counted') = Cardinality(Counted) - 1 /\ Cardinality(Counted) # 0
    BY <2>2, Finite, FS_RemoveElement, FS_EmptySet
  <2>5. CountersExact'
    BY <1>0, <2>1, <2>3, <2>4, Counters DEF CountersExact, Counted, Unreported, Ended
  <2>6. Holding'
    BY <1>0, <1>1, <1>3, <1>4, <2>1 DEF Holding, Finished
  <2>7. runningCount' \in Nat
    BY <1>0, <2>1, <2>4, Finite, Counters
  <2>8. TypeOK'
    BY <1>0, <1>6, <2>1, <2>7 DEF TypeOK
  <2>9. QED  BY <1>4, <2>5, <2>6, <2>8 DEF IInv, BooksAgree
<1>10. CASE CountCompleted(w)
  <2>1. /\ wpc[w] = "complete" /\ wpc'[w] = "erase" /\ fate' = fate
        /\ completedCount' = completedCount + 1 /\ runningCount' = runningCount
    BY <1>0, <1>10 DEF CountCompleted, Goto, TypeOK
  <2>2. Unreported' = Unreported \ {w} /\ w \in Unreported
    BY <1>3, <2>1 DEF Unreported
  <2>3. Counted' = Counted /\ Ended' = Ended
    BY <1>3, <2>1 DEF Counted, Ended, Finished
  <2>4. Cardinality(Unreported') = Cardinality(Unreported) - 1
    BY <2>2, Finite, FS_RemoveElement
  <2>5. completedCount' = Cardinality(Ended') - Cardinality(Unreported')
    BY <1>0, <2>1, <2>3, <2>4, Finite, Counters
  <2>6. CountersExact'
    BY <1>0, <2>1, <2>3, <2>5, Counters DEF CountersExact, Counted, Unreported, Ended
  <2>7. Holding'
    BY <1>0, <1>1, <1>3, <1>4, <2>1 DEF Holding, Finished
  <2>8. TypeOK'
    BY <1>0, <1>6, <2>1 DEF TypeOK
  <2>9. QED  BY <1>4, <2>6, <2>7, <2>8 DEF IInv, BooksAgree
<1> QED  BY <1>7, <1>8, <1>9, <1>10

\* tasks_.erase(): what the worker had in its hands is in no other hands and not
\* in the queue, so the map loses exactly a finished task.
LEMMA EraseSound == ASSUME IInv, NEW w \in Worker, Erase(w) PROVE IInv'
<1> USE QueueAssumption
<1>0. TypeOK /\ MapTracksLiveTasks /\ CountersExact /\ Holding /\ StoppedIsQuiet
  BY DEF IInv, BooksAgree
<1>1. PICK id \in Id : id = cur[w]
  BY <1>0 DEF Erase, Goto, TypeOK
<1>2. /\ wpc[w] = "erase" /\ wpc' = [wpc EXCEPT ![w] = "loop"]
      /\ tasks' = tasks \ {id} /\ cur' = [cur EXCEPT ![w] = NoTask]
      /\ cancelled' = cancelled \ {id}
      /\ UNCHANGED <<queue, prio, nextId, runningCount, completedCount, waiter, awaited, running,
                     mutex, owner, fate>>
  BY <1>1 DEF Erase, Goto, countVars, waiterVars
<1>3. /\ wpc \in [Worker -> WorkerState] /\ cur \in [Worker -> Id \cup {NoTask}]
      /\ wpc' \in [Worker -> WorkerState] /\ cur' \in [Worker -> Id \cup {NoTask}]
  BY <1>0, <1>2 DEF TypeOK, WorkerState
<1>4. TypeOK'
  <2>1. \A v \in Worker : (cur'[v] = NoTask) = (wpc'[v] \in Idle)
    BY <1>0, <1>2, <1>3 DEF TypeOK, Idle
  <2>2. QED  BY <1>0, <1>2, <1>3, <2>1 DEF TypeOK, Idle
<1>5. id # NoTask /\ id \notin queue /\ \A v \in Worker : v # w => cur[v] # id
  BY <1>0, <1>1 DEF Holding
<1>6. InHand' = InHand \ {id}
  BY <1>1, <1>2, <1>3, <1>5 DEF InHand
<1>7. MapTracksLiveTasks'
  BY <1>0, <1>2, <1>5, <1>6 DEF MapTracksLiveTasks
<1>8. Counted' = Counted /\ Unreported' = Unreported /\ Ended' = Ended
  BY <1>2, <1>3 DEF Counted, Unreported, Ended, Finished
<1>9. CountersExact'
  BY <1>0, <1>2, <1>8, Counters DEF CountersExact, Counted, Unreported, Ended
<1>10. Holding'
  <2>1. fate[id] # "accepted"
    BY <1>0, <1>1, <1>2 DEF Holding, Finished
  <2>2. \A v \in Worker : /\ wpc'[v] \in {"taken", "executing"} => fate'[cur'[v]] = "accepted"
                          /\ wpc'[v] \in {"uncount", "complete", "erase"} =>
                                fate'[cur'[v]] \in {"completed", "failed"}
    BY <1>0, <1>2, <1>3 DEF Holding, Finished
  <2>3. \A v \in Worker : cur'[v] \notin queue'
    BY <1>0, <1>2, <1>3 DEF Holding, TypeOK
  <2>4. \A u, v \in Worker : cur'[u] = cur'[v] /\ cur'[u] # NoTask => u = v
    BY <1>0, <1>2, <1>3 DEF Holding
  <2>5. \A x \in Id : fate'[x] = "accepted" => x \in queue' \cup InHand'
    BY <1>0, <1>2, <1>6, <2>1 DEF Holding
  <2> QED  BY <1>0, <1>2, <2>2, <2>3, <2>4, <2>5 DEF Holding, Finished
<1>11. StoppedIsQuiet'
  BY <1>0, <1>2 DEF StoppedIsQuiet
<1> QED  BY <1>4, <1>7, <1>9, <1>10, <1>11 DEF IInv, BooksAgree

-----------------------------------------------------------------------------
\* IInv holds in every reachable state.
THEOREM Inductive == Spec => []IInv
<1>1. IInv /\ [Next]_vars => IInv'
  <2> SUFFICES ASSUME IInv, [Next]_vars PROVE IInv'
    OBVIOUS
  <2>1. ASSUME NEW w \in Worker, WorkerStep(w) \/ SpuriousWakeup(w) PROVE IInv'
    BY <2>1, QuietSteps, PopSound, RunSound, EraseSound DEF WorkerStep
  <2> QED  BY <2>1, QuietSteps, SubmitSound, CancelSound DEF Next
<1> QED  BY <1>1, InitSound, PTL DEF Spec

\* tasks_ holds exactly the queued and running tasks that were not cancelled, and
\* running_count_ and completed_count_ are exact, for any number of workers,
\* whatever fails, is cancelled while it runs or is left over by a stop.
THEOREM BooksAlwaysAgree == Spec => []BooksAgree
<1>1. IInv => BooksAgree
  BY DEF IInv
<1> QED  BY <1>1, Inductive, PTL

-----------------------------------------------------------------------------
\* A step that moves no task of the queue moves none of the executor.
LEMMA StateUnchanged ==
  ASSUME UNCHANGED <<queue, cur, fate>>
  PROVE  ExecutorState' = ExecutorState
BY DEF ExecutorState, InHand, Finished

\* Each id is accepted or refused once, an accepted task is taken by one worker
\* and executed once, across stop() and start() too.
THEOREM QueueImplementsExecutor == Spec => ImplementsExecutor
<1> USE QueueAssumption
<1>1. Init => Exec!Init
  <2> SUFFICES ASSUME Init PROVE Exec!Init
    OBVIOUS
  <2>1. \A id \in Id : id \notin InHand /\ id \notin queue /\ fate[id] = "unused"
    BY DEF Init, InHand
  <2> QED  BY <2>1 DEF Exec!Init, ExecutorState, Finished
<1>2. IInv /\ [Next]_vars => [Exec!Next]_(Exec!vars)
  <2> SUFFICES ASSUME IInv, [Next]_vars PROVE Exec!Next \/ UNCHANGED Exec!vars
    OBVIOUS
  <2>0. TypeOK /\ Holding
    BY DEF IInv, BooksAgree
  <2>1. ASSUME submit PROVE Exec!Next
    <3>1. /\ nextId \in Id /\ cur' = cur
          /\ \/ fate' = [fate EXCEPT ![nextId] = "rejected"] /\ queue' = queue
             \/ fate' = [fate EXCEPT ![nextId] = "accepted"] /\ queue' = queue \cup {nextId}
      BY <2>1 DEF submit
    <3>2. fate[nextId] = "unused" /\ nextId \notin queue
      BY <2>0, <3>1 DEF Holding, Id
    <3>3. \A w \in Worker : cur[w] # nextId
      <4> SUFFICES ASSUME NEW w \in Worker, cur[w] = nextId PROVE FALSE
        OBVIOUS
      <4>1. cur[w] # NoTask
        BY <3>1
      <4>2. wpc[w] \in {"taken", "executing", "uncount", "complete", "erase"}
        BY <2>0, <4>1 DEF TypeOK, WorkerState
      <4>3. QED  BY <2>0, <3>2, <4>2 DEF Holding, Finished
    <3>4. nextId \notin InHand /\ InHand' = InHand
      BY <3>1, <3>3 DEF InHand
    <3>5. ExecutorState[nextId] = "fresh"
      BY <3>1, <3>2, <3>4 DEF ExecutorState, Finished
    <3>6. CASE fate' = [fate EXCEPT ![nextId] = "rejected"] /\ queue' = queue
      <4>1. ExecutorState' = [ExecutorState EXCEPT ![nextId] = "rejected"]
        <5>1. PICK n \in Id : n = nextId
          BY <3>1
        <5>2. /\ fate'[n] = "rejected" /\ ~Finished(n)'
              /\ \A x \in Id : x # n => fate'[x] = fate[x] /\ (Finished(x)' <=> Finished(x))
          BY <2>0, <3>6, <5>1 DEF Finished, TypeOK
        <5>3. ExecutorState' = [ExecutorState EXCEPT ![n] = "rejected"]
          BY <3>2, <3>4, <3>6, <5>1, <5>2 DEF ExecutorState
        <5>4. QED  BY <5>1, <5>3
      <4>2. Exec!Reject(nextId)
        BY <3>5, <4>1 DEF Exec!Reject, Exec!Move
      <4>3. QED  BY <3>1, <4>2 DEF Exec!Next
    <3>7. CASE fate' = [fate EXCEPT ![nextId] = "accepted"] /\ queue' = queue \cup {nextId}
      <4>1. ExecutorState' = [ExecutorState EXCEPT ![nextId] = "queued"]
        <5>1. PICK n \in Id : n = nextId
          BY <3>1
        <5>2. /\ fate'[n] = "accepted" /\ ~Finished(n)'
              /\ \A x \in Id : x # n => fate'[x] = fate[x] /\ (Finished(x)' <=> Finished(x))
          BY <2>0, <3>7, <5>1 DEF Finished, TypeOK
        <5>3. n \in queue' /\ \A x \in Id : x # n => (x \in queue' <=> x \in queue)
          BY <3>7, <5>1
        <5>4. ExecutorState' = [ExecutorState EXCEPT ![n] = "queued"]
          BY <3>4, <5>1, <5>2, <5>3 DEF ExecutorState
        <5>5. QED  BY <5>1, <5>4
      <4>2. Exec!Accept(nextId)
        BY <3>5, <4>1 DEF Exec!Accept, Exec!Move
      <4>3. QED  BY <3>1, <4>2 DEF Exec!Next
    <3> QED  BY <3>1, <3>6, <3>7
  <2>2. ASSUME NEW w \in Worker, NEW id \in Id, Pop(w, id) PROVE Exec!Next
    <3>1. /\ id \in queue /\ cur[w] = NoTask /\ cur' = [cur EXCEPT ![w] = id]
          /\ queue' = queue \ {id} /\ fate' = fate
      BY <2>0, <2>2 DEF Pop, Goto, TypeOK
    <3>2. fate[id] = "accepted" /\ id \notin InHand
      BY <2>0, <3>1 DEF Holding, InHand
    <3>3. InHand' = InHand \cup {id}
      BY <2>0, <3>1 DEF InHand, TypeOK
    <3>4. ExecutorState[id] = "queued"
      BY <3>1, <3>2 DEF ExecutorState
    <3>5. ExecutorState' = [ExecutorState EXCEPT ![id] = "running"]
      BY <3>1, <3>2, <3>3 DEF ExecutorState, Finished
    <3> QED  BY <3>4, <3>5 DEF Exec!Next, Exec!Start, Exec!Move
  <2>3. ASSUME NEW w \in Worker, NEW outcome \in {"completed", "failed"}, Execute(w, outcome)
        PROVE  Exec!Next
    <3>1. PICK id \in Id : id = cur[w]
      BY <2>0, <2>3 DEF Execute, Goto, TypeOK
    <3>2. /\ queue' = queue /\ cur' = cur /\ fate' = [fate EXCEPT ![id] = outcome]
          /\ fate[id] = "accepted" /\ id \notin queue
      BY <2>0, <2>3, <3>1 DEF Execute, Goto, Holding, queueVars
    <3>3. InHand' = InHand /\ id \in InHand
      BY <3>1, <3>2 DEF InHand
    <3>4. /\ Finished(id)' /\ ~Finished(id)
          /\ \A x \in Id : x # id => fate'[x] = fate[x] /\ (Finished(x)' <=> Finished(x))
      BY <2>0, <3>2 DEF Finished, TypeOK
    <3>5. ExecutorState[id] = "running"
      BY <3>3, <3>4 DEF ExecutorState
    <3>6. ExecutorState' = [ExecutorState EXCEPT ![id] = "done"]
      BY <3>2, <3>3, <3>4 DEF ExecutorState
    <3> QED  BY <3>5, <3>6 DEF Exec!Next, Exec!Finish, Exec!Move
  <2>4. ASSUME NEW w \in Worker, Erase(w) PROVE UNCHANGED Exec!vars
    <3>1. PICK id \in Id : id = cur[w]
      BY <2>0, <2>4 DEF Erase, Goto, TypeOK
    <3>2. /\ queue' = queue /\ fate' = fate /\ cur' = [cur EXCEPT ![w] = NoTask]
          /\ fate[id] \in {"completed", "failed"} /\ id # NoTask
      BY <2>0, <2>4, <3>1 DEF Erase, Goto, Holding, Finished
    <3>3. \A x \in Id : x # id => (x \in InHand' <=> x \in InHand)
      BY <2>0, <3>1, <3>2 DEF InHand, TypeOK
    <3>4. ExecutorState' = ExecutorState
      BY <3>2, <3>3 DEF ExecutorState, Finished
    <3> QED  BY <3>4 DEF Exec!vars
  <2>5. ASSUME UNCHANGED <<queue, cur, fate>> PROVE UNCHANGED Exec!vars
    BY <2>5, StateUnchanged DEF Exec!vars
  <2>6. ASSUME NEW w \in Worker,
               \/ Loop(w) \/ PredicateFalse(w) \/ Block(w) \/ Leave(w) \/ SpuriousWakeup(w)
               \/ CountRunning(w) \/ UncountRunning(w) \/ CountCompleted(w)
        PROVE  UNCHANGED Exec!vars
    BY <2>5, <2>6
    DEF Loop, PredicateFalse, Block, Leave, SpuriousWakeup, CountRunning, UncountRunning,
        CountCompleted, queueVars
  <2>7. ASSUME \/ start \/ stop \/ notify_all \/ join \/ UNCHANGED vars
               \/ CallWaitAll \/ ReadPending \/ ReturnWaitAll \/ PollAgain
        PROVE  UNCHANGED Exec!vars
    BY <2>5, <2>7
    DEF start, stop, notify_all, join, CallWaitAll, ReadPending, ReturnWaitAll, PollAgain,
        vars, queueVars
  <2>8. ASSUME NEW id \in Id, cancel(id) PROVE UNCHANGED Exec!vars
    BY <2>5, <2>8 DEF cancel
  <2>9. ASSUME NEW w \in Worker, WorkerStep(w) \/ SpuriousWakeup(w)
        PROVE  Exec!Next \/ UNCHANGED Exec!vars
    BY <2>2, <2>3, <2>4, <2>6, <2>9 DEF WorkerStep
  <2> QED  BY <2>1, <2>7, <2>8, <2>9 DEF Next
<1> QED  BY <1>1, <1>2, Inductive, PTL DEF Spec, ImplementsExecutor, Exec!Spec
=============================================================================
