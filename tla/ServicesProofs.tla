--------------------------- MODULE ServicesProofs ---------------------------
(***************************************************************************)
(* Components a service is assembled from, proved for every value of their *)
(* constants.                                                              *)
(*                                                                         *)
(* ConnectionPool lends a connection to one caller at a time and closes    *)
(* none that is lent, and queues a callback only when somebody is about to *)
(* come back with a connection for it.                                     *)
(*                                                                         *)
(* CircuitBreaker (the instance CB): threads that count, judge and trip    *)
(* without a lock neither miss the threshold nor trip without a cause.     *)
(* NodeRegistry (NR): a key moves only with the nodes it moves between.    *)
(* ObjectPool (OP) and BufferPool (BP): the counters agree with what       *)
(* exists, which needs lemmas on sums over finite sets.  EventBus (EB): a  *)
(* publication calls the right handlers, in the order of priorities.       *)
(* RateLimiter (RL): no interval is granted more than was promised.        *)
(* LoadBalancer (LB): every instance has its share of a cycle.             *)
(***************************************************************************)
EXTENDS Services, Functions, FiniteSetTheorems, WellFoundedInduction, SequenceTheorems, TLAPS

Creating == {r \in Caller : pc[r] = "creating"}

\* pending_creates_ counts the callers inside create_connection.
PendingCounted == IsFiniteSet(Creating) /\ pending = Cardinality(Creating)

\* Only entries of connections_ age; is_valid is lost with age, and an entry
\* that was closed and not removed is one that try_get_idle will not take.
ClosedIsOld ==
    /\ expired \subseteq pool /\ invalid \subseteq expired
    /\ pool \cap closed \subseteq expired

\* init() runs before anything else, shutdown_ is set before the pool is emptied.
PhasesInOrder ==
    /\ drained => down
    /\ ~Ready => closed = {} /\ ~down /\ \A r \in Caller : pc[r] = "idle"

\* A connection that a caller holds is in connections_ until shutdown().
LentIsPooled ==
    ~down => \A r \in Caller : pc[r] = "holding" => conn[r] \in pool

\* Where nothing fails no entry ages and nobody shuts down.
NoFaults == faults = {} => expired = {} /\ ~down

LendInv ==
    /\ LentSafely /\ CallbackOnce /\ EmptyAfterShutdown
    /\ PendingCounted /\ ClosedIsOld /\ PhasesInOrder /\ LentIsPooled /\ NoFaults

-----------------------------------------------------------------------------
\* A new connection is one that nobody refers to.
LEMMA FreshIsNew ==
  ASSUME IdentityLeft
  PROVE  /\ Fresh \in Conn /\ Fresh \notin pool
         /\ \A r \in Caller : conn[r] # Fresh
BY DEF IdentityLeft, Fresh, Live

\* The pool before init().
LEMMA InitSound == Init => LendInv
<1> SUFFICES ASSUME Init PROVE LendInv
  OBVIOUS
<1>1. waiting \in Seq(Caller) /\ Len(waiting) = 0
  BY DEF Init
<1>2. down \in BOOLEAN /\ drained \in BOOLEAN
  BY DEF Init
<1>3. TypeOK
  BY <1>1, <1>2, PoolAssumption DEF Init, TypeOK, CallerState
<1>4. ExclusiveUse /\ HeldOpen
  BY PoolAssumption DEF Init, ExclusiveUse, HeldOpen
<1>5. CallbackOnce
  BY <1>1 DEF Init, CallbackOnce
<1>6. PendingCounted
  <2>1. Creating = {}
    BY DEF Init, Creating
  <2>2. QED  BY <2>1, FS_EmptySet DEF Init, PendingCounted
<1>7. EmptyAfterShutdown /\ ClosedIsOld /\ PhasesInOrder /\ LentIsPooled /\ NoFaults
  BY DEF Init, EmptyAfterShutdown, ClosedIsOld, PhasesInOrder, LentIsPooled, NoFaults
<1> QED  BY <1>3, <1>4, <1>5, <1>6, <1>7 DEF LendInv, LentSafely

-----------------------------------------------------------------------------
\* What return_connection(r) does: the connection goes back, or to the caller at
\* the head of the queue, which is not r and holds nothing yet.
LEMMA ReturnHands ==
  ASSUME LendInv, NEW r \in Caller, return_connection(r)
  PROVE  /\ pc[r] = "holding" /\ conn[r] \in Conn
         /\ UNCHANGED <<faults, pool, invalid, expired, pending, down, drained, created>>
         /\ closed' = closed \cup ({conn[r]} \cap pool \cap invalid)
         /\ \/ \E w \in Caller, d \in pool :
                  /\ waiting # <<>> /\ w = Head(waiting) /\ w # r
                  /\ pc[w] = "waiting" /\ conn[w] = NoConn
                  /\ d \notin expired /\ d \notin closed
                  /\ \A s \in Caller : s # r => conn[s] # d
                  /\ inUse' = (inUse \ {conn[r]}) \cup {d}
                  /\ waiting' = Tail(waiting)
                  /\ conn' = [conn EXCEPT ![r] = NoConn, ![w] = d]
                  /\ pc' = [pc EXCEPT ![r] = "idle", ![w] = "holding"]
            \/ /\ waiting = <<>> \/ Usable(pool, inUse \ {conn[r]}) = {}
               /\ inUse' = inUse \ {conn[r]}
               /\ conn' = [conn EXCEPT ![r] = NoConn]
               /\ pc' = [pc EXCEPT ![r] = "idle"]
               /\ waiting' = waiting
<1> DEFINE freed == inUse \ {conn[r]}
           usable == Usable(pool, freed)
<1>1. /\ pc[r] = "holding"
      /\ UNCHANGED <<faults, pool, invalid, expired, pending, down, drained, created>>
      /\ closed' = closed \cup ({conn[r]} \cap pool \cap invalid)
  BY DEF return_connection
<1>2. conn[r] \in Conn
  BY <1>1 DEF LendInv, LentSafely, TypeOK, ExclusiveUse
<1>3. CASE NextWaiter(usable) = {}
  <2>1. waiting = <<>> \/ usable = {}
    BY <1>3 DEF NextWaiter
  <2>2. /\ inUse' = freed
        /\ conn' = [conn EXCEPT ![r] = NoConn]
        /\ pc' = [pc EXCEPT ![r] = "idle"]
        /\ waiting' = waiting
    BY <1>3 DEF return_connection
  <2>3. QED  BY <1>1, <1>2, <2>1, <2>2
<1>4. CASE NextWaiter(usable) # {}
  <2>1. PICK w \in NextWaiter(usable), d \in usable :
             /\ inUse' = freed \cup {d}
             /\ waiting' = Tail(waiting)
             /\ conn' = [conn EXCEPT ![r] = NoConn, ![w] = d]
             /\ pc' = [pc EXCEPT ![r] = "idle", ![w] = "holding"]
    BY <1>4 DEF return_connection
  <2>2. waiting # <<>> /\ w = Head(waiting)
    BY <2>1 DEF NextWaiter
  <2>3. w \in Caller /\ pc[w] = "waiting"
    <3>1. waiting \in Seq(Caller)
      BY DEF LendInv, LentSafely, TypeOK
    <3>2. Len(waiting) \in Nat \ {0} /\ w = waiting[1] /\ 1 \in 1..Len(waiting)
      BY <2>2, <3>1
    <3>3. QED  BY <3>1, <3>2 DEF LendInv, CallbackOnce
  <2>4. w # r /\ conn[w] = NoConn
    BY <1>1, <2>3 DEF LendInv, LentSafely, ExclusiveUse
  <2>5. d \in pool /\ d \notin freed /\ d \notin expired
    BY <2>1 DEF Usable
  <2>6. d \notin closed
    BY <2>5 DEF LendInv, ClosedIsOld
  <2>7. \A s \in Caller : s # r => conn[s] # d
    <3> SUFFICES ASSUME NEW s \in Caller, s # r, conn[s] = d PROVE FALSE
      OBVIOUS
    <3>1. conn[s] \in inUse /\ conn[s] # NoConn
      BY <2>5, PoolAssumption DEF LendInv, LentSafely, TypeOK, ExclusiveUse
    <3>2. conn[s] # conn[r]
      BY <3>1 DEF LendInv, LentSafely, ExclusiveUse
    <3>3. QED  BY <2>5, <3>1, <3>2
  <2>8. QED  BY <1>1, <1>2, <2>1, <2>2, <2>3, <2>4, <2>5, <2>6, <2>7
<1> QED  BY <1>3, <1>4

\* Whose hands return_connection(r) leaves empty, and what it puts in others.
LEMMA ReturnChanges ==
  ASSUME LendInv, NEW r \in Caller, return_connection(r), NEW s \in Caller
  PROVE  /\ s = r => conn'[s] = NoConn
         /\ s # r => \/ conn'[s] = conn[s]
                     \/ conn'[s] \notin expired /\ conn'[s] \notin closed
<1>0. conn \in [Caller -> Conn \cup {NoConn}]
  BY DEF LendInv, LentSafely, TypeOK
<1>1. ASSUME NEW w \in Caller, NEW d \in pool, w # r, d \notin expired, d \notin closed,
             conn' = [conn EXCEPT ![r] = NoConn, ![w] = d]
      PROVE  /\ s = r => conn'[s] = NoConn
             /\ s # r => \/ conn'[s] = conn[s]
                         \/ conn'[s] \notin expired /\ conn'[s] \notin closed
  BY <1>0, <1>1
<1>2. ASSUME conn' = [conn EXCEPT ![r] = NoConn]
      PROVE  (s = r => conn'[s] = NoConn) /\ (s # r => conn'[s] = conn[s])
  BY <1>0, <1>2
<1> QED  BY <1>1, <1>2, ReturnHands

\* pending_creates_ moves with the caller: no step counts a creation twice, and
\* the decrement never finds zero.
LEMMA CountStep == LendInv /\ [Next]_vars => PendingCounted' /\ pending' \in Nat
<1> SUFFICES ASSUME LendInv, [Next]_vars PROVE PendingCounted' /\ pending' \in Nat
  OBVIOUS
<1>0. /\ IsFiniteSet(Creating) /\ pending = Cardinality(Creating) /\ pending \in Nat
      /\ pc \in [Caller -> CallerState]
  BY DEF LendInv, PendingCounted, LentSafely, TypeOK
<1>1. ASSUME Creating' = Creating, pending' = pending
      PROVE  PendingCounted' /\ pending' \in Nat
  BY <1>0, <1>1 DEF PendingCounted
<1>2. ASSUME NEW r \in Caller, pc[r] # "creating", pc' = [pc EXCEPT ![r] = "creating"],
             pending' = pending + 1
      PROVE  PendingCounted' /\ pending' \in Nat
  <2>1. Creating' = Creating \cup {r} /\ r \notin Creating
    BY <1>0, <1>2 DEF Creating, CallerState
  <2>2. IsFiniteSet(Creating \cup {r})
        /\ Cardinality(Creating \cup {r}) = Cardinality(Creating) + 1
    BY <1>0, <2>1, FS_AddElement
  <2>3. QED  BY <1>0, <1>2, <2>1, <2>2 DEF PendingCounted
<1>3. ASSUME NEW r \in Caller, pc[r] = "creating", NEW to \in {"created", "idle"},
             pc' = [pc EXCEPT ![r] = to], pending' = pending - 1
      PROVE  PendingCounted' /\ pending' \in Nat
  <2>1. Creating' = Creating \ {r} /\ r \in Creating
    BY <1>0, <1>3 DEF Creating, CallerState
  <2>2. IsFiniteSet(Creating \ {r})
        /\ Cardinality(Creating \ {r}) = Cardinality(Creating) - 1
    BY <1>0, <2>1, FS_RemoveElement
  <2>3. Cardinality(Creating \ {r}) \in Nat
    BY <2>2, FS_CardinalityType
  <2>4. QED  BY <1>0, <1>3, <2>1, <2>2, <2>3 DEF PendingCounted
<1>4. ASSUME NEW r \in Caller, NEW patient \in BOOLEAN, Acquire(r, patient)
      PROVE  PendingCounted' /\ pending' \in Nat
  <2>1. CASE pending' = pending + 1 /\ pc' = [pc EXCEPT ![r] = "creating"]
    BY <1>2, <1>4, <2>1 DEF Acquire
  <2>2. CASE pending' = pending /\ \E to \in {"holding", "waiting", "idle"} :
                                       pc' = [pc EXCEPT ![r] = to]
    <3>1. Creating' = Creating
      BY <1>0, <1>4, <2>2 DEF Acquire, Creating
    <3>2. QED  BY <1>1, <2>2, <3>1
  <2>3. QED  BY <1>4, <2>1, <2>2 DEF Acquire
<1>5. ASSUME NEW r \in Caller, Create(r) \/ CreateFails(r)
      PROVE  PendingCounted' /\ pending' \in Nat
  BY <1>3, <1>5 DEF Create, CreateFails
<1>6. ASSUME NEW r \in Caller, return_connection(r)
      PROVE  PendingCounted' /\ pending' \in Nat
  <2>1. Creating' = Creating /\ pending' = pending
    BY <1>0, <1>6, ReturnHands DEF Creating
  <2>2. QED  BY <1>1, <2>1
<1>7. ASSUME NEW r \in Caller, Enter(r) \/ Register(r)
      PROVE  PendingCounted' /\ pending' \in Nat
  <2>1. Creating' = Creating /\ pending' = pending
    BY <1>0, <1>7 DEF Enter, Register, Creating
  <2>2. QED  BY <1>1, <2>1
<1>8. CASE FinishShutdown
  <2>1. Creating' = Creating /\ pending' = pending
    BY <1>0, <1>8 DEF FinishShutdown, Creating
  <2>2. QED  BY <1>1, <2>1
<1>9. ASSUME UNCHANGED <<pc, pending>> PROVE PendingCounted' /\ pending' \in Nat
  BY <1>1, <1>9 DEF Creating
<1> QED
  BY <1>4, <1>5, <1>6, <1>7, <1>8, <1>9
  DEF Next, vars, CallerStep, Refuse, InitCreate, BeginShutdown, Expire

\* Every step keeps the types.
LEMMA TypeStep == LendInv /\ [Next]_vars => TypeOK'
<1> SUFFICES ASSUME LendInv, [Next]_vars PROVE TypeOK'
  OBVIOUS
<1>0. pending' \in Nat /\ TypeOK
  BY CountStep DEF LendInv, LentSafely
<1> USE <1>0, PoolAssumption DEF TypeOK, connVars, CallerState
<1>1. CASE InitCreate
  <2>1. created' \in 0..MinConnections
    BY <1>1 DEF InitCreate, Ready
  <2>2. QED  BY <1>1, <2>1, FreshIsNew DEF InitCreate
<1>2. ASSUME NEW r \in Caller, NEW patient \in BOOLEAN, Acquire(r, patient)
      PROVE  TypeOK'
  <2>1. /\ pool' \subseteq Conn /\ closed' \subseteq Conn
        /\ invalid' \subseteq Conn /\ expired' \subseteq Conn
    BY <1>2 DEF Acquire, CleanupExpired, Swept
  <2>2. UNCHANGED <<faults, down, drained, created>>
    BY <1>2 DEF Acquire
  <2>3. /\ inUse' \subseteq Conn
        /\ conn' \in [Caller -> Conn \cup {NoConn}]
        /\ pc' \in [Caller -> CallerState]
    BY <1>2 DEF Acquire, Usable, MarkInUse
  <2>4. waiting' \in Seq(Caller)
    BY <1>2 DEF Acquire
  <2>5. QED  BY <2>1, <2>2, <2>3, <2>4
<1>3. ASSUME NEW r \in Caller, Create(r) PROVE TypeOK'
  BY <1>3, FreshIsNew DEF Create
<1>4. ASSUME NEW r \in Caller, Register(r) PROVE TypeOK'
  <2>1. conn[r] \in Conn
    BY <1>4 DEF Register, LendInv, LentSafely, ExclusiveUse
  <2>2. QED  BY <1>4, <2>1 DEF Register
<1>5. ASSUME NEW r \in Caller, return_connection(r) PROVE TypeOK'
  <2>1. /\ UNCHANGED <<faults, pool, invalid, expired, pending, down, drained, created>>
        /\ closed' \subseteq Conn
    BY <1>5, ReturnHands
  <2>2. ASSUME NEW w \in Caller, NEW d \in pool, waiting # <<>>, waiting' = Tail(waiting),
               inUse' = (inUse \ {conn[r]}) \cup {d},
               conn' = [conn EXCEPT ![r] = NoConn, ![w] = d],
               pc' = [pc EXCEPT ![r] = "idle", ![w] = "holding"]
        PROVE  TypeOK'
    <3>1. waiting' \in Seq(Caller)
      BY <2>2
    <3>2. QED  BY <2>1, <2>2, <3>1
  <2>3. ASSUME inUse' = inUse \ {conn[r]}, conn' = [conn EXCEPT ![r] = NoConn],
               pc' = [pc EXCEPT ![r] = "idle"], waiting' = waiting
        PROVE  TypeOK'
    BY <2>1, <2>3
  <2>4. QED  BY <1>5, <2>2, <2>3, ReturnHands
<1>6. ASSUME NEW r \in Caller, Enter(r) \/ CreateFails(r) PROVE TypeOK'
  BY <1>6 DEF Enter, CreateFails
<1>7. CASE BeginShutdown
  <2>1. down' \in BOOLEAN
    BY <1>7 DEF BeginShutdown
  <2>2. QED  BY <1>7, <2>1 DEF BeginShutdown
<1>8. CASE FinishShutdown
  <2>1. drained' \in BOOLEAN /\ waiting' \in Seq(Caller)
    BY <1>8 DEF FinishShutdown
  <2>2. QED  BY <1>8, <2>1 DEF FinishShutdown
<1>9. ASSUME NEW c \in Conn, Expire(c) PROVE TypeOK'
  BY <1>9 DEF Expire
<1>10. CASE UNCHANGED vars
  BY <1>10 DEF vars
<1> QED
  BY <1>1, <1>2, <1>3, <1>4, <1>5, <1>6, <1>7, <1>8, <1>9, <1>10
  DEF Next, CallerStep, Refuse

-----------------------------------------------------------------------------
\* What the sweep of get_connection removes is in no caller's hands.
LEMMA SweptIsIdle ==
  ASSUME LendInv
  PROVE  /\ Swept \subseteq expired /\ Swept \cap inUse = {}
         /\ \A r \in Caller : conn[r] \notin Swept
BY DEF LendInv, LentSafely, ExclusiveUse, Swept

\* A connection is lent to one caller at a time, and is known to be lent.
LEMMA UseStep == LendInv /\ [Next]_vars => ExclusiveUse'
<1> SUFFICES ASSUME LendInv, [Next]_vars PROVE ExclusiveUse'
  OBVIOUS
<1>0. /\ TypeOK /\ ExclusiveUse
  BY DEF LendInv, LentSafely
<1> USE <1>0, PoolAssumption DEF TypeOK, ExclusiveUse, connVars
<1>1. CASE InitCreate
  BY <1>1, FreshIsNew DEF InitCreate
<1>2. ASSUME NEW r \in Caller, NEW patient \in BOOLEAN, Acquire(r, patient)
      PROVE  ExclusiveUse'
  <2>1. pool' \subseteq pool /\ pc[r] = "entered" /\ conn[r] = NoConn
    BY <1>2 DEF Acquire, CleanupExpired
  <2>2. ASSUME NEW c \in Usable(pool, inUse), inUse' = MarkInUse(c),
               conn' = [conn EXCEPT ![r] = c], pc' = [pc EXCEPT ![r] = "holding"]
        PROVE  ExclusiveUse'
    <3>1. c \in pool /\ c \notin inUse /\ inUse' = inUse \cup {c}
      BY <2>2 DEF Usable, MarkInUse
    <3>2. \A s \in Caller : conn[s] # c
      BY <3>1
    <3>3. QED  BY <2>1, <2>2, <3>1, <3>2
  <2>3. ASSUME UNCHANGED <<inUse, conn>>, NEW to \in {"creating", "waiting", "idle"},
               pc' = [pc EXCEPT ![r] = to]
        PROVE  ExclusiveUse'
    BY <2>1, <2>3
  <2>4. QED  BY <1>2, <2>2, <2>3 DEF Acquire
<1>3. ASSUME NEW r \in Caller, Create(r) PROVE ExclusiveUse'
  <2>1. /\ Fresh \in Conn /\ Fresh \notin pool /\ \A s \in Caller : conn[s] # Fresh
        /\ pc[r] = "creating" /\ UNCHANGED <<pool, inUse>>
        /\ conn' = [conn EXCEPT ![r] = Fresh] /\ pc' = [pc EXCEPT ![r] = "created"]
    BY <1>3, FreshIsNew DEF Create
  <2>2. conn[r] = NoConn
    BY <2>1
  <2>3. QED  BY <2>1, <2>2
<1>4. ASSUME NEW r \in Caller, Register(r) PROVE ExclusiveUse'
  <2>1. /\ pc[r] = "created" /\ conn' = conn /\ pc' = [pc EXCEPT ![r] = "holding"]
        /\ \/ pool' = pool \cup {conn[r]} /\ inUse' = inUse \cup {conn[r]}
           \/ UNCHANGED <<pool, inUse>>
    BY <1>4 DEF Register
  <2>2. QED  BY <2>1
<1>5. ASSUME NEW r \in Caller, return_connection(r) PROVE ExclusiveUse'
  <2>1. CASE /\ inUse' = inUse \ {conn[r]}
             /\ conn' = [conn EXCEPT ![r] = NoConn]
             /\ pc' = [pc EXCEPT ![r] = "idle"]
             /\ pool' = pool
    <3>1. pc[r] = "holding" /\ conn[r] # NoConn
      BY <1>5, ReturnHands
    <3>2. QED  BY <2>1, <3>1
  <2>2. ASSUME NEW w \in Caller, NEW d \in pool, w # r, conn[w] = NoConn,
               \A s \in Caller : s # r => conn[s] # d,
               inUse' = (inUse \ {conn[r]}) \cup {d},
               conn' = [conn EXCEPT ![r] = NoConn, ![w] = d],
               pc' = [pc EXCEPT ![r] = "idle", ![w] = "holding"],
               pool' = pool, conn[r] \in Conn
        PROVE  ExclusiveUse'
    <3>1. /\ conn'[w] = d /\ conn'[r] = NoConn /\ d # NoConn
          /\ pc'[w] = "holding" /\ pc'[r] = "idle"
          /\ \A s \in Caller : s \notin {r, w} => conn'[s] = conn[s] /\ pc'[s] = pc[s]
      BY <2>2
    <3>2. \A s \in Caller : s # r => conn[s] # conn[r]
      BY <2>2
    <3>3. \A c \in inUse' : \E s \in Caller : conn'[s] = c
      BY <2>2, <3>1
    <3>4. \A s, t \in Caller : conn'[s] = conn'[t] /\ conn'[s] # NoConn => s = t
      BY <2>2, <3>1
    <3>5. \A s \in Caller :
             /\ (conn'[s] # NoConn) = (pc'[s] \in {"created", "holding"})
             /\ conn'[s] \in pool' => conn'[s] \in inUse' /\ pc'[s] = "holding"
      BY <2>2, <3>1, <3>2
    <3>6. QED  BY <3>3, <3>4, <3>5
  <2>3. QED  BY <1>5, <2>1, <2>2, ReturnHands
<1>6. ASSUME NEW r \in Caller, Enter(r) \/ CreateFails(r) PROVE ExclusiveUse'
  BY <1>6 DEF Enter, CreateFails
<1>7. CASE FinishShutdown
  BY <1>7 DEF FinishShutdown
<1>8. ASSUME UNCHANGED <<pool, inUse, conn, pc>> PROVE ExclusiveUse'
  BY <1>8
<1> QED
  BY <1>1, <1>2, <1>3, <1>4, <1>5, <1>6, <1>7, <1>8
  DEF Next, vars, CallerStep, Refuse, BeginShutdown, Expire

\* The ages of entries, the order of init and shutdown, and what a pool without
\* faults never sees.
LEMMA AgeStep ==
  LendInv /\ [Next]_vars =>
    (ClosedIsOld /\ PhasesInOrder /\ LentIsPooled /\ NoFaults /\ EmptyAfterShutdown)'
<1> DEFINE Goal == (ClosedIsOld /\ PhasesInOrder /\ LentIsPooled /\ NoFaults
                    /\ EmptyAfterShutdown)'
<1> SUFFICES ASSUME LendInv, [Next]_vars PROVE Goal
  OBVIOUS
<1> USE PoolAssumption
    DEF LendInv, LentSafely, TypeOK, ClosedIsOld, PhasesInOrder, LentIsPooled, NoFaults,
        EmptyAfterShutdown, Ready, connVars
<1>1. CASE InitCreate
  BY <1>1, FreshIsNew DEF InitCreate
<1>2. ASSUME NEW r \in Caller, NEW patient \in BOOLEAN, Acquire(r, patient) PROVE Goal
  <2>1. /\ UNCHANGED <<faults, down, drained, created>> /\ pc[r] = "entered"
        /\ pool' = pool \ Swept /\ closed' = closed \cup Swept
        /\ invalid' = (invalid \ Swept) \cup (pool \cap inUse \cap expired)
        /\ expired' = expired \ Swept
    BY <1>2 DEF Acquire, CleanupExpired
  <2>2. ClosedIsOld'
    BY <2>1, SweptIsIdle
  <2>3. Ready
    BY <2>1
  <2>4. LentIsPooled'
    <3> SUFFICES ASSUME ~down, NEW s \in Caller, pc'[s] = "holding"
                 PROVE  conn'[s] \in pool'
      BY <2>1
    <3>1. CASE s # r
      BY <1>2, <2>1, <3>1, SweptIsIdle DEF Acquire
    <3>2. CASE s = r
      <4>1. PICK c \in Usable(pool, inUse) : conn' = [conn EXCEPT ![r] = c]
        BY <1>2, <3>2 DEF Acquire
      <4>2. QED  BY <2>1, <3>2, <4>1, SweptIsIdle DEF Usable
    <3>3. QED  BY <3>1, <3>2
  <2>5. QED  BY <2>1, <2>2, <2>3, <2>4
<1>3. ASSUME NEW r \in Caller, Create(r) PROVE Goal
  BY <1>3, FreshIsNew DEF Create
<1>4. ASSUME NEW r \in Caller, Register(r) PROVE Goal
  BY <1>4 DEF Register, HeldOpen
<1>5. ASSUME NEW r \in Caller, return_connection(r) PROVE Goal
  <2>1. /\ UNCHANGED <<faults, pool, invalid, expired, down, drained, created>>
        /\ closed' = closed \cup ({conn[r]} \cap pool \cap invalid)
        /\ pc[r] = "holding"
    BY <1>5, ReturnHands
  <2>2. ClosedIsOld' /\ PhasesInOrder' /\ NoFaults' /\ EmptyAfterShutdown'
    BY <2>1
  <2>3. LentIsPooled'
    BY <1>5, <2>1, ReturnHands
  <2>4. QED  BY <2>2, <2>3
<1>6. ASSUME NEW r \in Caller, Enter(r) \/ CreateFails(r) PROVE Goal
  BY <1>6 DEF Enter, CreateFails
<1>7. CASE BeginShutdown
  BY <1>7 DEF BeginShutdown
<1>8. CASE FinishShutdown
  BY <1>8 DEF FinishShutdown
<1>9. ASSUME NEW c \in Conn, Expire(c) PROVE Goal
  BY <1>9 DEF Expire
<1>10. CASE UNCHANGED vars
  BY <1>10 DEF vars
<1> QED
  BY <1>1, <1>2, <1>3, <1>4, <1>5, <1>6, <1>7, <1>8, <1>9, <1>10
  DEF Next, CallerStep, Refuse

\* Nothing that is lent is closed before shutdown().
LEMMA OpenStep == LendInv /\ [Next]_vars => HeldOpen'
<1> SUFFICES ASSUME LendInv, [Next]_vars, ~drained', NEW s \in Caller
             PROVE  conn'[s] \notin closed'
  BY DEF HeldOpen
<1>0. ~drained
  BY DEF Next, vars, InitCreate, Enter, Refuse, CallerStep, Acquire, Create, CreateFails,
     Register, return_connection, BeginShutdown, FinishShutdown, Expire
<1> USE <1>0, PoolAssumption DEF LendInv, LentSafely, TypeOK, HeldOpen, connVars
<1>1. ASSUME NEW r \in Caller, NEW patient \in BOOLEAN, Acquire(r, patient)
      PROVE  conn'[s] \notin closed'
  <2>1. closed' = closed \cup Swept
    BY <1>1 DEF Acquire, CleanupExpired
  <2>2. CASE conn'[s] = conn[s]
    BY <2>1, <2>2, SweptIsIdle
  <2>3. CASE conn'[s] # conn[s]
    <3>1. PICK c \in Usable(pool, inUse) : conn' = [conn EXCEPT ![r] = c]
      BY <1>1, <2>3 DEF Acquire
    <3>2. conn'[s] = c /\ c \in pool /\ c \notin expired
      BY <2>3, <3>1 DEF Usable
    <3>3. QED  BY <2>1, <3>2, SweptIsIdle DEF ClosedIsOld
  <2>4. QED  BY <2>2, <2>3
<1>2. ASSUME NEW r \in Caller, Create(r) PROVE conn'[s] \notin closed'
  BY <1>2 DEF Create
<1>3. ASSUME NEW r \in Caller, return_connection(r) PROVE conn'[s] \notin closed'
  <2>1. /\ closed' = closed \cup ({conn[r]} \cap pool \cap invalid)
        /\ pc[r] = "holding" /\ conn[r] \in Conn
    BY <1>3, ReturnHands
  <2>2. CASE s = r
    <3>1. conn'[r] = NoConn
      BY <1>3, ReturnChanges
    <3>2. QED  BY <2>1, <2>2, <3>1
  <2>3. CASE s # r
    <3>1. conn[s] # conn[r]
      BY <2>1, <2>3 DEF ExclusiveUse
    <3>2. \/ conn'[s] = conn[s]
          \/ conn'[s] \notin expired /\ conn'[s] \notin closed
      BY <1>3, <2>3, ReturnChanges
    <3>3. QED  BY <2>1, <3>1, <3>2 DEF ClosedIsOld
  <2>4. QED  BY <2>2, <2>3
<1>4. ASSUME UNCHANGED <<conn, closed>> PROVE conn'[s] \notin closed'
  BY <1>4
<1> QED
  BY <1>1, <1>2, <1>3, <1>4
  DEF Next, vars, CallerStep, InitCreate, Enter, Refuse, CreateFails, Register,
      BeginShutdown, FinishShutdown, Expire

\* A callback is queued once, while its caller waits.
LEMMA CallbackStep == LendInv /\ [Next]_vars => CallbackOnce'
<1> SUFFICES ASSUME LendInv, [Next]_vars PROVE CallbackOnce'
  OBVIOUS
<1>0. /\ waiting \in Seq(Caller) /\ Len(waiting) \in Nat
      /\ pc \in [Caller -> CallerState]
      /\ \A i, j \in 1..Len(waiting) : waiting[i] = waiting[j] => i = j
      /\ \A r \in Caller : pc[r] = "waiting" <=> \E i \in 1..Len(waiting) : waiting[i] = r
  BY DEF LendInv, LentSafely, TypeOK, CallbackOnce
<1>1. ASSUME waiting' = waiting, \A r \in Caller : pc'[r] = "waiting" <=> pc[r] = "waiting"
      PROVE  CallbackOnce'
  BY <1>0, <1>1 DEF CallbackOnce
<1>2. ASSUME NEW r \in Caller, pc[r] = "entered", waiting' = Append(waiting, r),
             pc' = [pc EXCEPT ![r] = "waiting"]
      PROVE  CallbackOnce'
  <2>1. /\ Len(waiting') = Len(waiting) + 1
        /\ \A i \in 1..Len(waiting) : waiting'[i] = waiting[i]
        /\ waiting'[Len(waiting) + 1] = r
    BY <1>0, <1>2
  <2>2. \A i \in 1..Len(waiting) : waiting[i] # r
    BY <1>0, <1>2
  <2>3. \A i, j \in 1..Len(waiting') : waiting'[i] = waiting'[j] => i = j
    BY <1>0, <2>1, <2>2
  <2>4. ASSUME NEW s \in Caller
        PROVE  pc'[s] = "waiting" <=> \E i \in 1..Len(waiting') : waiting'[i] = s
    BY <1>0, <1>2, <2>1, <2>2
  <2>5. QED  BY <2>3, <2>4 DEF CallbackOnce
<1>3. ASSUME NEW r \in Caller, NEW w \in Caller, waiting # <<>>, w = Head(waiting), w # r,
             pc[r] = "holding", waiting' = Tail(waiting),
             pc' = [pc EXCEPT ![r] = "idle", ![w] = "holding"]
      PROVE  CallbackOnce'
  <2>1. /\ Len(waiting) \in Nat \ {0} /\ w = waiting[1]
        /\ Len(waiting') = Len(waiting) - 1
        /\ \A i \in 1..Len(waiting') : waiting'[i] = waiting[i + 1]
    BY <1>0, <1>3
  <2>2. \A i, j \in 1..Len(waiting') : waiting'[i] = waiting'[j] => i = j
    BY <1>0, <2>1
  <2>3. ASSUME NEW s \in Caller, pc'[s] = "waiting"
        PROVE  \E i \in 1..Len(waiting') : waiting'[i] = s
    <3>1. pc[s] = "waiting" /\ s # w
      BY <1>0, <1>3, <2>3
    <3>2. PICK i \in 1..Len(waiting) : waiting[i] = s
      BY <1>0, <3>1
    <3>3. i - 1 \in 1..Len(waiting') /\ waiting'[i - 1] = s
      BY <2>1, <3>1, <3>2
    <3>4. QED  BY <3>3
  <2>4. ASSUME NEW s \in Caller, NEW i \in 1..Len(waiting'), waiting'[i] = s
        PROVE  pc'[s] = "waiting"
    <3>1. i + 1 \in 1..Len(waiting) /\ waiting[i + 1] = s /\ i + 1 # 1 /\ 1 \in 1..Len(waiting)
      BY <2>1, <2>4
    <3>2. pc[s] = "waiting" /\ s # w
      BY <1>0, <2>1, <3>1
    <3>3. QED  BY <1>0, <1>3, <3>2
  <2>5. QED  BY <2>2, <2>3, <2>4 DEF CallbackOnce
<1>4. ASSUME NEW r \in Caller, NEW patient \in BOOLEAN, Acquire(r, patient)
      PROVE  CallbackOnce'
  <2>1. pc[r] = "entered"
    BY <1>4 DEF Acquire
  <2>2. CASE waiting' = Append(waiting, r) /\ pc' = [pc EXCEPT ![r] = "waiting"]
    BY <1>2, <2>1, <2>2
  <2>3. CASE waiting' = waiting /\ \E to \in {"holding", "creating", "idle"} :
                                       pc' = [pc EXCEPT ![r] = to]
    <3>1. \A s \in Caller : pc'[s] = "waiting" <=> pc[s] = "waiting"
      BY <1>0, <2>1, <2>3
    <3>2. QED  BY <1>1, <2>3, <3>1
  <2>4. QED  BY <1>4, <2>2, <2>3 DEF Acquire
<1>5. ASSUME NEW r \in Caller, return_connection(r) PROVE CallbackOnce'
  <2>1. CASE waiting' = waiting /\ pc' = [pc EXCEPT ![r] = "idle"]
    <3>1. \A s \in Caller : pc'[s] = "waiting" <=> pc[s] = "waiting"
      BY <1>0, <1>5, <2>1, ReturnHands
    <3>2. QED  BY <1>1, <2>1, <3>1
  <2>2. QED  BY <1>3, <1>5, <2>1, ReturnHands
<1>6. ASSUME NEW r \in Caller, Enter(r) \/ Create(r) \/ CreateFails(r) \/ Register(r)
      PROVE  CallbackOnce'
  <2>1. waiting' = waiting /\ \A s \in Caller : pc'[s] = "waiting" <=> pc[s] = "waiting"
    BY <1>0, <1>6 DEF Enter, Create, CreateFails, Register
  <2>2. QED  BY <1>1, <2>1
<1>7. CASE FinishShutdown
  <2>1. Len(waiting') = 0 /\ \A s \in Caller : pc'[s] # "waiting"
    BY <1>0, <1>7 DEF FinishShutdown
  <2>2. QED  BY <2>1 DEF CallbackOnce
<1>8. ASSUME UNCHANGED <<pc, waiting>> PROVE CallbackOnce'
  BY <1>1, <1>8
<1> QED
  BY <1>4, <1>5, <1>6, <1>7, <1>8
  DEF Next, vars, CallerStep, Refuse, InitCreate, BeginShutdown, Expire

\* LendInv holds in every reachable state.
THEOREM Inductive == Spec => []LendInv
<1>1. LendInv /\ [Next]_vars => LendInv'
  BY CountStep, TypeStep, UseStep, AgeStep, OpenStep, CallbackStep DEF LendInv, LentSafely
<1> QED  BY InitSound, <1>1, PTL DEF Spec

\* A connection that get_connection lent belongs to its caller until it is
\* returned: no other caller gets it, no sweep closes it.
THEOREM LendingIsSafe == Spec => []LentSafely
<1>1. LendInv => LentSafely
  BY DEF LendInv
<1> QED  BY Inductive, <1>1, PTL

-----------------------------------------------------------------------------
\* A pool that may have a connection at all queues a callback only while
\* somebody creates or holds a connection.
LEMMA WaiterStep ==
  ASSUME MaxConnections > 0
  PROVE  LendInv /\ NoStrandedWaiter /\ [Next]_vars => NoStrandedWaiter'
<1> SUFFICES ASSUME LendInv, NoStrandedWaiter, [Next]_vars, waiting' # <<>>, faults' = {}
             PROVE  \E s \in Caller : pc'[s] \in {"creating", "created", "holding"}
  BY DEF NoStrandedWaiter
<1>0. faults = {}
  BY DEF Next, vars, InitCreate, Enter, Refuse, CallerStep, Acquire, Create, CreateFails,
     Register, return_connection, BeginShutdown, FinishShutdown, Expire
<1>1. expired = {} /\ ~down /\ pc \in [Caller -> CallerState] /\ pending \in Nat
  BY <1>0 DEF LendInv, LentSafely, TypeOK, NoFaults
<1> DEFINE Busy(s) == pc[s] \in {"creating", "created", "holding"}
<1>2. waiting # <<>> => \E s \in Caller : Busy(s)
  BY <1>0 DEF NoStrandedWaiter
<1> DEFINE Goal == \E s \in Caller : pc'[s] \in {"creating", "created", "holding"}
<1>3. ASSUME NEW r \in Caller, NEW patient \in BOOLEAN, Acquire(r, patient) PROVE Goal
  <2>1. pc[r] = "entered"
    BY <1>3 DEF Acquire
  <2>2. CASE \E s \in Caller : Busy(s)
    <3>1. PICK s \in Caller : Busy(s)
      BY <2>2
    <3>2. s # r /\ pc'[s] = pc[s]
      BY <1>1, <1>3, <2>1, <3>1 DEF Acquire
    <3>3. QED  BY <3>1, <3>2
  <2>3. CASE ~\E s \in Caller : Busy(s)
    <3>1. Creating = {} /\ pending = 0
      BY <2>3, FS_EmptySet DEF Creating, LendInv, PendingCounted
    <3>2. inUse = {}
      BY <2>3, PoolAssumption DEF LendInv, LentSafely, TypeOK, ExclusiveUse, Busy
    <3>3. Swept = {} /\ pool' = pool
      BY <1>1, <1>3 DEF Swept, Acquire, CleanupExpired
    <3>4. \E to \in {"holding", "creating"} : pc' = [pc EXCEPT ![r] = to]
      <4>1. CASE Usable(pool, inUse) # {}
        BY <1>3, <4>1 DEF Acquire
      <4>2. CASE Usable(pool, inUse) = {}
        <5>1. pool = {}
          BY <1>1, <3>2, <4>2 DEF Usable
        <5>2. Cardinality(pool') = 0
          BY <3>3, <5>1, FS_EmptySet
        <5>3. ~(Cardinality(pool') + pending >= MaxConnections)
          BY <3>1, <5>2, PoolAssumption
        <5>4. QED  BY <1>3, <4>2, <5>3 DEF Acquire
      <4>3. QED  BY <4>1, <4>2
    <3>5. QED  BY <1>1, <3>4
  <2>4. QED  BY <2>2, <2>3
<1>4. ASSUME NEW r \in Caller, Create(r) \/ Register(r) PROVE Goal
  BY <1>1, <1>4 DEF Create, Register
<1>5. ASSUME NEW r \in Caller, return_connection(r) PROVE Goal
  <2>1. CASE \E w \in Caller : pc' = [pc EXCEPT ![r] = "idle", ![w] = "holding"]
    BY <1>1, <2>1
  <2>2. CASE /\ waiting = <<>> \/ Usable(pool, inUse \ {conn[r]}) = {}
             /\ waiting' = waiting
    <3>1. conn[r] \in pool
      BY <1>1, <1>5, ReturnHands DEF LendInv, LentIsPooled
    <3>2. conn[r] \in Usable(pool, inUse \ {conn[r]})
      BY <1>1, <3>1 DEF Usable
    <3>3. QED  BY <2>2, <3>2
  <2>3. QED  BY <1>5, <2>1, <2>2, ReturnHands
<1>6. ASSUME NEW r \in Caller, Enter(r) PROVE Goal
  BY <1>1, <1>2, <1>6 DEF Enter
<1>7. ASSUME UNCHANGED <<pc, waiting>> PROVE Goal
  BY <1>2, <1>7
<1>8. ~FinishShutdown /\ \A r \in Caller : ~CreateFails(r)
  BY <1>0, <1>1 DEF FinishShutdown, CreateFails
<1> QED
  BY <1>3, <1>4, <1>5, <1>6, <1>7, <1>8
  DEF Next, vars, CallerStep, Refuse, InitCreate, BeginShutdown, Expire

\* A queued callback has one answer ahead, a pool that was shut down stays empty,
\* and as long as nothing fails nobody waits for a connection that nobody brings.
THEOREM WaitersServed ==
  ASSUME MaxConnections > 0
  PROVE  Spec => []CallersServed
<1>1. Init => NoStrandedWaiter
  BY DEF Init, NoStrandedWaiter
<1>2. LendInv /\ NoStrandedWaiter /\ [Next]_vars => NoStrandedWaiter'
  BY WaiterStep
<1>3. LendInv /\ NoStrandedWaiter => CallersServed
  BY DEF LendInv, CallersServed
<1> QED  BY <1>1, <1>2, <1>3, Inductive, PTL DEF Spec

-----------------------------------------------------------------------------
(* CircuitBreaker.                                                         *)

\* No statement stores HALF_OPEN.
NeverHalfOpen == state \in {"CLOSED", "OPEN"}

\* A thread that is past its failure and on the way to trip: it has not read the
\* count yet, has read one that reaches the threshold, or has decided.
WillTrip(t) ==
    \/ breakerPc[t] \in {"failed", "tripping"}
    \/ breakerPc[t] \in {"counted", "judging"} /\ seen[t] >= Threshold

\* Once the count is at the threshold the breaker is OPEN or somebody is about to
\* open it, except while reset() has stored CLOSED and not yet cleared the count.
TripUnderway ==
    /\ strategy \in {"count", "count_or_rate"}
    /\ failures >= Threshold /\ failures > 0
    /\ overridden \subseteq {"reset"} /\ resetting # 1
    => state = "OPEN" \/ \E t \in Thread : WillTrip(t)

\* What a trip is for, by the strategy.
Cause ==
    /\ strategy = "count" => failures >= Threshold
    /\ strategy = "rate" => failures + successes >= Threshold
    /\ strategy = "count_or_rate" => failures > 0

\* While nobody overrides the breaker its counts only grow: what a thread has
\* read is still covered by them when it acts on it.
ReadIsCovered ==
    overridden = {} =>
        /\ resetting = 0
        /\ state = "OPEN" => Cause
        /\ \A t \in Thread :
              /\ breakerPc[t] \in {"counted", "judging"} => seen[t] <= failures
              /\ breakerPc[t] = "judging" => total[t] <= failures + successes
              /\ breakerPc[t] \in {"rating", "dividing", "tripping"} => Cause
              /\ breakerPc[t] \in {"rating", "dividing"} => strategy # "count"
              /\ breakerPc[t] \notin {"idle", "calling"} => failures > 0

BreakerInv == CB!TypeOK /\ NeverHalfOpen /\ TripUnderway /\ ReadIsCovered

\* A breaker as it is made.
LEMMA BreakerInit == ASSUME CB!BreakerAssumption PROVE CB!Init => BreakerInv
<1> SUFFICES ASSUME CB!Init PROVE BreakerInv
  OBVIOUS
<1>1. CB!TypeOK
  BY DEF CB!Init, CB!TypeOK, CB!BreakerAssumption
<1>2. NeverHalfOpen /\ TripUnderway /\ ReadIsCovered
  BY DEF CB!Init, NeverHalfOpen, TripUnderway, ReadIsCovered
<1> QED  BY <1>1, <1>2 DEF BreakerInv

\* The types, and that HALF_OPEN is not reached.
LEMMA BreakerTyped ==
  ASSUME CB!BreakerAssumption, CB!TypeOK, NeverHalfOpen, [CB!Next]_(CB!vars)
  PROVE  CB!TypeOK' /\ NeverHalfOpen'
<1> USE DEF CB!BreakerAssumption, NeverHalfOpen
<1> DEFINE At == {"idle", "calling", "failed", "counted", "judging", "rating", "dividing", "tripping"}
<1>0. \A t \in Thread : \A p \in At :
         [breakerPc EXCEPT ![t] = p] \in [Thread -> At]
  BY DEF CB!TypeOK
<1>00. /\ 0 \in 0..2 /\ 1 \in 0..2 /\ 2 \in 0..2 /\ calls \in 0..MaxCalls
       /\ calls < MaxCalls => calls + 1 \in 0..MaxCalls
       /\ failures + 1 \in Nat /\ successes + 1 \in Nat /\ halfOpen + 1 \in Nat
       /\ failures + successes \in Nat /\ \A t \in Thread : seen[t] + successes \in Nat
  BY DEF CB!TypeOK
<1>1. ASSUME NEW t \in Thread, CB!Admit(t) PROVE CB!TypeOK' /\ NeverHalfOpen'
  BY <1>0, <1>00, <1>1 DEF CB!Admit, CB!TypeOK
<1>2. ASSUME NEW t \in Thread, CB!Report(t) PROVE CB!TypeOK' /\ NeverHalfOpen'
  BY <1>0, <1>00, <1>2 DEF CB!Report, CB!Goto, CB!TypeOK
<1>3. ASSUME NEW t \in Thread, CB!Refuse(t) PROVE CB!TypeOK' /\ NeverHalfOpen'
  BY <1>0, <1>00, <1>3 DEF CB!Refuse, CB!vars, CB!TypeOK
<1>4. ASSUME NEW t \in Thread, CB!Succeed(t) PROVE CB!TypeOK' /\ NeverHalfOpen'
  BY <1>0, <1>00, <1>4 DEF CB!Succeed, CB!Goto, CB!TypeOK
<1>5. ASSUME NEW t \in Thread, CB!Fail(t) PROVE CB!TypeOK' /\ NeverHalfOpen'
  BY <1>0, <1>00, <1>5 DEF CB!Fail, CB!Goto, CB!TypeOK
<1>6. ASSUME NEW t \in Thread, CB!Trip(t) PROVE CB!TypeOK' /\ NeverHalfOpen'
  BY <1>0, <1>00, <1>6 DEF CB!Trip, CB!Goto, CB!TypeOK
<1>7. ASSUME NEW t \in Thread, CB!ReadFailures(t) PROVE CB!TypeOK' /\ NeverHalfOpen'
  BY <1>0, <1>00, <1>7 DEF CB!ReadFailures, CB!Goto, CB!TypeOK
<1>8. ASSUME NEW t \in Thread, CB!ReadSuccesses(t) PROVE CB!TypeOK' /\ NeverHalfOpen'
  BY <1>0, <1>00, <1>8 DEF CB!ReadSuccesses, CB!Goto, CB!TypeOK
<1>9. ASSUME NEW t \in Thread, CB!RateTotal(t) PROVE CB!TypeOK' /\ NeverHalfOpen'
  BY <1>0, <1>00, <1>9 DEF CB!RateTotal, CB!Goto, CB!TypeOK
<1>10. ASSUME NEW t \in Thread, CB!RateCompare(t) PROVE CB!TypeOK' /\ NeverHalfOpen'
  BY <1>0, <1>00, <1>10 DEF CB!RateCompare, CB!Goto, CB!TypeOK
<1>11. ASSUME NEW t \in Thread, CB!Judge(t) PROVE CB!TypeOK' /\ NeverHalfOpen'
  <2>1. CB!Verdict(seen[t], total[t]) \in {"idle", "rating", "tripping"}
    BY DEF CB!Verdict, CB!TypeOK
  <2>2. QED  BY <1>0, <1>11, <2>1 DEF CB!Judge, CB!Goto, CB!TypeOK
<1>12. CASE CB!trip
  BY <1>00, <1>12 DEF CB!trip, CB!TypeOK
<1>13. CASE CB!recover
  BY <1>00, <1>13 DEF CB!recover, CB!TypeOK
<1>14. CASE CB!ResetState
  BY <1>00, <1>14 DEF CB!ResetState, CB!TypeOK
<1>15. CASE CB!ResetFailures
  BY <1>00, <1>15 DEF CB!ResetFailures, CB!TypeOK
<1>16. CASE CB!ResetSuccesses
  BY <1>00, <1>16 DEF CB!ResetSuccesses, CB!TypeOK
<1>17. CASE UNCHANGED CB!vars
  BY <1>17 DEF CB!vars, CB!TypeOK
<1> QED
  BY <1>1, <1>2, <1>3, <1>4, <1>5, <1>6, <1>7, <1>8, <1>9, <1>10,
     <1>11, <1>12, <1>13, <1>14, <1>15, <1>16, <1>17
  DEF CB!Next, CB!Step

\* The failure that reaches the threshold has a thread on its way to trip, and
\* that thread trips: only reset() closes the breaker under it.
LEMMA TripStep ==
  ASSUME CB!BreakerAssumption, BreakerInv, [CB!Next]_(CB!vars)
  PROVE  TripUnderway'
<1>0. /\ breakerPc \in [Thread -> {"idle", "calling", "failed", "counted", "judging",
                                   "rating", "dividing", "tripping"}]
      /\ seen \in [Thread -> Nat] /\ failures \in Nat /\ Threshold \in Nat
      /\ state \in {"CLOSED", "OPEN"} /\ TripUnderway /\ resetting \in 0..2
      /\ strategy \in {"count", "rate", "count_or_rate"}
  BY DEF BreakerInv, CB!TypeOK, NeverHalfOpen, CB!BreakerAssumption
<1>1. ASSUME NEW t \in Thread, CB!Fail(t) PROVE TripUnderway'
  <2>1. breakerPc'[t] = "failed"
    BY <1>0, <1>1 DEF CB!Fail, CB!Goto
  <2>2. QED  BY <2>1 DEF TripUnderway, WillTrip
<1>2. ASSUME NEW t \in Thread, CB!Trip(t) PROVE TripUnderway'
  BY <1>2 DEF CB!Trip, TripUnderway
<1>3. ASSUME NEW t \in Thread, CB!Judge(t) PROVE TripUnderway'
  <2>1. /\ UNCHANGED <<strategy, state, failures, seen, overridden, resetting>>
        /\ breakerPc[t] = "judging"
        /\ breakerPc' = [breakerPc EXCEPT ![t] = CB!Verdict(seen[t], total[t])]
    BY <1>3 DEF CB!Judge, CB!Goto
  <2>2. ASSUME strategy \in {"count", "count_or_rate"}, WillTrip(t) PROVE breakerPc'[t] = "tripping"
    <3>1. seen[t] >= Threshold
      BY <2>1, <2>2 DEF WillTrip
    <3>2. CB!Verdict(seen[t], total[t]) = "tripping"
      BY <2>2, <3>1 DEF CB!Verdict
    <3>3. QED  BY <1>0, <2>1, <3>2
  <2>3. ASSUME NEW u \in Thread, u # t, WillTrip(u) PROVE WillTrip(u)'
    BY <1>0, <2>1, <2>3 DEF WillTrip
  <2>4. ASSUME strategy \in {"count", "count_or_rate"}, NEW u \in Thread, WillTrip(u)
        PROVE  \E x \in Thread : WillTrip(x)'
    BY <2>2, <2>3, <2>4 DEF WillTrip
  <2>5. QED  BY <1>0, <2>1, <2>4 DEF TripUnderway
<1>4. ASSUME NEW t \in Thread, CB!ReadFailures(t) PROVE TripUnderway'
  <2>1. /\ UNCHANGED <<strategy, state, failures, overridden, resetting>>
        /\ breakerPc'[t] = "counted" /\ seen'[t] = failures
        /\ \A u \in Thread : u # t => breakerPc'[u] = breakerPc[u] /\ seen'[u] = seen[u]
    BY <1>0, <1>4 DEF CB!ReadFailures, CB!Goto
  <2>2. ASSUME failures >= Threshold, NEW u \in Thread, WillTrip(u) PROVE WillTrip(u)'
    BY <2>1, <2>2 DEF WillTrip
  <2>3. QED  BY <1>0, <2>1, <2>2 DEF TripUnderway
<1>5. ASSUME UNCHANGED <<strategy, state, failures, seen, overridden, resetting>>,
             \A u \in Thread : WillTrip(u) => breakerPc'[u] \in {breakerPc[u], "judging"},
             \A u \in Thread : WillTrip(u) /\ breakerPc'[u] # breakerPc[u] => breakerPc[u] = "counted"
      PROVE  TripUnderway'
  <2>1. ASSUME NEW u \in Thread, WillTrip(u) PROVE WillTrip(u)'
    BY <1>0, <1>5, <2>1 DEF WillTrip
  <2>2. QED  BY <1>0, <1>5, <2>1 DEF TripUnderway
<1>6. ASSUME NEW t \in Thread, CB!ReadSuccesses(t) PROVE TripUnderway'
  BY <1>0, <1>5, <1>6 DEF CB!ReadSuccesses, CB!Goto
<1>7. ASSUME NEW t \in Thread, CB!RateTotal(t) PROVE TripUnderway'
  BY <1>0, <1>5, <1>7 DEF CB!RateTotal, CB!Goto, WillTrip
<1>8. ASSUME NEW t \in Thread, CB!RateCompare(t) PROVE TripUnderway'
  BY <1>0, <1>5, <1>8 DEF CB!RateCompare, CB!Goto, WillTrip
<1>9. ASSUME NEW t \in Thread, CB!Admit(t) PROVE TripUnderway'
  BY <1>0, <1>5, <1>9 DEF CB!Admit, WillTrip
<1>10. ASSUME NEW t \in Thread, CB!Report(t) PROVE TripUnderway'
  BY <1>0, <1>5, <1>10 DEF CB!Report, CB!Goto, WillTrip
<1>11. ASSUME NEW t \in Thread, CB!Succeed(t) PROVE TripUnderway'
  <2>1. state' = state
    BY <1>0, <1>11 DEF CB!Succeed
  <2>2. QED  BY <1>0, <1>5, <1>11, <2>1 DEF CB!Succeed, CB!Goto, WillTrip
<1>12. CASE CB!trip \/ CB!recover
  BY <1>12 DEF CB!trip, CB!recover, TripUnderway
<1>13. CASE CB!ResetState \/ CB!ResetFailures
  BY <1>13 DEF CB!ResetState, CB!ResetFailures, TripUnderway
<1>14. CASE CB!ResetSuccesses
  <2>1. resetting # 1
    BY <1>14 DEF CB!ResetSuccesses
  <2>2. UNCHANGED <<strategy, state, failures, breakerPc, seen, overridden>>
    BY <1>14 DEF CB!ResetSuccesses
  <2>3. QED  BY <1>0, <2>1, <2>2 DEF TripUnderway, WillTrip
<1>15. ASSUME UNCHANGED CB!vars PROVE TripUnderway'
  BY <1>0, <1>15 DEF CB!vars, TripUnderway, WillTrip
<1>16. ASSUME NEW t \in Thread, CB!Refuse(t) PROVE TripUnderway'
  BY <1>15, <1>16 DEF CB!Refuse
<1> QED
  BY <1>1, <1>2, <1>3, <1>4, <1>6, <1>7, <1>8, <1>9, <1>10, <1>11, <1>12, <1>13, <1>14,
     <1>15, <1>16
  DEF CB!Next, CB!Step

\* What ReadIsCovered says of one thread.
Covered(t) ==
    /\ breakerPc[t] \in {"counted", "judging"} => seen[t] <= failures
    /\ breakerPc[t] = "judging" => total[t] <= failures + successes
    /\ breakerPc[t] \in {"rating", "dividing", "tripping"} => Cause
    /\ breakerPc[t] \in {"rating", "dividing"} => strategy # "count"
    /\ breakerPc[t] \notin {"idle", "calling"} => failures > 0

\* Without an override the counts grow, so what was read stays covered and a
\* cause stays one.
LEMMA CoveredStep ==
  ASSUME CB!BreakerAssumption, BreakerInv, [CB!Next]_(CB!vars)
  PROVE  ReadIsCovered'
<1> SUFFICES ASSUME overridden' = {}
             PROVE  /\ resetting' = 0
                    /\ state' = "OPEN" => Cause'
                    /\ \A t \in Thread : Covered(t)'
  BY DEF ReadIsCovered, Covered
<1>0. /\ breakerPc \in [Thread -> {"idle", "calling", "failed", "counted", "judging",
                                   "rating", "dividing", "tripping"}]
      /\ seen \in [Thread -> Nat] /\ total \in [Thread -> Nat]
      /\ failures \in Nat /\ successes \in Nat /\ Threshold \in Nat
      /\ state \in {"CLOSED", "OPEN"} /\ ReadIsCovered
      /\ strategy \in {"count", "rate", "count_or_rate"}
  BY DEF BreakerInv, CB!TypeOK, NeverHalfOpen, CB!BreakerAssumption
<1>1. ASSUME overridden = {}
      PROVE  /\ resetting = 0
             /\ state = "OPEN" => Cause
             /\ \A t \in Thread : Covered(t)
  BY <1>0, <1>1 DEF ReadIsCovered, Covered
<1> DEFINE Goal == /\ resetting' = 0
                   /\ state' = "OPEN" => Cause'
                   /\ \A t \in Thread : Covered(t)'
\* The other threads, and the breaker, in a step that changes the counts upward.
<1>2. ASSUME overridden = {}, strategy' = strategy, failures' \in Nat, successes' \in Nat,
             failures' >= failures, successes' >= successes
      PROVE  /\ Cause => Cause'
             /\ \A u \in Thread : /\ breakerPc'[u] = breakerPc[u] /\ seen'[u] = seen[u]
                                  /\ total'[u] = total[u]
                                  => Covered(u)'
  <2>1. Cause => Cause'
    <3>1. /\ failures >= Threshold => failures' >= Threshold
          /\ failures + successes >= Threshold => failures' + successes' >= Threshold
          /\ failures > 0 => failures' > 0
      <4>1. failures \in Nat /\ successes \in Nat /\ Threshold \in Nat
        BY <1>0
      <4>2. failures' >= failures /\ failures' \in Nat
        BY <1>2
      <4>3. failures >= Threshold => failures' >= Threshold
        BY <4>1, <4>2
      <4>4. failures > 0 => failures' > 0
        BY <4>1, <4>2
      <4>5. PICK a \in Nat, b \in Nat : a = failures' /\ b = successes'
        BY <1>2
      <4>6. a >= failures /\ b >= successes
        BY <1>2, <4>5
      <4>7. failures + successes >= Threshold => a + b >= Threshold
        BY <4>1, <4>6
      <4>8. QED  BY <4>3, <4>4, <4>5, <4>7
    <3>2. QED  BY <1>2, <3>1 DEF Cause
  <2>2. ASSUME NEW u \in Thread, breakerPc'[u] = breakerPc[u], seen'[u] = seen[u], total'[u] = total[u]
        PROVE  Covered(u)'
    <3>1. Covered(u) /\ seen[u] \in Nat /\ total[u] \in Nat
      BY <1>0, <1>1, <1>2
    <3>2. QED  BY <1>0, <1>2, <2>1, <2>2, <3>1 DEF Covered
  <2>3. QED  BY <2>1, <2>2
<1>3. ASSUME NEW t \in Thread,
             UNCHANGED <<strategy, failures, successes, resetting, overridden>>,
             \A u \in Thread : u # t =>
                 breakerPc'[u] = breakerPc[u] /\ seen'[u] = seen[u] /\ total'[u] = total[u],
             state' = "OPEN" => state = "OPEN" \/ Cause,
             Covered(t)'
      PROVE  Goal
  <2>1. overridden = {} /\ failures' >= failures /\ successes' >= successes
    BY <1>0, <1>3
  <2>2. QED  BY <1>0, <1>1, <1>2, <1>3, <2>1
<1>4. ASSUME NEW t \in Thread, CB!Admit(t) PROVE Goal
  <2>1. breakerPc'[t] \in {"idle", "calling"}
    BY <1>0, <1>4 DEF CB!Admit
  <2>2. Covered(t)'
    BY <2>1 DEF Covered
  <2>3. QED  BY <1>0, <1>3, <1>4, <2>2 DEF CB!Admit
<1>5. ASSUME NEW t \in Thread, CB!Report(t) PROVE Goal
  <2>1. Covered(t)'
    BY <1>0, <1>5 DEF CB!Report, CB!Goto, Covered
  <2>2. QED  BY <1>0, <1>3, <1>5, <2>1 DEF CB!Report, CB!Goto
<1>6. ASSUME NEW t \in Thread, CB!Succeed(t) PROVE Goal
  <2>1. /\ breakerPc'[t] = "idle" /\ successes' = successes + 1 /\ state' = state
        /\ UNCHANGED <<strategy, failures, resetting, overridden, seen, total>>
        /\ \A u \in Thread : u # t => breakerPc'[u] = breakerPc[u]
    BY <1>0, <1>6 DEF CB!Succeed, CB!Goto
  <2>2. Covered(t)'
    BY <2>1 DEF Covered
  <2>3. overridden = {} /\ failures' \in Nat /\ successes' \in Nat /\ failures' >= failures /\ successes' >= successes
    BY <1>0, <2>1
  <2>4. QED  BY <1>1, <1>2, <2>1, <2>2, <2>3
<1>7. ASSUME NEW t \in Thread, CB!Fail(t) PROVE Goal
  <2>1. /\ breakerPc'[t] = "failed" /\ failures' = failures + 1
        /\ UNCHANGED <<strategy, state, successes, resetting, overridden, seen, total>>
        /\ \A u \in Thread : u # t => breakerPc'[u] = breakerPc[u]
    BY <1>0, <1>7 DEF CB!Fail, CB!Goto
  <2>2. overridden = {} /\ failures' \in Nat /\ successes' \in Nat /\ failures' >= failures /\ successes' >= successes
    BY <1>0, <2>1
  <2>3. Covered(t)'
    BY <1>0, <2>1 DEF Covered
  <2>4. QED  BY <1>1, <1>2, <2>1, <2>2, <2>3
<1>8. ASSUME NEW t \in Thread, CB!ReadFailures(t) PROVE Goal
  <2>1. breakerPc[t] = "failed" /\ breakerPc'[t] = "counted" /\ seen'[t] = failures
    BY <1>0, <1>8 DEF CB!ReadFailures, CB!Goto
  <2>2. failures' = failures /\ overridden = {}
    BY <1>8 DEF CB!ReadFailures
  <2>3. Covered(t)'
    BY <1>0, <1>1, <2>1, <2>2 DEF Covered
  <2>4. QED  BY <1>0, <1>3, <1>8, <2>3 DEF CB!ReadFailures, CB!Goto
<1>9. ASSUME NEW t \in Thread, CB!ReadSuccesses(t) PROVE Goal
  <2>1. /\ breakerPc[t] = "counted" /\ breakerPc'[t] = "judging"
        /\ total'[t] = seen[t] + successes /\ seen'[t] = seen[t]
    BY <1>0, <1>9 DEF CB!ReadSuccesses, CB!Goto
  <2>2. failures' = failures /\ successes' = successes /\ overridden = {}
    BY <1>9 DEF CB!ReadSuccesses
  <2>3. Covered(t) /\ seen[t] \in Nat
    BY <1>0, <1>1, <2>2
  <2>4. Covered(t)'
    BY <1>0, <2>1, <2>2, <2>3 DEF Covered
  <2>5. QED  BY <1>0, <1>3, <1>9, <2>4 DEF CB!ReadSuccesses, CB!Goto
<1>10. ASSUME NEW t \in Thread, CB!Judge(t) PROVE Goal
  <2>1. /\ breakerPc[t] = "judging" /\ breakerPc'[t] = CB!Verdict(seen[t], total[t])
        /\ UNCHANGED <<strategy, failures, successes>> /\ overridden = {}
    BY <1>0, <1>10 DEF CB!Judge, CB!Goto
  <2>2. Covered(t) /\ seen[t] \in Nat /\ total[t] \in Nat
    BY <1>0, <1>1, <2>1
  <2>3. /\ CB!Verdict(seen[t], total[t]) \in {"idle", "rating", "tripping"}
        /\ CB!Verdict(seen[t], total[t]) = "rating" => strategy # "count"
        /\ CB!Verdict(seen[t], total[t]) # "idle" /\ strategy = "count" => seen[t] >= Threshold
        /\ CB!Verdict(seen[t], total[t]) # "idle" /\ strategy = "rate" => ~(total[t] < Threshold)
    BY <1>0 DEF CB!Verdict
  <2>4. CB!Verdict(seen[t], total[t]) # "idle" => Cause
    BY <1>0, <2>1, <2>2, <2>3 DEF Covered, Cause
  <2>5. Covered(t)'
    BY <2>1, <2>2, <2>3, <2>4 DEF Covered, Cause
  <2>6. QED  BY <1>0, <1>3, <1>10, <2>5 DEF CB!Judge, CB!Goto
<1>11. ASSUME NEW t \in Thread, CB!RateTotal(t) PROVE Goal
  <2>1. /\ breakerPc[t] = "rating" /\ breakerPc'[t] = "dividing"
        /\ UNCHANGED <<strategy, failures, successes>> /\ overridden = {}
    BY <1>0, <1>11 DEF CB!RateTotal, CB!Goto
  <2>2. Covered(t)'
    BY <1>1, <2>1 DEF Covered, Cause
  <2>3. QED  BY <1>0, <1>3, <1>11, <2>2 DEF CB!RateTotal, CB!Goto
<1>12. ASSUME NEW t \in Thread, CB!RateCompare(t) PROVE Goal
  <2>1. /\ breakerPc[t] = "dividing" /\ breakerPc'[t] \in {"tripping", "idle"}
        /\ UNCHANGED <<strategy, failures, successes>> /\ overridden = {}
    BY <1>0, <1>12 DEF CB!RateCompare, CB!Goto
  <2>2. Covered(t)'
    BY <1>1, <2>1 DEF Covered, Cause
  <2>3. QED  BY <1>0, <1>3, <1>12, <2>2 DEF CB!RateCompare, CB!Goto
<1>13. ASSUME NEW t \in Thread, CB!Trip(t) PROVE Goal
  <2>1. /\ breakerPc[t] = "tripping" /\ breakerPc'[t] = "idle" /\ overridden = {}
    BY <1>0, <1>13 DEF CB!Trip, CB!Goto
  <2>2. Covered(t)' /\ Cause
    BY <1>1, <2>1 DEF Covered
  <2>3. QED  BY <1>0, <1>3, <1>13, <2>2 DEF CB!Trip, CB!Goto
<1>14. CASE CB!trip \/ CB!recover \/ CB!ResetState
  BY <1>14 DEF CB!trip, CB!recover, CB!ResetState
<1>15. CASE CB!ResetFailures \/ CB!ResetSuccesses
  BY <1>1, <1>15 DEF CB!ResetFailures, CB!ResetSuccesses
<1>16. ASSUME UNCHANGED CB!vars PROVE Goal
  BY <1>1, <1>16 DEF CB!vars, Covered, Cause
<1>17. ASSUME NEW t \in Thread, CB!Refuse(t) PROVE Goal
  BY <1>16, <1>17 DEF CB!Refuse
<1> QED
  BY <1>4, <1>5, <1>6, <1>7, <1>8, <1>9, <1>10, <1>11, <1>12, <1>13, <1>14, <1>15, <1>16, <1>17
  DEF CB!Next, CB!Step

\* DefaultCircuitBreaker, for any number of threads, any thresholds and any of
\* its strategies: when the recordings of failures that reach the threshold are
\* over the breaker is OPEN, and without a call of trip, recover or reset it is
\* OPEN only when its counts show the cause.
THEOREM BreakerIsSound == CB!Spec => []BreakerSound
<1>0. CB!BreakerAssumption
  BY ServicesAssumption
<1>1. BreakerInv /\ [CB!Next]_(CB!vars) => BreakerInv'
  BY <1>0, BreakerTyped, TripStep, CoveredStep DEF BreakerInv
<1>2. BreakerInv => CB!BreakerSound
  <2> SUFFICES ASSUME BreakerInv PROVE CB!BreakerSound
    OBVIOUS
  <2>1. CB!NoMissedTrip
    BY DEF BreakerInv, TripUnderway, WillTrip, CB!NoMissedTrip
  <2>2. CB!OpenHasCause
    <3> SUFFICES ASSUME state = "OPEN", overridden = {}
                 PROVE  CASE strategy = "count" -> failures >= Threshold
                          [] strategy = "rate" -> failures + successes >= Threshold
                          [] OTHER -> failures > 0
      BY DEF CB!OpenHasCause
    <3>1. Cause /\ strategy \in {"count", "rate", "count_or_rate"}
      BY <1>0 DEF BreakerInv, ReadIsCovered, CB!TypeOK, CB!BreakerAssumption
    <3>2. QED  BY <3>1 DEF Cause
  <2>3. QED  BY <2>1, <2>2 DEF BreakerInv, CB!BreakerSound
<1>3. CB!Init => BreakerInv
  BY <1>0, BreakerInit
<1> QED  BY <1>1, <1>2, <1>3, PTL DEF CB!Spec, BreakerSound

-----------------------------------------------------------------------------
(* NodeRegistry and its consistent hash.                                   *)

\* A ring holds all virtual nodes of each of its nodes, at their places, and
\* nothing else.
WholeNodes(r) ==
    /\ r \subseteq Place \X Server
    /\ \A v \in r : v[1] \in hashOf[v[2]] /\ hashOf[v[2]] \X {v[2]} \subseteq r

RingsWhole ==
    /\ ring \in [NR!Group -> SUBSET (Place \X Server)]
    /\ \A g \in NR!Group : WholeNodes(ring[g])

\* Every set of naturals that is not empty has a smallest element, which is what
\* lower_bound finds.
LEMMA SmallestPlace ==
  ASSUME NEW S \in SUBSET Nat, S # {}
  PROVE  NR!Min(S) \in S /\ \A y \in S : NR!Min(S) <= y
<1> DEFINE R == OpToRel(<, Nat)
<1>0. IsWellFoundedOn(R, Nat) /\ R = {ss \in Nat \X Nat : ss[1] < ss[2]}
  BY NatLessThanWellFounded DEF OpToRel
<1> HIDE DEF R
<1>1. PICK x \in S : \A y \in S : ~(<<y, x>> \in R)
  BY <1>0, WFMin
<1>2. ASSUME NEW y \in S PROVE x <= y
  <2>1. x \in Nat /\ y \in Nat /\ ~(<<y, x>> \in R)
    BY <1>1
  <2>2. ~(y < x)
    BY <1>0, <2>1
  <2>3. QED  BY <2>1, <2>2
<1> QED  BY <1>2 DEF NR!Min

\* select_instance gives the node at the first place at or after h, or at the
\* first place of all.
LEMMA Selected ==
  ASSUME NR!HashAssumption, NEW r, WholeNodes(r), r # {}, NEW h \in Place
  PROVE  \E p \in Nat :
            /\ <<p, NR!select_instance(r, h)>> \in r
            /\ \A v \in r : \/ p >= h /\ (v[1] >= h => p <= v[1])
                            \/ p < h /\ v[1] < h /\ p <= v[1]
<1> DEFINE places == {v[1] : v \in r}
           after == {p \in places : p >= h}
           at == NR!Min(IF after # {} THEN after ELSE places)
<1>1. places \in SUBSET Nat /\ places # {} /\ h \in Nat
  <2>1. Place \subseteq Nat /\ h \in Nat
    BY DEF NR!HashAssumption
  <2>2. ASSUME NEW v \in r PROVE v[1] \in Place
    BY DEF WholeNodes
  <2>3. places \subseteq Place
    BY <2>2
  <2>4. places # {}
    OBVIOUS
  <2> QED  BY <2>1, <2>3, <2>4
<1>2. at \in places /\ (IF after # {} THEN at >= h /\ \A y \in after : at <= y
                                      ELSE \A y \in places : at <= y)
  <2>1. CASE after # {}
    <3>1. after \in SUBSET Nat
      BY <1>1
    <3>2. NR!Min(after) \in after /\ \A y \in after : NR!Min(after) <= y
      BY <2>1, <3>1, SmallestPlace
    <3>3. QED  BY <2>1, <3>2
  <2>2. CASE after = {}
    BY <1>1, <2>2, SmallestPlace
  <2>3. QED  BY <2>1, <2>2
<1>3. NR!select_instance(r, h) = (CHOOSE v \in r : v[1] = at)[2]
  BY DEF NR!select_instance
<1> HIDE DEF at
<1>4. PICK v \in r : v = (CHOOSE u \in r : u[1] = at) /\ v[1] = at
  BY <1>2
<1>5. v = <<v[1], v[2]>>
  BY DEF WholeNodes
<1>6. <<at, NR!select_instance(r, h)>> \in r
  BY <1>3, <1>4, <1>5
<1>7. \A u \in r : u[1] \in places /\ u[1] \in Nat
  BY <1>1
<1>8. at \in Nat
  BY <1>1, <1>2
<1>9. \A u \in r : \/ at >= h /\ (u[1] >= h => at <= u[1])
                   \/ at < h /\ u[1] < h /\ at <= u[1]
  <2>1. CASE after # {}
    BY <1>1, <1>2, <1>7, <1>8, <2>1
  <2>2. CASE after = {}
    <3>1. \A u \in r : ~(u[1] >= h) /\ at <= u[1]
      BY <1>2, <1>7, <2>2
    <3>2. ~(at >= h)
      BY <1>2, <2>2
    <3>3. QED  BY <1>1, <1>7, <1>8, <3>1, <3>2
  <2>3. QED  BY <2>1, <2>2
<1> QED  BY <1>6, <1>8, <1>9

\* Between two rings of whole nodes a key stays where it is unless the node it
\* is on leaves or the node it goes to is new.
LEMMA KeyStays ==
  ASSUME NR!HashAssumption, NEW r, WholeNodes(r), r # {}, NEW s, WholeNodes(s), s # {},
         NEW h \in Place,
         NR!select_instance(s, h) \in NR!Members(r), NR!select_instance(r, h) \in NR!Members(s)
  PROVE  NR!select_instance(r, h) = NR!select_instance(s, h)
<1>1. PICK m : m = NR!select_instance(r, h)
  OBVIOUS
<1>2. PICK n : n = NR!select_instance(s, h)
  OBVIOUS
<1>3. PICK p \in Nat : /\ <<p, m>> \in r
                       /\ \A v \in r : \/ p >= h /\ (v[1] >= h => p <= v[1])
                                       \/ p < h /\ v[1] < h /\ p <= v[1]
  BY <1>1, Selected
<1>4. PICK q \in Nat : /\ <<q, n>> \in s
                       /\ \A v \in s : \/ q >= h /\ (v[1] >= h => q <= v[1])
                                       \/ q < h /\ v[1] < h /\ q <= v[1]
  BY <1>2, Selected
<1>5. m \in Server /\ n \in Server /\ p \in hashOf[m] /\ q \in hashOf[n]
  BY <1>3, <1>4 DEF WholeNodes
<1>6. <<q, n>> \in r /\ <<p, m>> \in s
  <2>1. PICK v \in r : v[2] = n
    BY <1>2 DEF NR!Members
  <2>2. PICK w \in s : w[2] = m
    BY <1>1 DEF NR!Members
  <2>3. hashOf[n] \X {n} \subseteq r /\ hashOf[m] \X {m} \subseteq s
    BY <2>1, <2>2 DEF WholeNodes
  <2>4. QED  BY <1>5, <2>3
<1>7. h \in Nat
  BY DEF NR!HashAssumption
<1>8. /\ (p >= h /\ (q >= h => p <= q)) \/ (p < h /\ q < h /\ p <= q)
      /\ (q >= h /\ (p >= h => q <= p)) \/ (q < h /\ p < h /\ q <= p)
  BY <1>3, <1>4, <1>6
<1>9. p = q
  BY <1>7, <1>8
<1> QED  BY <1>1, <1>2, <1>5, <1>9 DEF NR!HashAssumption

\* Registrations, removals and files keep the rings whole.
LEMMA RingStep ==
  ASSUME NR!HashAssumption, RingsWhole, [NR!Next]_(NR!vars)
  PROVE  RingsWhole'
<1>0. \A n \in Server : hashOf[n] \in SUBSET Place
  BY DEF NR!HashAssumption
<1>1. ASSUME NEW n \in Server, NEW t \in ServerType, NR!register_node(n, t)
      PROVE  RingsWhole'
  <2>1. ring' = [ring EXCEPT ![t] = @ \cup (hashOf[n] \X {n})]
    BY <1>1 DEF NR!register_node, NR!add_instance
  <2>2. ASSUME NEW g \in NR!Group PROVE WholeNodes(ring'[g])
    BY <1>0, <2>1 DEF RingsWhole, WholeNodes
  <2>3. QED  BY <2>1, <2>2 DEF RingsWhole, WholeNodes
<1>2. ASSUME NEW n \in Server, NR!unregister_node(n)
      PROVE  RingsWhole'
  <2>1. ring' = [ring EXCEPT ![nodes[n].type] = {v \in @ : v[2] # n}]
    BY <1>2 DEF NR!unregister_node, NR!remove_instance
  <2>2. ASSUME NEW g \in NR!Group PROVE WholeNodes(ring'[g])
    BY <1>0, <2>1 DEF RingsWhole, WholeNodes
  <2>3. QED  BY <2>1, <2>2 DEF RingsWhole, WholeNodes
<1>3. ASSUME NEW S \in SUBSET Server, NEW file \in [S -> ServerType], NR!load_from_yaml_node(file)
      PROVE  RingsWhole'
  <2>1. ring' = [g \in NR!Group |->
                    UNION {hashOf[n] \X {n} : n \in {x \in S : g \in {file[x], "__all__"}}}]
    BY <1>3 DEF NR!load_from_yaml_node
  <2>2. ASSUME NEW g \in NR!Group PROVE WholeNodes(ring'[g])
    <3>1. \A v : v \in ring'[g] <=>
                    \E n \in S : g \in {file[n], "__all__"} /\ v \in hashOf[n] \X {n}
      BY <2>1
    <3>2. ring'[g] \subseteq Place \X Server
      BY <1>0, <3>1
    <3>3. ASSUME NEW v \in ring'[g]
          PROVE  v[1] \in hashOf[v[2]] /\ hashOf[v[2]] \X {v[2]} \subseteq ring'[g]
      <4>1. PICK n \in S : g \in {file[n], "__all__"} /\ v \in hashOf[n] \X {n}
        BY <3>1, <3>3
      <4>2. v[2] = n /\ v[1] \in hashOf[n]
        BY <4>1
      <4>3. hashOf[n] \X {n} \subseteq ring'[g]
        BY <3>1, <4>1
      <4>4. QED  BY <4>2, <4>3
    <3>4. QED  BY <3>2, <3>3 DEF WholeNodes
  <2>3. QED  BY <2>1, <2>2 DEF RingsWhole, WholeNodes
<1>4. CASE UNCHANGED NR!vars
  BY <1>4 DEF NR!vars, RingsWhole
<1> QED  BY <1>1, <1>2, <1>3, <1>4 DEF NR!Next

\* For any hash without collisions and any number of virtual nodes: whichever
\* nodes register, leave or come with a new file, select_node_by_hash moves a key
\* only to a node that is new in its ring or away from one that left it.
THEOREM KeysMoveMinimally == NR!Spec => MinimalMovement
<1>0. NR!HashAssumption
  BY ServicesAssumption
<1>1. NR!Init => RingsWhole
  BY DEF NR!Init, RingsWhole, WholeNodes
<1>2. RingsWhole /\ [NR!Next]_(NR!vars) => RingsWhole'
  BY <1>0, RingStep
<1>3. RingsWhole /\ RingsWhole' =>
         \A g \in NR!Group, h \in Place :
             ring[g] # {} /\ ring'[g] # {} =>
                 LET was == NR!select_instance(ring[g], h)
                     is == NR!select_instance(ring'[g], h)
                 IN  was # is => is \notin NR!Members(ring[g]) \/ was \notin NR!Members(ring'[g])
  BY <1>0, KeyStays DEF RingsWhole
<1> QED  BY <1>1, <1>2, <1>3, PTL DEF NR!Spec, MinimalMovement, NR!MinimalMovement

-----------------------------------------------------------------------------
(* ObjectPool.                                                             *)

\* The objects whose acquire has returned.
Loaned == UNION {lent[t] : t \in Borrower}

ObjectsType ==
    /\ stack \in Seq(Object)
    /\ lent \in [Borrower -> SUBSET Object] /\ taken \in [Borrower -> SUBSET Object]
    /\ made \in Nat /\ borrowed \in Nat
    /\ poolAlive \in BOOLEAN /\ initialSize \in Initials

\* An object is at one place of the stack or with one borrower, which has either
\* counted it or not; and at most one that a thread took is not counted yet.
EachInOnePlace ==
    /\ \A i, j \in 1..Len(stack) : stack[i] = stack[j] => i = j
    /\ \A i \in 1..Len(stack), t \in Borrower : stack[i] \notin lent[t] /\ stack[i] \notin taken[t]
    /\ \A s, t \in Borrower : s # t => (lent[s] \cup taken[s]) \cap (lent[t] \cup taken[t]) = {}
    /\ \A t \in Borrower : lent[t] \cap taken[t] = {} /\ \A o, p \in taken[t] : o = p

CountersRight ==
    /\ borrowed = Cardinality(Loaned)
    /\ poolAlive => /\ made = Len(stack) + Cardinality(OP!Out)
                    /\ made <= MaxSize \/ made <= initialSize

ObjectsInv == ObjectsType /\ EachInOnePlace /\ CountersRight

\* ObjectPool counts with the same module FiniteSets.
LEMMA SameCount ==
  ASSUME NEW S
  PROVE  (OP!IsFiniteSet(S) <=> IsFiniteSet(S)) /\ OP!Cardinality(S) = Cardinality(S)
<1>1. OP!IsFiniteSet(S) <=> IsFiniteSet(S)
  BY DEF OP!IsFiniteSet, IsFiniteSet
<1>2. OP!Cardinality(S) = Cardinality(S)
  BY DEF OP!Cardinality, Cardinality
<1> QED  BY <1>1, <1>2

\* There are enough objects, and finitely many.
LEMMA ObjectsEnough ==
  ASSUME OP!ObjectsAssumption
  PROVE  /\ IsFiniteSet(Object) /\ Cardinality(Object) \in Nat
         /\ MaxSize \in Nat /\ MaxSize <= Cardinality(Object)
         /\ \A n \in Initials : n \in Nat /\ n <= Cardinality(Object)
<1>1. IsFiniteSet(Object) /\ OP!Cardinality(Object) = Cardinality(Object)
  BY SameCount DEF OP!ObjectsAssumption
<1> QED  BY <1>1, FS_CardinalityType DEF OP!ObjectsAssumption

\* The objects of a sequence without repetition are as many as it is long.
LEMMA DistinctCounted ==
  ASSUME NEW S, NEW s \in Seq(S), \A i, j \in 1..Len(s) : s[i] = s[j] => i = j
  PROVE  IsFiniteSet(OP!ToSet(s)) /\ Cardinality(OP!ToSet(s)) = Len(s)
<1>1. Len(s) \in Nat /\ DOMAIN s = 1..Len(s)
  OBVIOUS
<1>2. s \in Bijection(1..Len(s), OP!ToSet(s))
  BY <1>1 DEF Bijection, Injection, Surjection, IsInjective, OP!ToSet
<1>3. ExistsBijection(1..Len(s), OP!ToSet(s))
  BY <1>2 DEF ExistsBijection
<1> QED  BY <1>1, <1>3, FS_CountingElements, FS_NatBijection

\* The first n elements of a sequence.
LEMMA PrefixKept ==
  ASSUME NEW S, NEW s \in Seq(S), NEW n \in 0..Len(s)
  PROVE  /\ SubSeq(s, 1, n) \in Seq(S) /\ Len(SubSeq(s, 1, n)) = n
         /\ \A i \in 1..n : SubSeq(s, 1, n)[i] = s[i]
<1>1. Len(s) \in Nat /\ n \in Int /\ 1 \in Int /\ \A i \in 1..n : s[i] \in S
  OBVIOUS
<1> QED  BY <1>1, SubSeqProperties

\* What is lent and taken is among finitely many objects.
LEMMA LoansFinite ==
  ASSUME OP!ObjectsAssumption, ObjectsType
  PROVE  /\ IsFiniteSet(OP!Out) /\ OP!Out \subseteq Object
         /\ IsFiniteSet(Loaned) /\ Loaned \subseteq OP!Out
         /\ Cardinality(OP!Out) \in Nat /\ Cardinality(Loaned) \in Nat
<1>1. OP!Out \subseteq Object /\ Loaned \subseteq OP!Out
  BY DEF ObjectsType, OP!Out, Loaned
<1>2. IsFiniteSet(OP!Out) /\ IsFiniteSet(Loaned)
  BY <1>1, ObjectsEnough, FS_Subset
<1> QED  BY <1>1, <1>2, FS_CardinalityType

LEMMA MemberOfOut ==
  ASSUME NEW o
  PROVE  /\ o \in OP!Out <=> \E t \in Borrower : o \in lent[t] \/ o \in taken[t]
         /\ o \in Loaned <=> \E t \in Borrower : o \in lent[t]
BY DEF OP!Out, Loaned

\* While created_count_ is below the limit there is an object to make.
LEMMA FreshObject ==
  ASSUME OP!ObjectsAssumption, ObjectsInv, poolAlive, made < MaxSize
  PROVE  /\ OP!Fresh \in Object /\ OP!Fresh \notin OP!Out
         /\ \A i \in 1..Len(stack) : stack[i] # OP!Fresh
<1>1. stack \in Seq(Object) /\ Len(stack) \in Nat /\ DOMAIN stack = 1..Len(stack)
  BY DEF ObjectsInv, ObjectsType
<1>2. IsFiniteSet(OP!ToSet(stack)) /\ Cardinality(OP!ToSet(stack)) = Len(stack)
  BY <1>1, DistinctCounted DEF ObjectsInv, EachInOnePlace
<1>3. IsFiniteSet(OP!Out) /\ Cardinality(OP!Out) \in Nat
  BY LoansFinite DEF ObjectsInv
<1>4. OP!ToSet(stack) \cap OP!Out = {}
  BY <1>1, MemberOfOut DEF ObjectsInv, EachInOnePlace, OP!ToSet
<1>5. IsFiniteSet(OP!Existing) /\ Cardinality(OP!Existing) = Len(stack) + Cardinality(OP!Out)
  BY <1>1, <1>2, <1>3, <1>4, FS_Union, FS_EmptySet DEF OP!Existing
<1>6. Cardinality(OP!Existing) < Cardinality(Object) /\ IsFiniteSet(Object)
  <2>1. Cardinality(Object) \in Nat /\ MaxSize \in Nat /\ MaxSize <= Cardinality(Object) /\ IsFiniteSet(Object)
    BY ObjectsEnough
  <2>2. made \in Nat /\ made = Len(stack) + Cardinality(OP!Out)
    BY DEF ObjectsInv, ObjectsType, CountersRight
  <2>3. QED  BY <1>5, <2>1, <2>2
<1>7. \E o \in Object : o \notin OP!Existing
  <2>1. SUFFICES ASSUME Object \subseteq OP!Existing PROVE FALSE
    OBVIOUS
  <2>2. Cardinality(Object) <= Cardinality(OP!Existing)
    BY <1>5, <2>1, FS_Subset
  <2>3. Cardinality(Object) \in Nat /\ Cardinality(OP!Existing) \in Nat
    BY <1>5, <1>6, FS_CardinalityType
  <2>4. QED  BY <1>6, <2>2, <2>3
<1>8. OP!Fresh \in Object /\ OP!Fresh \notin OP!Existing
  BY <1>7 DEF OP!Fresh
<1> QED  BY <1>1, <1>8 DEF OP!Existing, OP!ToSet

\* Init takes as many objects as the pool starts with, each once.
LEMMA ObjectsInit ==
  ASSUME OP!ObjectsAssumption, OP!Init
  PROVE  ObjectsInv
<1>1. initialSize \in Nat /\ initialSize \in Initials /\ initialSize <= Cardinality(Object)
  BY ObjectsEnough DEF OP!Init
<1>2. IsFiniteSet(Object) /\ Cardinality(Object) \in Nat
  BY ObjectsEnough
<1>3. \E S \in SUBSET Object : Cardinality(S) = initialSize
  <2>1. PICK f \in Bijection(1..Cardinality(Object), Object) : TRUE
    BY <1>2, FS_CardinalityType DEF ExistsBijection
  <2> DEFINE S == {f[i] : i \in 1..initialSize}
             g == [i \in 1..initialSize |-> f[i]]
  <2>2. 1..initialSize \subseteq 1..Cardinality(Object)
    BY <1>1, <1>2
  <2>3. /\ f \in [1..Cardinality(Object) -> Object]
        /\ \A i, j \in 1..Cardinality(Object) : f[i] = f[j] => i = j
    BY <2>1 DEF Bijection, Injection, IsInjective
  <2>4. S \in SUBSET Object
    BY <2>2, <2>3
  <2>5. g \in Bijection(1..initialSize, S)
    BY <2>2, <2>3 DEF Bijection, Injection, Surjection, IsInjective
  <2>6. Cardinality(S) = initialSize
    BY <1>1, <2>5, FS_CountingElements DEF ExistsBijection
  <2>7. QED  BY <2>4, <2>6
<1>4. PICK S \in SUBSET Object : /\ OP!Cardinality(S) = initialSize
                                 /\ stack \in OP!SetToSeqs(S)
  <2>1. \E S \in SUBSET Object : OP!Cardinality(S) = initialSize
    BY <1>3, SameCount
  <2>2. QED  BY <2>1 DEF OP!Init
<1>5. /\ stack \in [1..initialSize -> S]
      /\ \A i, j \in 1..initialSize : i # j => stack[i] # stack[j]
  BY <1>4 DEF OP!SetToSeqs
<1>6. stack \in Seq(Object) /\ Len(stack) = initialSize
  BY <1>1, <1>4, <1>5
<1>7. OP!Out = {} /\ Loaned = {}
  BY DEF OP!Init, OP!Out, Loaned
<1>8. ObjectsType
  BY <1>1, <1>6 DEF ObjectsType, OP!Init
<1>9. EachInOnePlace
  BY <1>5, <1>6 DEF EachInOnePlace, OP!Init
<1>10. CountersRight
  BY <1>1, <1>6, <1>7, FS_EmptySet DEF CountersRight, OP!Init
<1> QED  BY <1>8, <1>9, <1>10 DEF ObjectsInv

\* What Take does, for the object it takes: either branch only moves it to the
\* borrower.
LEMMA ObjectTaken ==
  ASSUME OP!ObjectsAssumption, ObjectsInv, NEW t \in Borrower, NEW o \in Object,
         taken[t] = {}, taken' = [taken EXCEPT ![t] = {o}], o \notin OP!Out, lent' = lent
  PROVE  /\ lent' \in [Borrower -> SUBSET Object] /\ taken' \in [Borrower -> SUBSET Object]
         /\ \A s, u \in Borrower : s # u => (lent'[s] \cup taken'[s]) \cap (lent'[u] \cup taken'[u]) = {}
         /\ \A u \in Borrower : lent'[u] \cap taken'[u] = {} /\ \A a, b \in taken'[u] : a = b
         /\ \A u \in Borrower : lent'[u] = lent[u] /\ taken'[u] \subseteq taken[u] \cup {o}
         /\ Cardinality(OP!Out') = Cardinality(OP!Out) + 1 /\ Loaned' = Loaned
<1>1. lent \in [Borrower -> SUBSET Object] /\ taken \in [Borrower -> SUBSET Object]
  BY DEF ObjectsInv, ObjectsType
<1>2. \A u \in Borrower : taken'[u] = IF u = t THEN {o} ELSE taken[u]
  BY <1>1
<1>3. \A u \in Borrower : o \notin lent[u] /\ o \notin taken[u]
  BY MemberOfOut
<1>4. \A s, u \in Borrower : s # u => (lent'[s] \cup taken'[s]) \cap (lent'[u] \cup taken'[u]) = {}
  BY <1>2, <1>3 DEF ObjectsInv, EachInOnePlace
<1>5. \A u \in Borrower : lent'[u] \cap taken'[u] = {} /\ \A a, b \in taken'[u] : a = b
  BY <1>2, <1>3 DEF ObjectsInv, EachInOnePlace
<1>6. OP!Out' = OP!Out \cup {o} /\ Loaned' = Loaned
  <2>1. \A a : a \in OP!Out' <=> \E u \in Borrower : a \in lent'[u] \/ a \in taken'[u]
    BY DEF OP!Out
  <2>2. \A a : a \in OP!Out' <=> a \in OP!Out \/ a = o
    BY <1>2, <2>1, MemberOfOut
  <2>3. QED  BY <2>2 DEF Loaned
<1>7. Cardinality(OP!Out') = Cardinality(OP!Out) + 1
  BY <1>6, LoansFinite, FS_AddElement DEF ObjectsInv
<1> QED  BY <1>1, <1>2, <1>4, <1>5, <1>6, <1>7

LEMMA ObjectsTake ==
  ASSUME OP!ObjectsAssumption, ObjectsInv, NEW t \in Borrower, OP!Take(t)
  PROVE  ObjectsInv'
<1>1. /\ poolAlive /\ taken[t] = {}
      /\ UNCHANGED <<lent, borrowed, poolAlive, initialSize>>
  BY DEF OP!Take
<1>2. stack \in Seq(Object) /\ Len(stack) \in Nat /\ made \in Nat
  BY DEF ObjectsInv, ObjectsType
<1>3. \A n \in Initials : n \in Nat
  BY ObjectsEnough
<1>4. MaxSize \in Nat /\ Cardinality(OP!Out) \in Nat
  BY ObjectsEnough, LoansFinite DEF ObjectsInv
<1>5. CASE /\ stack # <<>> /\ UNCHANGED made
           /\ stack' = OP!Front(stack) /\ taken' = [taken EXCEPT ![t] = {OP!Last(stack)}]
  <2>1. PICK o : o = stack[Len(stack)]
    OBVIOUS
  <2>2. Len(stack) \in 1..Len(stack) /\ o \in Object
    BY <1>2, <1>5, <2>1
  <2>3. o \notin OP!Out
    BY <2>1, <2>2, MemberOfOut DEF ObjectsInv, EachInOnePlace
  <2>4. taken' = [taken EXCEPT ![t] = {o}]
    BY <1>5, <2>1 DEF OP!Last
  <2>5. /\ stack' \in Seq(Object) /\ Len(stack') = Len(stack) - 1
        /\ \A i \in 1..Len(stack') : i \in 1..Len(stack) /\ stack'[i] = stack[i] /\ i # Len(stack)
    <3>1. stack' = SubSeq(stack, 1, Len(stack) - 1)
      BY <1>5 DEF OP!Front
    <3>2. Len(stack) >= 1
      BY <1>2, <2>2
    <3>0. Len(stack) - 1 \in 0..Len(stack)
      BY <1>2, <3>2
    <3>3. PICK n \in 0..Len(stack) : n = Len(stack) - 1
      BY <3>0
    <3>4. stack' = SubSeq(stack, 1, n)
      BY <3>1, <3>3
    <3>5. stack' \in Seq(Object) /\ Len(stack') = n /\ \A i \in 1..n : stack'[i] = stack[i]
      BY <1>2, <3>4, PrefixKept
    <3>6. QED  BY <1>2, <3>2, <3>3, <3>5
  <2>6. \A i \in 1..Len(stack') : stack'[i] # o
    BY <2>1, <2>2, <2>5 DEF ObjectsInv, EachInOnePlace
  <2>7. ObjectsType'
    BY <1>1, <1>5, <2>2, <2>3, <2>4, <2>5, ObjectTaken DEF ObjectsInv, ObjectsType
  <2>8. EachInOnePlace'
    <3>1. /\ \A s, u \in Borrower : s # u => (lent'[s] \cup taken'[s]) \cap (lent'[u] \cup taken'[u]) = {}
          /\ \A u \in Borrower : lent'[u] \cap taken'[u] = {} /\ \A a, b \in taken'[u] : a = b
          /\ \A u \in Borrower : lent'[u] = lent[u] /\ taken'[u] \subseteq taken[u] \cup {o}
      BY <1>1, <2>2, <2>3, <2>4, ObjectTaken
    <3>2. \A i, j \in 1..Len(stack') : stack'[i] = stack'[j] => i = j
      BY <2>5 DEF ObjectsInv, EachInOnePlace
    <3>3. \A i \in 1..Len(stack'), u \in Borrower : stack'[i] \notin lent'[u] /\ stack'[i] \notin taken'[u]
      <4>1. TAKE i \in 1..Len(stack'), u \in Borrower
      <4>2. i \in 1..Len(stack) /\ stack'[i] = stack[i] /\ stack'[i] # o
        BY <2>5, <2>6
      <4>3. stack[i] \notin lent[u] /\ stack[i] \notin taken[u]
        BY <4>2 DEF ObjectsInv, EachInOnePlace
      <4>4. QED  BY <3>1, <4>2, <4>3
    <3>4. QED  BY <3>1, <3>2, <3>3 DEF EachInOnePlace
  <2>9. CountersRight'
    <3>1. Cardinality(OP!Out') = Cardinality(OP!Out) + 1 /\ Loaned' = Loaned
      BY <1>1, <2>2, <2>3, <2>4, ObjectTaken
    <3>2. made = Len(stack) + Cardinality(OP!Out) /\ (made <= MaxSize \/ made <= initialSize)
      BY <1>1 DEF ObjectsInv, CountersRight
    <3>3. made' = Len(stack') + Cardinality(OP!Out')
      BY <1>2, <1>4, <1>5, <2>5, <3>1, <3>2
    <3>4. QED  BY <1>1, <1>5, <3>1, <3>2, <3>3 DEF ObjectsInv, CountersRight
  <2>10. QED  BY <2>7, <2>8, <2>9 DEF ObjectsInv
<1>6. CASE /\ stack = <<>> /\ made < MaxSize /\ UNCHANGED stack
           /\ taken' = [taken EXCEPT ![t] = {OP!Fresh}] /\ made' = made + 1
  <2>1. PICK o : o = OP!Fresh
    OBVIOUS
  <2>2. o \in Object /\ o \notin OP!Out /\ taken' = [taken EXCEPT ![t] = {o}]
    BY <1>1, <1>6, <2>1, FreshObject
  <2>3. Len(stack') = 0
    BY <1>6
  <2>4. ObjectsType'
    BY <1>1, <1>2, <1>6, <2>2, ObjectTaken DEF ObjectsInv, ObjectsType
  <2>5. EachInOnePlace'
    <3>1. /\ \A s, u \in Borrower : s # u => (lent'[s] \cup taken'[s]) \cap (lent'[u] \cup taken'[u]) = {}
          /\ \A u \in Borrower : lent'[u] \cap taken'[u] = {} /\ \A a, b \in taken'[u] : a = b
      BY <1>1, <2>2, ObjectTaken
    <3>2. QED  BY <2>3, <3>1 DEF EachInOnePlace
  <2>6. CountersRight'
    <3>1. Cardinality(OP!Out') = Cardinality(OP!Out) + 1 /\ Loaned' = Loaned
      BY <1>1, <2>2, ObjectTaken
    <3>2. QED  BY <1>1, <1>2, <1>3, <1>4, <1>6, <2>3, <3>1 DEF ObjectsInv, CountersRight
  <2>7. QED  BY <2>4, <2>5, <2>6 DEF ObjectsInv
<1> QED  BY <1>5, <1>6 DEF OP!Take

\* ++borrowed_count_: the object was out already.
LEMMA ObjectsCount ==
  ASSUME OP!ObjectsAssumption, ObjectsInv, NEW t \in Borrower, OP!CountBorrowed(t)
  PROVE  ObjectsInv'
<1>1. /\ taken[t] # {} /\ borrowed' = borrowed + 1
      /\ lent' = [lent EXCEPT ![t] = @ \cup taken[t]] /\ taken' = [taken EXCEPT ![t] = {}]
      /\ UNCHANGED <<stack, made, poolAlive, initialSize>>
  BY DEF OP!CountBorrowed
<1>2. lent \in [Borrower -> SUBSET Object] /\ taken \in [Borrower -> SUBSET Object]
  BY DEF ObjectsInv, ObjectsType
<1>3. PICK o \in Object : taken[t] = {o}
  BY <1>1, <1>2 DEF ObjectsInv, EachInOnePlace
<1>4. \A u \in Borrower : /\ lent'[u] = IF u = t THEN lent[u] \cup {o} ELSE lent[u]
                          /\ taken'[u] = IF u = t THEN {} ELSE taken[u]
  BY <1>1, <1>2, <1>3
<1>5. \A u \in Borrower : lent'[u] \cup taken'[u] = lent[u] \cup taken[u]
  BY <1>3, <1>4
<1>6. OP!Out' = OP!Out
  BY <1>5 DEF OP!Out
<1>7. Loaned' = Loaned \cup {o} /\ o \notin Loaned
  <2>1. \A a : a \in Loaned' <=> \E u \in Borrower : a \in lent'[u]
    BY DEF Loaned
  <2>2. \A a : a \in Loaned' <=> a \in Loaned \/ a = o
    BY <1>4, <2>1, MemberOfOut
  <2>3. \A u \in Borrower : o \notin lent[u]
    BY <1>3 DEF ObjectsInv, EachInOnePlace
  <2>4. QED  BY <2>2, <2>3, MemberOfOut
<1>8. ObjectsType'
  BY <1>1, <1>2 DEF ObjectsInv, ObjectsType
<1>9. EachInOnePlace'
  <2>1. \A i \in 1..Len(stack), u \in Borrower : stack[i] \notin lent[u] \cup taken[u]
    BY DEF ObjectsInv, EachInOnePlace
  <2>2. \A i \in 1..Len(stack'), u \in Borrower : stack'[i] \notin lent'[u] \cup taken'[u]
    BY <1>1, <1>5, <2>1
  <2>3. \A s, u \in Borrower : s # u => (lent'[s] \cup taken'[s]) \cap (lent'[u] \cup taken'[u]) = {}
    BY <1>5 DEF ObjectsInv, EachInOnePlace
  <2>4. \A u \in Borrower : lent'[u] \cap taken'[u] = {} /\ \A a, b \in taken'[u] : a = b
    BY <1>4 DEF ObjectsInv, EachInOnePlace
  <2>5. QED  BY <1>1, <2>2, <2>3, <2>4 DEF ObjectsInv, EachInOnePlace
<1>10. CountersRight'
  <2>1. Cardinality(Loaned') = Cardinality(Loaned) + 1
    BY <1>7, LoansFinite, FS_AddElement DEF ObjectsInv
  <2>2. borrowed' = Cardinality(Loaned')
    BY <1>1, <2>1 DEF ObjectsInv, CountersRight
  <2>3. QED  BY <1>1, <1>6, <2>2 DEF ObjectsInv, CountersRight
<1> QED  BY <1>8, <1>9, <1>10 DEF ObjectsInv

\* The object goes from its borrower to the top of the stack, or is destroyed.
LEMMA ObjectsRelease ==
  ASSUME OP!ObjectsAssumption, ObjectsInv, NEW t \in Borrower, NEW o \in Object, OP!release(t, o)
  PROVE  ObjectsInv'
<1>1. /\ poolAlive /\ o \in lent[t] /\ borrowed' = borrowed - 1
      /\ lent' = [lent EXCEPT ![t] = @ \ {o}]
      /\ UNCHANGED <<taken, poolAlive, initialSize>>
  BY DEF OP!release
<1>2. lent \in [Borrower -> SUBSET Object] /\ taken \in [Borrower -> SUBSET Object]
  BY DEF ObjectsInv, ObjectsType
<1>3. \A u \in Borrower : lent'[u] = (IF u = t THEN lent[u] \ {o} ELSE lent[u]) /\ taken'[u] = taken[u]
  BY <1>1, <1>2
<1>4. \A u \in Borrower : o \notin lent'[u] /\ o \notin taken'[u]
  <2>1. TAKE u \in Borrower
  <2>2. u # t => o \notin lent[u] \cup taken[u]
    BY <1>1 DEF ObjectsInv, EachInOnePlace
  <2>3. o \notin taken[t]
    BY <1>1 DEF ObjectsInv, EachInOnePlace
  <2>4. QED  BY <1>3, <2>2, <2>3
<1>5. OP!Out' = OP!Out \ {o} /\ Loaned' = Loaned \ {o} /\ o \in OP!Out /\ o \in Loaned
  <2>1. \A a : /\ a \in OP!Out' <=> \E u \in Borrower : a \in lent'[u] \/ a \in taken'[u]
               /\ a \in Loaned' <=> \E u \in Borrower : a \in lent'[u]
    BY DEF OP!Out, Loaned
  <2>2. \A a : a \in OP!Out' <=> a \in OP!Out /\ a # o
    BY <1>3, <1>4, <2>1, MemberOfOut
  <2>3. \A a : a \in Loaned' <=> a \in Loaned /\ a # o
    BY <1>3, <1>4, <2>1, MemberOfOut
  <2>4. QED  BY <1>1, <2>2, <2>3, MemberOfOut
<1>6. /\ Cardinality(OP!Out') = Cardinality(OP!Out) - 1 /\ Cardinality(Loaned') = Cardinality(Loaned) - 1
      /\ Cardinality(OP!Out) \in Nat /\ Cardinality(Loaned) \in Nat
      /\ Cardinality(OP!Out') \in Nat /\ Cardinality(Loaned') \in Nat
  <2>1. IsFiniteSet(OP!Out) /\ IsFiniteSet(Loaned)
    BY LoansFinite DEF ObjectsInv
  <2>2. QED  BY <1>5, <2>1, FS_RemoveElement, FS_CardinalityType
<1>7. borrowed' = Cardinality(Loaned') /\ borrowed' \in Nat
  BY <1>1, <1>6 DEF ObjectsInv, CountersRight
<1>8. /\ made \in Nat /\ Len(stack) \in Nat /\ stack \in Seq(Object) /\ MaxSize \in Nat /\ initialSize \in Nat
      /\ made = Len(stack) + Cardinality(OP!Out) /\ (made <= MaxSize \/ made <= initialSize)
  BY <1>1, ObjectsEnough DEF ObjectsInv, ObjectsType, CountersRight
<1>9. /\ \A s, u \in Borrower : s # u => (lent'[s] \cup taken'[s]) \cap (lent'[u] \cup taken'[u]) = {}
      /\ \A u \in Borrower : lent'[u] \cap taken'[u] = {} /\ \A a, b \in taken'[u] : a = b
  <2>1. \A u \in Borrower : lent'[u] \subseteq lent[u] /\ taken'[u] = taken[u]
    BY <1>3
  <2>2. QED  BY <2>1 DEF ObjectsInv, EachInOnePlace
<1>10. CASE stack' = Append(stack, o) /\ UNCHANGED made
  <2>1. /\ stack' \in Seq(Object) /\ Len(stack') = Len(stack) + 1
        /\ \A i \in 1..Len(stack') : stack'[i] = IF i \in 1..Len(stack) THEN stack[i] ELSE o
    BY <1>8, <1>10
  <2>2. ObjectsType'
    BY <1>1, <1>2, <1>7, <1>10, <2>1 DEF ObjectsInv, ObjectsType
  <2>3. \A i \in 1..Len(stack) : stack[i] # o
    BY <1>1 DEF ObjectsInv, EachInOnePlace
  <2>4. \A i, j \in 1..Len(stack') : stack'[i] = stack'[j] => i = j
    <3>1. TAKE i, j \in 1..Len(stack')
    <3>2. HAVE stack'[i] = stack'[j]
    <3>3. CASE i \in 1..Len(stack) /\ j \in 1..Len(stack)
      BY <2>1, <3>2, <3>3 DEF ObjectsInv, EachInOnePlace
    <3>4. CASE i \in 1..Len(stack) /\ j \notin 1..Len(stack)
      BY <2>1, <2>3, <3>2, <3>4
    <3>5. CASE i \notin 1..Len(stack) /\ j \in 1..Len(stack)
      BY <2>1, <2>3, <3>2, <3>5
    <3>6. CASE i \notin 1..Len(stack) /\ j \notin 1..Len(stack)
      BY <1>8, <2>1, <3>6
    <3>7. QED  BY <3>3, <3>4, <3>5, <3>6
  <2>5. \A i \in 1..Len(stack'), u \in Borrower : stack'[i] \notin lent'[u] /\ stack'[i] \notin taken'[u]
    <3>1. TAKE i \in 1..Len(stack'), u \in Borrower
    <3>2. CASE i \in 1..Len(stack)
      <4>1. stack[i] \notin lent[u] /\ stack[i] \notin taken[u]
        BY <3>2 DEF ObjectsInv, EachInOnePlace
      <4>2. QED  BY <1>3, <2>1, <3>2, <4>1
    <3>3. CASE i \notin 1..Len(stack)
      BY <1>4, <2>1, <3>3
    <3>4. QED  BY <3>2, <3>3
  <2>6. EachInOnePlace'
    BY <1>9, <2>4, <2>5 DEF EachInOnePlace
  <2>7. made' = Len(stack') + Cardinality(OP!Out') /\ (made' <= MaxSize \/ made' <= initialSize')
    BY <1>1, <1>6, <1>8, <1>10, <2>1
  <2>8. CountersRight'
    BY <1>7, <2>7 DEF CountersRight
  <2>9. QED  BY <2>2, <2>6, <2>8 DEF ObjectsInv
<1>11. CASE made' = made - 1 /\ UNCHANGED stack
  <2>1. ObjectsType'
    <3>1. made' \in Nat
      BY <1>6, <1>8, <1>11
    <3>2. QED  BY <1>1, <1>2, <1>7, <1>11, <3>1 DEF ObjectsInv, ObjectsType
  <2>2. EachInOnePlace'
    <3>1. \A i \in 1..Len(stack), u \in Borrower : stack[i] \notin lent[u] /\ stack[i] \notin taken[u]
      BY DEF ObjectsInv, EachInOnePlace
    <3>2. \A i \in 1..Len(stack), u \in Borrower : stack[i] \notin lent'[u] /\ stack[i] \notin taken'[u]
      BY <1>3, <3>1
    <3>3. QED  BY <1>9, <1>11, <3>2 DEF ObjectsInv, EachInOnePlace
  <2>3. made' = Len(stack') + Cardinality(OP!Out') /\ (made' <= MaxSize \/ made' <= initialSize')
    BY <1>1, <1>6, <1>8, <1>11
  <2>4. QED  BY <1>7, <2>1, <2>2, <2>3 DEF ObjectsInv, CountersRight
<1> QED  BY <1>10, <1>11 DEF OP!release

\* A new object on the stack.
LEMMA ObjectsExpand ==
  ASSUME OP!ObjectsAssumption, ObjectsInv, OP!expand
  PROVE  ObjectsInv'
<1>1. /\ poolAlive /\ made < MaxSize /\ stack' = Append(stack, OP!Fresh) /\ made' = made + 1
      /\ UNCHANGED <<lent, taken, borrowed, poolAlive, initialSize>>
  BY DEF OP!expand
<1>2. PICK o \in Object : /\ o \notin OP!Out /\ \A i \in 1..Len(stack) : stack[i] # o
                         /\ stack' = Append(stack, o)
  BY <1>1, FreshObject
<1>3. /\ made \in Nat /\ Len(stack) \in Nat /\ stack \in Seq(Object) /\ MaxSize \in Nat
      /\ made = Len(stack) + Cardinality(OP!Out) /\ Cardinality(OP!Out) \in Nat
  BY <1>1, ObjectsEnough, LoansFinite DEF ObjectsInv, ObjectsType, CountersRight
<1>4. /\ stack' \in Seq(Object) /\ Len(stack') = Len(stack) + 1
      /\ \A i \in 1..Len(stack') : stack'[i] = IF i \in 1..Len(stack) THEN stack[i] ELSE o
  BY <1>2, <1>3
<1>5. OP!Out' = OP!Out /\ Loaned' = Loaned
  BY <1>1 DEF OP!Out, Loaned
<1>6. \A i, j \in 1..Len(stack') : stack'[i] = stack'[j] => i = j
  <2>1. TAKE i, j \in 1..Len(stack')
  <2>2. HAVE stack'[i] = stack'[j]
  <2>3. CASE i \in 1..Len(stack) /\ j \in 1..Len(stack)
    BY <1>4, <2>2, <2>3 DEF ObjectsInv, EachInOnePlace
  <2>4. CASE i \in 1..Len(stack) /\ j \notin 1..Len(stack)
    BY <1>2, <1>4, <2>2, <2>4
  <2>5. CASE i \notin 1..Len(stack) /\ j \in 1..Len(stack)
    BY <1>2, <1>4, <2>2, <2>5
  <2>6. CASE i \notin 1..Len(stack) /\ j \notin 1..Len(stack)
    BY <1>3, <1>4, <2>6
  <2>7. QED  BY <2>3, <2>4, <2>5, <2>6
<1>7. \A i \in 1..Len(stack'), u \in Borrower : stack'[i] \notin lent'[u] /\ stack'[i] \notin taken'[u]
  <2>1. \A u \in Borrower : o \notin lent[u] /\ o \notin taken[u]
    BY <1>2, MemberOfOut
  <2>2. QED  BY <1>1, <1>4, <2>1 DEF ObjectsInv, EachInOnePlace
<1>8. EachInOnePlace'
  BY <1>1, <1>6, <1>7 DEF ObjectsInv, EachInOnePlace
<1>9. made' = Len(stack') + Cardinality(OP!Out') /\ made' <= MaxSize /\ made' \in Nat
  BY <1>1, <1>3, <1>4, <1>5
<1>10. CountersRight'
  BY <1>1, <1>5, <1>9 DEF ObjectsInv, CountersRight
<1> QED  BY <1>1, <1>4, <1>8, <1>9, <1>10 DEF ObjectsInv, ObjectsType

\* shrink destroys what is on top.
LEMMA ObjectsShrink ==
  ASSUME OP!ObjectsAssumption, ObjectsInv, NEW target \in 0..MaxSize, OP!shrink(target)
  PROVE  ObjectsInv'
<1>1. /\ poolAlive /\ Len(stack) > target /\ stack' = SubSeq(stack, 1, target)
      /\ made' = made - (Len(stack) - target)
      /\ UNCHANGED <<lent, taken, borrowed, poolAlive, initialSize>>
  BY DEF OP!shrink
<1>2. /\ made \in Nat /\ Len(stack) \in Nat /\ stack \in Seq(Object) /\ MaxSize \in Nat /\ initialSize \in Nat
      /\ made = Len(stack) + Cardinality(OP!Out) /\ Cardinality(OP!Out) \in Nat
      /\ (made <= MaxSize \/ made <= initialSize)
  BY <1>1, ObjectsEnough, LoansFinite DEF ObjectsInv, ObjectsType, CountersRight
<1>3. target \in 0..Len(stack) /\ target \in Nat
  BY <1>1, <1>2
<1>4. stack' \in Seq(Object) /\ Len(stack') = target /\ \A i \in 1..target : stack'[i] = stack[i]
  BY <1>1, <1>2, <1>3, PrefixKept
<1>5. OP!Out' = OP!Out /\ Loaned' = Loaned
  BY <1>1 DEF OP!Out, Loaned
<1>6. \A i \in 1..Len(stack') : i \in 1..Len(stack) /\ stack'[i] = stack[i]
  BY <1>2, <1>3, <1>4
<1>7. EachInOnePlace'
  BY <1>1, <1>6 DEF ObjectsInv, EachInOnePlace
<1>8. /\ made' = Len(stack') + Cardinality(OP!Out') /\ made' \in Nat
      /\ (made' <= MaxSize \/ made' <= initialSize')
  BY <1>1, <1>2, <1>3, <1>4, <1>5
<1>9. CountersRight'
  BY <1>1, <1>5, <1>8 DEF ObjectsInv, CountersRight
<1> QED  BY <1>1, <1>4, <1>7, <1>8, <1>9 DEF ObjectsInv, ObjectsType

LEMMA ObjectsStep ==
  ASSUME OP!ObjectsAssumption, ObjectsInv, [OP!Next]_(OP!vars)
  PROVE  ObjectsInv'
<1>1. CASE OP!Destroy
  <2>1. stack' = <<>> /\ poolAlive' = FALSE /\ UNCHANGED <<lent, taken, made, borrowed, initialSize>>
    BY <1>1 DEF OP!Destroy
  <2>2. Loaned' = Loaned
    BY <2>1 DEF Loaned
  <2>3. ASSUME NEW S PROVE <<>> \in Seq(S)
    OBVIOUS
  <2>4. ObjectsType'
    BY <2>1, <2>3 DEF ObjectsInv, ObjectsType
  <2>5. EachInOnePlace'
    BY <2>1 DEF ObjectsInv, EachInOnePlace
  <2>6. QED  BY <2>1, <2>2, <2>4, <2>5 DEF ObjectsInv, CountersRight
<1>2. CASE UNCHANGED OP!vars
  BY <1>2 DEF OP!vars, ObjectsInv, ObjectsType, EachInOnePlace, CountersRight, Loaned, OP!Out
<1> QED  BY <1>1, <1>2, ObjectsTake, ObjectsCount, ObjectsRelease, ObjectsExpand, ObjectsShrink DEF OP!Next

\* For every number of threads, of objects and every limit: each object of an
\* ObjectPool is in one place, created_count_ and borrowed_count_ agree with
\* what exists and with what is lent although they change outside of one lock,
\* and the limit holds unless the pool was made larger.
THEOREM ObjectsAddUp == OP!Spec => []ObjectsAccounted
<1>0. OP!ObjectsAssumption
  BY ServicesAssumption
<1>1. ObjectsInv /\ [OP!Next]_(OP!vars) => ObjectsInv'
  BY <1>0, ObjectsStep
<1>2. ObjectsInv => ObjectsAccounted
  <2>1. SUFFICES ASSUME ObjectsInv PROVE ObjectsAccounted
    OBVIOUS
  <2>2. stack \in Seq(Object) /\ DOMAIN stack = 1..Len(stack)
    BY <2>1 DEF ObjectsInv, ObjectsType
  <2>3. OP!Cardinality(OP!ToSet(stack)) = Len(stack)
    BY <2>1, <2>2, DistinctCounted, SameCount DEF ObjectsInv, EachInOnePlace
  <2>4. OP!ToSet(stack) \cap OP!Out = {} /\ OP!ToSet(stack) \subseteq Object
    BY <2>1, <2>2, MemberOfOut DEF ObjectsInv, EachInOnePlace, OP!ToSet
  <2>5. OP!TypeOK
    BY <1>0, <2>1, <2>4, LoansFinite DEF ObjectsInv, ObjectsType, OP!TypeOK
  <2>6. borrowed = OP!Cardinality(UNION {lent[t] : t \in Borrower})
    BY <2>1, SameCount DEF ObjectsInv, CountersRight, Loaned
  <2>7. OP!Cardinality(OP!Out) = Cardinality(OP!Out)
    BY SameCount
  <2>8. OP!Accounted
    BY <2>1, <2>3, <2>4, <2>6, <2>7 DEF ObjectsInv, EachInOnePlace, CountersRight, OP!Accounted
  <2>9. QED  BY <2>5, <2>8 DEF ObjectsAccounted
<1>3. OP!Init => ObjectsInv
  BY <1>0, ObjectsInit
<1> QED  BY <1>1, <1>2, <1>3, PTL DEF OP!Spec

-----------------------------------------------------------------------------
(***************************************************************************)
(* Sums over finite sets. SumFunctionOnSet folds over the set by choosing  *)
(* one element after the other; the lemmas say that the order does not     *)
(* matter and what a change of one summand does. Induction over the        *)
(* subsets of a finite set is put as a fact about a set of subsets.        *)
(***************************************************************************)

\* The element the fold takes next.
Chosen(s) == CHOOSE x \in s : TRUE

\* g gives the partial sums of f over the subsets of T.
PartialSums(f, T, g) ==
    g = [s \in SUBSET T |-> IF s = {} THEN 0 ELSE f[Chosen(s)] + g[s \ {Chosen(s)}]]

\* The value of the fold at one set follows from that of the set without one element.
Unrolled(f, s) ==
    /\ SumFunctionOnSet(f, s) \in Int
    /\ SumFunctionOnSet(f, s) =
         IF s = {} THEN 0 ELSE f[Chosen(s)] + SumFunctionOnSet(f, s \ {Chosen(s)})

\* A nonempty set of naturals has a least element.
LEMMA LeastNatural ==
  ASSUME NEW S \in SUBSET Nat, S # {}
  PROVE  \E x \in S : \A y \in S : x <= y
<1> DEFINE R == OpToRel(<, Nat)
<1>0. IsWellFoundedOn(R, Nat) /\ R = {ss \in Nat \X Nat : ss[1] < ss[2]}
  BY NatLessThanWellFounded DEF OpToRel
<1> HIDE DEF R
<1>1. PICK x \in S : \A y \in S : ~(<<y, x>> \in R)
  BY <1>0, WFMin
<1>2. ASSUME NEW y \in S PROVE x <= y
  <2>1. x \in Nat /\ y \in Nat /\ ~(<<y, x>> \in R)
    BY <1>1
  <2>2. ~(y < x)
    BY <1>0, <2>1
  <2>3. QED  BY <2>1, <2>2
<1> QED  BY <1>2

\* Induction: what holds of a set if it holds of the set without any one of its
\* elements holds of every subset of a finite set.
LEMMA SubsetInduction ==
  ASSUME NEW T, IsFiniteSet(T), NEW Good,
         \A s \in SUBSET T : (\A x \in s : s \ {x} \in Good) => s \in Good
  PROVE  \A s \in SUBSET T : s \in Good
<1> DEFINE Bad == {n \in Nat : \E s \in SUBSET T : Cardinality(s) = n /\ s \notin Good}
<1>1. \A s \in SUBSET T : IsFiniteSet(s) /\ Cardinality(s) \in Nat
  BY FS_Subset, FS_CardinalityType
<1>2. Bad = {}
  <2>1. SUFFICES ASSUME Bad # {} PROVE FALSE
    OBVIOUS
  <2>2. PICK n \in Bad : \A m \in Bad : n <= m
    BY <2>1, LeastNatural, Bad \in SUBSET Nat
  <2>4. PICK s \in SUBSET T : Cardinality(s) = n /\ s \notin Good
    BY <2>2
  <2>6. ASSUME NEW x \in s PROVE s \ {x} \in Good
    <3>1. s \ {x} \in SUBSET T
      OBVIOUS
    <3>2. IsFiniteSet(s)
      BY <1>1
    <3>3. Cardinality(s \ {x}) = Cardinality(s) - 1
      BY <3>2, FS_RemoveElement
    <3>4. PICK m \in Nat : m = Cardinality(s \ {x})
      BY <1>1, <3>1
    <3>5. n \in Nat /\ m = n - 1
      BY <2>4, <3>3, <3>4
    <3>6. ~(n <= m)
      BY <3>5, <3>4
    <3>7. m \notin Bad
      BY <2>2, <3>6
    <3> QED  BY <3>1, <3>4, <3>7
  <2>7. s \in Good
    BY <2>6
  <2>8. QED  BY <2>4, <2>7
<1>3. ASSUME NEW s \in SUBSET T PROVE s \in Good
  BY <1>1, <1>2
<1> QED  BY <1>3

LEMMA ChosenIn == ASSUME NEW s, s # {} PROVE Chosen(s) \in s
BY DEF Chosen

\* What the fold computes is a value of partial sums.
LEMMA SumIsPartial ==
  ASSUME NEW f, NEW T
  PROVE  SumFunctionOnSet(f, T) = (CHOOSE g : PartialSums(f, T, g))[T]
BY DEF SumFunctionOnSet, FoldFunctionOnSet, MapThenFoldSet, PartialSums, Chosen

\* There is at most one function of partial sums.
LEMMA PartialUnique ==
  ASSUME NEW f, NEW T, IsFiniteSet(T), NEW g, NEW h,
         PartialSums(f, T, g), PartialSums(f, T, h)
  PROVE  g[T] = h[T]
<1> DEFINE Good == {s \in SUBSET T : g[s] = h[s]}
<1>1. ASSUME NEW s \in SUBSET T, \A x \in s : s \ {x} \in Good PROVE s \in Good
  <2>1. g[s] = IF s = {} THEN 0 ELSE f[Chosen(s)] + g[s \ {Chosen(s)}]
    BY DEF PartialSums
  <2>2. h[s] = IF s = {} THEN 0 ELSE f[Chosen(s)] + h[s \ {Chosen(s)}]
    BY DEF PartialSums
  <2>3. CASE s = {}
    BY <2>1, <2>2, <2>3
  <2>4. CASE s # {}
    <3>1. s \ {Chosen(s)} \in Good
      BY <1>1, <2>4, ChosenIn
    <3>2. g[s \ {Chosen(s)}] = h[s \ {Chosen(s)}]
      BY <3>1
    <3> QED  BY <2>1, <2>2, <2>4, <3>2
  <2> QED  BY <2>3, <2>4
<1> HIDE DEF Good
<1>2. \A s \in SUBSET T : s \in Good
  BY <1>1, SubsetInduction
<1> USE DEF Good
<1> QED  BY <1>2

\* Partial sums exist: the fold unrolls at every finite set.
LEMMA SumUnrolls ==
  ASSUME NEW f, NEW T, IsFiniteSet(T), \A x \in T : f[x] \in Int
  PROVE  \A s \in SUBSET T : Unrolled(f, s)
<1> DEFINE Good == {t \in SUBSET T : \A s \in SUBSET t : Unrolled(f, s)}
<1>1. ASSUME NEW t \in SUBSET T, \A x \in t : t \ {x} \in Good PROVE t \in Good
  <2> DEFINE c == Chosen(t)
             v == IF t = {} THEN 0 ELSE f[c] + SumFunctionOnSet(f, t \ {c})
             h == [s \in SUBSET t |-> IF s = t THEN v ELSE SumFunctionOnSet(f, s)]
  <2>1. ASSUME NEW s \in SUBSET t, s # t PROVE Unrolled(f, s)
    <3>1. PICK x \in t : s \in SUBSET (t \ {x})
      BY <2>1
    <3> QED  BY <1>1, <3>1
  <2>2. v \in Int
    <3>1. CASE t = {}
      BY <3>1
    <3>2. CASE t # {}
      <4>1. c \in t /\ f[c] \in Int
        BY <3>2, ChosenIn
      <4>2. Unrolled(f, t \ {c})
        BY <2>1, <4>1
      <4>3. SumFunctionOnSet(f, t \ {c}) \in Int
        BY <4>2 DEF Unrolled
      <4> QED  BY <4>1, <4>3, <3>2
    <3> QED  BY <3>1, <3>2
  <2>3. ASSUME NEW s \in SUBSET t
        PROVE  h[s] = IF s = {} THEN 0 ELSE f[Chosen(s)] + h[s \ {Chosen(s)}]
    <3>1. CASE s = {}
      <4>1. CASE s = t
        BY <3>1, <4>1
      <4>2. CASE s # t
        BY <2>1, <3>1, <4>2 DEF Unrolled
      <4> QED  BY <4>1, <4>2
    <3>2. CASE s # {}
      <4>1. s \ {Chosen(s)} \in SUBSET t /\ s \ {Chosen(s)} # t
        BY <3>2, ChosenIn
      <4>2. h[s \ {Chosen(s)}] = SumFunctionOnSet(f, s \ {Chosen(s)})
        BY <4>1
      <4>3. CASE s = t
        BY <4>2, <4>3, <3>2
      <4>4. CASE s # t
        <5>1. h[s] = SumFunctionOnSet(f, s)
          BY <4>4
        <5>2. SumFunctionOnSet(f, s) = f[Chosen(s)] + SumFunctionOnSet(f, s \ {Chosen(s)})
          BY <2>1, <4>4, <3>2 DEF Unrolled
        <5> QED  BY <5>1, <5>2, <4>2, <3>2
      <4> QED  BY <4>3, <4>4
    <3> QED  BY <3>1, <3>2
  <2>4. PartialSums(f, t, h)
    <3>1. h = [s \in SUBSET t |-> h[s]]
      OBVIOUS
    <3> HIDE DEF h
    <3> QED  BY <2>3, <3>1 DEF PartialSums
  <2>5. h[t] = v
    OBVIOUS
  <2> HIDE DEF h
  <2>6. PartialSums(f, t, CHOOSE g : PartialSums(f, t, g))
    BY <2>4
  <2>7. IsFiniteSet(t)
    BY FS_Subset
  <2>8. (CHOOSE g : PartialSums(f, t, g))[t] = h[t]
    BY <2>4, <2>6, <2>7, PartialUnique
  <2>9. SumFunctionOnSet(f, t) = v
    BY <2>5, <2>8, SumIsPartial
  <2>10. Unrolled(f, t)
    BY <2>2, <2>9 DEF Unrolled
  <2> QED  BY <2>1, <2>10
<1> HIDE DEF Good
<1>2. \A s \in SUBSET T : s \in Good
  BY <1>1, SubsetInduction
<1> USE DEF Good
<1> QED  BY <1>2

\* The sum of nothing is 0, a sum of integers is one, and any summand can be
\* taken out first.
LEMMA SumPull ==
  ASSUME NEW f, NEW T, IsFiniteSet(T), \A x \in T : f[x] \in Int
  PROVE  /\ SumFunctionOnSet(f, T) \in Int
         /\ T = {} => SumFunctionOnSet(f, T) = 0
         /\ \A x \in T : SumFunctionOnSet(f, T) = f[x] + SumFunctionOnSet(f, T \ {x})
<1> DEFINE Good == {s \in SUBSET T : \A x \in s : SumFunctionOnSet(f, s) = f[x] + SumFunctionOnSet(f, s \ {x})}
<1>0. \A s \in SUBSET T : Unrolled(f, s)
  BY SumUnrolls
<1>1. ASSUME NEW s \in SUBSET T, \A x \in s : s \ {x} \in Good PROVE s \in Good
  <2>1. ASSUME NEW x \in s
        PROVE  SumFunctionOnSet(f, s) = f[x] + SumFunctionOnSet(f, s \ {x})
    <3>1. PICK c \in s : c = Chosen(s)
      BY ChosenIn
    <3>2. SumFunctionOnSet(f, s) = f[c] + SumFunctionOnSet(f, s \ {c})
      BY <1>0, <3>1 DEF Unrolled
    <3>3. CASE x = c
      BY <3>2, <3>3
    <3>4. CASE x # c
      <4>1. SumFunctionOnSet(f, s \ {c}) = f[x] + SumFunctionOnSet(f, (s \ {c}) \ {x})
        BY <1>1, <3>4
      <4>2. SumFunctionOnSet(f, s \ {x}) = f[c] + SumFunctionOnSet(f, (s \ {x}) \ {c})
        BY <1>1, <3>4
      <4>3. (s \ {c}) \ {x} = (s \ {x}) \ {c}
        OBVIOUS
      <4>4. PICK w \in Int : w = SumFunctionOnSet(f, (s \ {c}) \ {x})
        BY <1>0 DEF Unrolled
      <4>5. f[x] \in Int /\ f[c] \in Int
        OBVIOUS
      <4>6. f[c] + (f[x] + w) = f[x] + (f[c] + w)
        BY <4>4, <4>5
      <4> QED  BY <3>2, <4>1, <4>2, <4>3, <4>4, <4>6
    <3> QED  BY <3>3, <3>4
  <2> QED  BY <2>1
<1> HIDE DEF Good
<1>2. \A s \in SUBSET T : s \in Good
  BY <1>1, SubsetInduction
<1> USE DEF Good
<1>3. Unrolled(f, T)
  BY <1>0
<1> QED  BY <1>2, <1>3 DEF Unrolled

\* Functions that agree on a finite set have the same sum over it.
LEMMA SumEqual ==
  ASSUME NEW f, NEW g, NEW T, IsFiniteSet(T), \A x \in T : f[x] \in Int /\ f[x] = g[x]
  PROVE  SumFunctionOnSet(f, T) = SumFunctionOnSet(g, T)
<1> DEFINE Good == {s \in SUBSET T : SumFunctionOnSet(f, s) = SumFunctionOnSet(g, s)}
<1>1. ASSUME NEW s \in SUBSET T, \A x \in s : s \ {x} \in Good PROVE s \in Good
  <2>1. IsFiniteSet(s)
    BY FS_Subset
  <2>2. CASE s = {}
    BY <2>1, <2>2, SumPull
  <2>3. ASSUME NEW x \in s PROVE s \in Good
    <3>1. SumFunctionOnSet(f, s) = f[x] + SumFunctionOnSet(f, s \ {x})
      BY <2>1, SumPull
    <3>2. \A y \in s : g[y] \in Int
      OBVIOUS
    <3>3. SumFunctionOnSet(g, s) = g[x] + SumFunctionOnSet(g, s \ {x})
      BY <2>1, <3>2, SumPull
    <3> QED  BY <1>1, <3>1, <3>3
  <2> QED  BY <2>2, <2>3
<1> HIDE DEF Good
<1>2. \A s \in SUBSET T : s \in Good
  BY <1>1, SubsetInduction
<1> USE DEF Good
<1> QED  BY <1>2

\* A change of one summand by k changes the sum by k.
LEMMA SumChanged ==
  ASSUME NEW f, NEW g, NEW T, IsFiniteSet(T), NEW y \in T, NEW k \in Int,
         \A x \in T : f[x] \in Int, g[y] = f[y] + k, \A x \in T \ {y} : g[x] = f[x]
  PROVE  SumFunctionOnSet(g, T) = SumFunctionOnSet(f, T) + k
<1>1. \A x \in T : g[x] \in Int
  OBVIOUS
<1>2. IsFiniteSet(T \ {y})
  BY FS_RemoveElement
<1>3. SumFunctionOnSet(g, T) = g[y] + SumFunctionOnSet(g, T \ {y})
  BY <1>1, SumPull
<1>4. SumFunctionOnSet(f, T) = f[y] + SumFunctionOnSet(f, T \ {y})
  BY SumPull
<1>5. \A x \in T \ {y} : f[x] \in Int /\ f[x] = g[x]
  OBVIOUS
<1>6. SumFunctionOnSet(f, T \ {y}) = SumFunctionOnSet(g, T \ {y})
  BY <1>2, <1>5, SumEqual
<1>7. PICK w \in Int : w = SumFunctionOnSet(f, T \ {y})
  BY <1>2, <1>5, SumPull
<1>8. PICK m \in Int : m = f[y]
  OBVIOUS
<1>9. (m + k) + w = (m + w) + k
  BY <1>7, <1>8
<1> QED  BY <1>3, <1>4, <1>6, <1>7, <1>8, <1>9

\* The sum of pointwise sums.
LEMMA SumAdded ==
  ASSUME NEW f, NEW g, NEW h, NEW T, IsFiniteSet(T),
         \A x \in T : f[x] \in Int /\ g[x] \in Int /\ h[x] = f[x] + g[x]
  PROVE  SumFunctionOnSet(h, T) = SumFunctionOnSet(f, T) + SumFunctionOnSet(g, T)
<1> DEFINE Good == {s \in SUBSET T : SumFunctionOnSet(h, s) = SumFunctionOnSet(f, s) + SumFunctionOnSet(g, s)}
<1>1. ASSUME NEW s \in SUBSET T, \A x \in s : s \ {x} \in Good PROVE s \in Good
  <2>1. IsFiniteSet(s) /\ \A x \in s : f[x] \in Int /\ g[x] \in Int /\ h[x] \in Int
    BY FS_Subset
  <2>2. CASE s = {}
    <3>1. SumFunctionOnSet(h, s) = 0 /\ SumFunctionOnSet(f, s) = 0 /\ SumFunctionOnSet(g, s) = 0
      BY <2>1, <2>2, SumPull
    <3> QED  BY <3>1
  <2>3. ASSUME NEW x \in s PROVE s \in Good
    <3>1. SumFunctionOnSet(h, s) = h[x] + SumFunctionOnSet(h, s \ {x})
      BY <2>1, SumPull
    <3>2. SumFunctionOnSet(f, s) = f[x] + SumFunctionOnSet(f, s \ {x})
      BY <2>1, SumPull
    <3>3. SumFunctionOnSet(g, s) = g[x] + SumFunctionOnSet(g, s \ {x})
      BY <2>1, SumPull
    <3>4. IsFiniteSet(s \ {x}) /\ \A y \in s \ {x} : f[y] \in Int /\ g[y] \in Int
      BY <2>1, FS_RemoveElement
    <3>5. PICK a \in Int : a = SumFunctionOnSet(f, s \ {x})
      BY <3>4, SumPull
    <3>6. PICK b \in Int : b = SumFunctionOnSet(g, s \ {x})
      BY <3>4, SumPull
    <3>7. SumFunctionOnSet(h, s \ {x}) = a + b
      BY <1>1, <3>5, <3>6
    <3>8. PICK u, v \in Int : u = f[x] /\ v = g[x] /\ h[x] = u + v
      OBVIOUS
    <3>9. (u + v) + (a + b) = (u + a) + (v + b)
      BY <3>5, <3>6, <3>8
    <3> QED  BY <3>1, <3>2, <3>3, <3>5, <3>6, <3>7, <3>8, <3>9
  <2> QED  BY <2>2, <2>3
<1> HIDE DEF Good
<1>2. \A s \in SUBSET T : s \in Good
  BY <1>1, SubsetInduction
<1> USE DEF Good
<1> QED  BY <1>2

\* Smaller summands have the smaller sum.
LEMMA SumSmaller ==
  ASSUME NEW f, NEW g, NEW T, IsFiniteSet(T),
         \A x \in T : f[x] \in Int /\ g[x] \in Int /\ f[x] <= g[x]
  PROVE  SumFunctionOnSet(f, T) <= SumFunctionOnSet(g, T)
<1> DEFINE Good == {s \in SUBSET T : SumFunctionOnSet(f, s) <= SumFunctionOnSet(g, s)}
<1>1. ASSUME NEW s \in SUBSET T, \A x \in s : s \ {x} \in Good PROVE s \in Good
  <2>1. IsFiniteSet(s) /\ \A x \in s : f[x] \in Int /\ g[x] \in Int
    BY FS_Subset
  <2>2. CASE s = {}
    <3>1. SumFunctionOnSet(f, s) = 0 /\ SumFunctionOnSet(g, s) = 0
      BY <2>1, <2>2, SumPull
    <3> QED  BY <3>1
  <2>3. ASSUME NEW x \in s PROVE s \in Good
    <3>2. SumFunctionOnSet(f, s) = f[x] + SumFunctionOnSet(f, s \ {x})
      BY <2>1, SumPull
    <3>3. SumFunctionOnSet(g, s) = g[x] + SumFunctionOnSet(g, s \ {x})
      BY <2>1, SumPull
    <3>4. IsFiniteSet(s \ {x}) /\ \A y \in s \ {x} : f[y] \in Int /\ g[y] \in Int
      BY <2>1, FS_RemoveElement
    <3>5. PICK a \in Int : a = SumFunctionOnSet(f, s \ {x})
      BY <3>4, SumPull
    <3>6. PICK b \in Int : b = SumFunctionOnSet(g, s \ {x})
      BY <3>4, SumPull
    <3>7. a <= b
      BY <1>1, <3>5, <3>6
    <3>8. PICK u, v \in Int : u = f[x] /\ v = g[x] /\ u <= v
      OBVIOUS
    <3>9. u + a <= v + b
      BY <3>5, <3>6, <3>7, <3>8
    <3> QED  BY <3>2, <3>3, <3>5, <3>6, <3>8, <3>9
  <2> QED  BY <2>2, <2>3
<1> HIDE DEF Good
<1>2. \A s \in SUBSET T : s \in Good
  BY <1>1, SubsetInduction
<1> USE DEF Good
<1> QED  BY <1>2

\* Smaller summands with the same sum are the same.
LEMMA SumTight ==
  ASSUME NEW f, NEW g, NEW T, IsFiniteSet(T),
         \A x \in T : f[x] \in Int /\ g[x] \in Int /\ f[x] <= g[x],
         SumFunctionOnSet(f, T) = SumFunctionOnSet(g, T), NEW x \in T
  PROVE  f[x] = g[x]
<1>1. IsFiniteSet(T \ {x}) /\ \A y \in T \ {x} : f[y] \in Int /\ g[y] \in Int /\ f[y] <= g[y]
  BY FS_RemoveElement
<1>2. SumFunctionOnSet(f, T) = f[x] + SumFunctionOnSet(f, T \ {x})
  BY SumPull
<1>3. SumFunctionOnSet(g, T) = g[x] + SumFunctionOnSet(g, T \ {x})
  BY SumPull
<1>4. PICK a \in Int : a = SumFunctionOnSet(f, T \ {x})
  BY <1>1, SumPull
<1>5. PICK b \in Int : b = SumFunctionOnSet(g, T \ {x})
  BY <1>1, SumPull
<1>6. a <= b
  BY <1>1, <1>4, <1>5, SumSmaller
<1>7. PICK u, v \in Int : u = f[x] /\ v = g[x] /\ u <= v
  OBVIOUS
<1>8. u + a = v + b
  BY <1>2, <1>3, <1>4, <1>5, <1>7
<1>9. u = v
  BY <1>4, <1>5, <1>6, <1>7, <1>8
<1> QED  BY <1>7, <1>9

\* As many summands of c.
LEMMA SumConstant ==
  ASSUME NEW f, NEW T, IsFiniteSet(T), NEW c \in {0, 1}, \A x \in T : f[x] = c
  PROVE  SumFunctionOnSet(f, T) = IF c = 0 THEN 0 ELSE Cardinality(T)
<1> DEFINE Good == {s \in SUBSET T : SumFunctionOnSet(f, s) = IF c = 0 THEN 0 ELSE Cardinality(s)}
<1>1. ASSUME NEW s \in SUBSET T, \A x \in s : s \ {x} \in Good PROVE s \in Good
  <2>1. IsFiniteSet(s) /\ \A x \in s : f[x] \in Int
    BY FS_Subset
  <2>2. CASE s = {}
    <3>1. SumFunctionOnSet(f, s) = 0 /\ Cardinality(s) = 0
      BY <2>1, <2>2, SumPull, FS_EmptySet
    <3> QED  BY <3>1
  <2>3. ASSUME NEW x \in s PROVE s \in Good
    <3>1. SumFunctionOnSet(f, s) = c + SumFunctionOnSet(f, s \ {x})
      BY <2>1, SumPull
    <3>2. SumFunctionOnSet(f, s \ {x}) = IF c = 0 THEN 0 ELSE Cardinality(s \ {x})
      BY <1>1
    <3>3. Cardinality(s \ {x}) = Cardinality(s) - 1 /\ Cardinality(s) \in Nat
      BY <2>1, FS_RemoveElement, FS_CardinalityType
    <3>4. PICK m \in Nat : m = Cardinality(s)
      BY <3>3
    <3>5. 1 + (m - 1) = m
      BY <3>4
    <3> QED  BY <3>1, <3>2, <3>3, <3>4, <3>5
  <2> QED  BY <2>2, <2>3
<1> HIDE DEF Good
<1>2. \A s \in SUBSET T : s \in Good
  BY <1>1, SubsetInduction
<1> USE DEF Good
<1> QED  BY <1>2

\* As many summands of at most c.
LEMMA SumAtMost ==
  ASSUME NEW f, NEW T, IsFiniteSet(T), NEW c \in Nat, \A x \in T : f[x] \in Int /\ f[x] <= c
  PROVE  SumFunctionOnSet(f, T) <= Cardinality(T) * c
<1> DEFINE Good == {s \in SUBSET T : SumFunctionOnSet(f, s) <= Cardinality(s) * c}
<1>1. ASSUME NEW s \in SUBSET T, \A x \in s : s \ {x} \in Good PROVE s \in Good
  <2>1. IsFiniteSet(s) /\ \A x \in s : f[x] \in Int
    BY FS_Subset
  <2>2. CASE s = {}
    <3>1. SumFunctionOnSet(f, s) = 0 /\ Cardinality(s) = 0
      BY <2>1, <2>2, SumPull, FS_EmptySet
    <3> QED  BY <3>1
  <2>3. ASSUME NEW x \in s PROVE s \in Good
    <3>1. /\ SumFunctionOnSet(f, s) = f[x] + SumFunctionOnSet(f, s \ {x})
          /\ SumFunctionOnSet(f, s) \in Int /\ f[x] \in Int /\ f[x] <= c
      BY <2>1, SumPull
    <3>2. SumFunctionOnSet(f, s \ {x}) <= Cardinality(s \ {x}) * c
      BY <1>1
    <3>3. Cardinality(s \ {x}) = Cardinality(s) - 1 /\ Cardinality(s) \in Nat
      BY <2>1, FS_RemoveElement, FS_CardinalityType
    <3>4. IsFiniteSet(s \ {x}) /\ \A y \in s \ {x} : f[y] \in Int
      BY <2>1, FS_RemoveElement
    <3>5. SumFunctionOnSet(f, s \ {x}) \in Int
      BY <3>4, SumPull
    <3>6. PICK m \in Nat, p \in Int, u \in Int, v \in Int :
            /\ m = Cardinality(s) /\ p = f[x] /\ u = SumFunctionOnSet(f, s)
            /\ v = SumFunctionOnSet(f, s \ {x})
      BY <3>1, <3>3, <3>5
    <3>7. u = p + v /\ v <= (m - 1) * c /\ p <= c
      BY <3>1, <3>2, <3>3, <3>6
    <3>8. (m - 1) * c = m * c - c /\ m * c \in Int
      BY <3>6
    <3>9. u <= m * c
      BY <3>6, <3>7, <3>8
    <3> QED  BY <3>6, <3>9
  <2> QED  BY <2>2, <2>3
<1> HIDE DEF Good
<1>2. \A s \in SUBSET T : s \in Good
  BY <1>1, SubsetInduction
<1> USE DEF Good
<1> QED  BY <1>2

\* A sum over the positions of a sequence without repetition is one over its
\* elements.
LEMMA SumReindexed ==
  ASSUME NEW l, NEW D, IsFiniteSet(D), \A a, b \in D : l[a] = l[b] => a = b,
         NEW f, NEW g, \A a \in D : g[l[a]] \in Int /\ f[a] = g[l[a]]
  PROVE  /\ IsFiniteSet({l[a] : a \in D})
         /\ SumFunctionOnSet(f, D) = SumFunctionOnSet(g, {l[a] : a \in D})
<1> DEFINE Im(s) == {l[a] : a \in s}
           Good == {s \in SUBSET D : IsFiniteSet(Im(s)) /\ SumFunctionOnSet(f, s) = SumFunctionOnSet(g, Im(s))}
<1>1. ASSUME NEW s \in SUBSET D, \A x \in s : s \ {x} \in Good PROVE s \in Good
  <2>1. IsFiniteSet(s) /\ \A x \in s : f[x] \in Int
    BY FS_Subset
  <2>2. CASE s = {}
    <3>1. Im(s) = {}
      BY <2>2
    <3>2. IsFiniteSet({})
      BY FS_EmptySet
    <3>3. \A x \in {} : g[x] \in Int
      OBVIOUS
    <3>4. SumFunctionOnSet(f, s) = 0 /\ SumFunctionOnSet(g, {}) = 0
      BY <2>1, <2>2, <3>2, <3>3, SumPull
    <3> QED  BY <3>1, <3>2, <3>4
  <2>3. ASSUME NEW x \in s PROVE s \in Good
    <3>1. SumFunctionOnSet(f, s) = f[x] + SumFunctionOnSet(f, s \ {x})
      BY <2>1, SumPull
    <3>2. PICK A, B, y : A = Im(s \ {x}) /\ B = Im(s) /\ y = l[x]
      OBVIOUS
    <3>3. A = B \ {y} /\ y \in B /\ B = A \cup {y}
      BY <3>2
    <3>4. IsFiniteSet(A) /\ SumFunctionOnSet(f, s \ {x}) = SumFunctionOnSet(g, A)
      BY <1>1, <3>2
    <3>5. \A z \in B : g[z] \in Int
      BY <3>2
    <3>6. IsFiniteSet(B)
      BY <3>3, <3>4, FS_AddElement
    <3>7. SumFunctionOnSet(g, B) = g[y] + SumFunctionOnSet(g, B \ {y})
      BY <3>3, <3>5, <3>6, SumPull
    <3>8. SumFunctionOnSet(g, B) = SumFunctionOnSet(f, s)
      BY <3>1, <3>2, <3>3, <3>4, <3>7
    <3> QED  BY <3>2, <3>6, <3>8
  <2> QED  BY <2>2, <2>3
<1> HIDE DEF Good
<1>2. \A s \in SUBSET D : s \in Good
  BY <1>1, SubsetInduction
<1>3. D \in Good
  BY <1>2
<1> QED  BY <1>3 DEF Good

-----------------------------------------------------------------------------
(***************************************************************************)
(* BufferPool (the instance BP).  A call changes one pool: the totals are  *)
(* those of the other pools plus what the call leaves in its own.          *)
(***************************************************************************)

\* What the pools of ps borrowed, created and keep free, by size.
Borrowed(ps) == [y \in DOMAIN ps |-> ps[y].borrowed]
Created(ps) == [y \in DOMAIN ps |-> ps[y].created]
Free(ps) == [y \in DOMAIN ps |-> SumFunctionOnSet(ps[y].free, BufferSize)]

PoolType == [free : [BufferSize -> Nat], created : Int, borrowed : Int]

LEMMA PoolFields ==
  ASSUME NEW p \in PoolType
  PROVE  /\ p = [free |-> p.free, created |-> p.created, borrowed |-> p.borrowed]
         /\ p.free \in [BufferSize -> Nat] /\ p.created \in Int /\ p.borrowed \in Int
BY DEF PoolType

\* The constants, with the finite sets of this module.
LEMMA BuffersFinite ==
  ASSUME BP!BuffersAssumption
  PROVE  IsFiniteSet(BufferSize) /\ InitialCount \in Nat /\ MaxCount \in Nat
<1>1. BP!IsFiniteSet(BufferSize) /\ InitialCount \in Nat /\ MaxCount \in Nat
  BY DEF BP!BuffersAssumption
<1>2. IsFiniteSet(BufferSize)
  BY <1>1 DEF BP!IsFiniteSet, IsFiniteSet
<1> QED  BY <1>1, <1>2

\* Changing the summand at z, or adding it, leaves the sum of the others.
LEMMA SumPut ==
  ASSUME NEW D, IsFiniteSet(D), NEW z, NEW u, NEW w, w[z] \in Int,
         \A y \in D \ {z} : u[y] \in Int /\ w[y] = u[y]
  PROVE  /\ SumFunctionOnSet(u, D \ {z}) \in Int
         /\ SumFunctionOnSet(w, D \cup {z}) = w[z] + SumFunctionOnSet(u, D \ {z})
<1>1. IsFiniteSet(D \cup {z}) /\ IsFiniteSet(D \ {z})
  BY FS_AddElement, FS_RemoveElement
<1>2. \A y \in D \cup {z} : w[y] \in Int
  OBVIOUS
<1>3. SumFunctionOnSet(w, D \cup {z}) = w[z] + SumFunctionOnSet(w, (D \cup {z}) \ {z})
  BY <1>1, <1>2, SumPull
<1>4. (D \cup {z}) \ {z} = D \ {z}
  OBVIOUS
<1>5. SumFunctionOnSet(u, D \ {z}) = SumFunctionOnSet(w, D \ {z})
  BY <1>1, SumEqual
<1>6. SumFunctionOnSet(u, D \ {z}) \in Int
  BY <1>1, SumPull
<1> QED  BY <1>3, <1>4, <1>5, <1>6

\* A counter per size, one of which changes by k.
LEMMA CountChanged ==
  ASSUME BP!BuffersAssumption, NEW f \in [BufferSize -> Nat], NEW g \in [BufferSize -> Nat],
         NEW y \in BufferSize, NEW k \in Int,
         g[y] = f[y] + k, \A x \in BufferSize \ {y} : g[x] = f[x]
  PROVE  SumFunctionOnSet(g, BufferSize) = SumFunctionOnSet(f, BufferSize) + k
<1>1. IsFiniteSet(BufferSize) /\ BufferSize \cup {y} = BufferSize
  BY BuffersFinite
<1>2. \A x \in BufferSize : f[x] \in Int /\ g[x] \in Int
  OBVIOUS
<1>3. \A x \in BufferSize \ {y} : f[x] \in Int /\ g[x] = f[x]
  OBVIOUS
<1>4. /\ SumFunctionOnSet(f, BufferSize \ {y}) \in Int
      /\ SumFunctionOnSet(g, BufferSize \cup {y}) = g[y] + SumFunctionOnSet(f, BufferSize \ {y})
  BY <1>1, <1>2, <1>3, SumPut
<1>5. SumFunctionOnSet(f, BufferSize) = f[y] + SumFunctionOnSet(f, BufferSize \ {y})
  BY <1>1, <1>2, SumPull
<1>6. PICK w \in Int : w = SumFunctionOnSet(f, BufferSize \ {y})
  BY <1>4
<1>7. PICK m \in Int : m = f[y]
  BY <1>2
<1>8. (m + k) + w = (m + w) + k
  BY <1>6, <1>7
<1> QED  BY <1>1, <1>4, <1>5, <1>6, <1>7, <1>8

LEMMA SumOfZeros ==
  ASSUME BP!BuffersAssumption, NEW f, \A y \in BufferSize : f[y] = 0
  PROVE  SumFunctionOnSet(f, BufferSize) = 0
<1> DEFINE Good == {s \in SUBSET BufferSize : SumFunctionOnSet(f, s) = 0}
<1>0. IsFiniteSet(BufferSize)
  BY BuffersFinite
<1>1. ASSUME NEW s \in SUBSET BufferSize, \A x \in s : s \ {x} \in Good PROVE s \in Good
  <2>1. IsFiniteSet(s) /\ \A x \in s : f[x] \in Int
    BY <1>0, FS_Subset
  <2>2. CASE s = {}
    BY <2>1, <2>2, SumPull
  <2>3. ASSUME NEW x \in s PROVE s \in Good
    <3>1. SumFunctionOnSet(f, s) = f[x] + SumFunctionOnSet(f, s \ {x})
      BY <2>1, SumPull
    <3> QED  BY <1>1, <3>1
  <2> QED  BY <2>2, <2>3
<1> HIDE DEF Good
<1>2. \A s \in SUBSET BufferSize : s \in Good
  BY <1>0, <1>1, SubsetInduction
<1> USE DEF Good
<1> QED  BY <1>2

\* The sums the module speaks of are these sums.
LEMMA BufferSums ==
  ASSUME NEW f
  PROVE  BP!SumFunction(f) = SumFunctionOnSet(f, DOMAIN f)
BY DEF BP!SumFunction, BP!SumFunctionOnSet, BP!FoldFunctionOnSet, BP!MapThenFoldSet,
       SumFunctionOnSet, FoldFunctionOnSet, MapThenFoldSet

LEMMA FreeCounts ==
  ASSUME BP!BuffersAssumption, NEW f \in [BufferSize -> Nat]
  PROVE  SumFunctionOnSet(f, BufferSize) \in Int /\ BP!SumFunction(f) = SumFunctionOnSet(f, BufferSize)
<1>1. \A x \in BufferSize : f[x] \in Int
  OBVIOUS
<1>2. IsFiniteSet(BufferSize) /\ DOMAIN f = BufferSize
  BY BuffersFinite
<1> QED  BY <1>1, <1>2, SumPull, BufferSums

\* The property in terms of those sums.
Conserved(ps, us, dr) ==
    /\ SumFunctionOnSet(Borrowed(ps), DOMAIN ps) = SumFunctionOnSet(us, BufferSize) + dr
    /\ SumFunctionOnSet(Created(ps), DOMAIN ps)
         = SumFunctionOnSet(Free(ps), DOMAIN ps) + SumFunctionOnSet(us, BufferSize) + dr
    /\ \A z \in DOMAIN ps : SumFunctionOnSet(ps[z].free, BufferSize) <= MaxCount

BufferTypes(ps, us, dr) ==
    /\ DOMAIN ps \subseteq BufferSize
    /\ \A z \in DOMAIN ps : ps[z] \in PoolType
    /\ us \in [BufferSize -> Nat] /\ dr \in Nat

LEMMA ConservedMeans ==
  BuffersConserve <=> BufferTypes(pools, users, dropped) /\ Conserved(pools, users, dropped)
<1>0. BP!BuffersAssumption
  BY ServicesAssumption
<1>1. BP!TypeOK <=> BufferTypes(pools, users, dropped)
  BY DEF BP!TypeOK, BufferTypes, PoolType
<1>2. SUFFICES ASSUME BufferTypes(pools, users, dropped)
               PROVE  BP!BuffersConserved <=> Conserved(pools, users, dropped)
  BY <1>1 DEF BuffersConserve
<1>3. \A z \in DOMAIN pools : BP!SumFunction(pools[z].free) = SumFunctionOnSet(pools[z].free, BufferSize)
  BY <1>0, <1>2, FreeCounts, PoolFields DEF BufferTypes
<1>4. BP!SumFunction(users) = SumFunctionOnSet(users, BufferSize)
  BY <1>0, <1>2, FreeCounts DEF BufferTypes
<1>5. BP!SumFunction([z \in DOMAIN pools |-> pools[z].borrowed]) = SumFunctionOnSet(Borrowed(pools), DOMAIN pools)
  BY BufferSums DEF Borrowed
<1>6. BP!SumFunction([z \in DOMAIN pools |-> pools[z].created]) = SumFunctionOnSet(Created(pools), DOMAIN pools)
  BY BufferSums DEF Created
<1>7. BP!SumFunction([z \in DOMAIN pools |-> BP!SumFunction(pools[z].free)]) = SumFunctionOnSet(Free(pools), DOMAIN pools)
  <2>1. [z \in DOMAIN pools |-> BP!SumFunction(pools[z].free)] = Free(pools)
    BY <1>3 DEF Free
  <2>2. DOMAIN Free(pools) = DOMAIN pools
    BY DEF Free
  <2> QED  BY <2>1, <2>2, BufferSums
<1> QED
  BY <1>3, <1>4, <1>5, <1>6, <1>7 DEF BP!BuffersConserved, BP!Total, Conserved

\* The pools with p at z.
With(ps, z, p) == [y \in DOMAIN ps \cup {z} |-> IF y = z THEN p ELSE ps[y]]

\* The pools of ps other than that of z.
Others(ps, z) == DOMAIN ps \ {z}

LEMMA OthersSummed ==
  ASSUME BP!BuffersAssumption, NEW ps, NEW us, NEW dr, BufferTypes(ps, us, dr), NEW z \in BufferSize
  PROVE  /\ IsFiniteSet(DOMAIN ps) /\ IsFiniteSet(Others(ps, z))
         /\ \A y \in DOMAIN ps : Borrowed(ps)[y] \in Int /\ Created(ps)[y] \in Int /\ Free(ps)[y] \in Int
         /\ SumFunctionOnSet(Borrowed(ps), Others(ps, z)) \in Int
         /\ SumFunctionOnSet(Created(ps), Others(ps, z)) \in Int
         /\ SumFunctionOnSet(Free(ps), Others(ps, z)) \in Int
<1>1. DOMAIN ps \in SUBSET BufferSize
  BY DEF BufferTypes
<1>2. IsFiniteSet(DOMAIN ps) /\ IsFiniteSet(Others(ps, z))
  BY <1>1, BuffersFinite, FS_Subset, FS_RemoveElement DEF Others
<1>3. \A y \in DOMAIN ps : Borrowed(ps)[y] \in Int /\ Created(ps)[y] \in Int /\ Free(ps)[y] \in Int
  BY FreeCounts, PoolFields DEF BufferTypes, Borrowed, Created, Free
<1>4. \A y \in Others(ps, z) : Borrowed(ps)[y] \in Int /\ Created(ps)[y] \in Int /\ Free(ps)[y] \in Int
  BY <1>3 DEF Others
<1>5. SumFunctionOnSet(Borrowed(ps), Others(ps, z)) \in Int
  BY <1>2, <1>4, SumPull
<1>6. SumFunctionOnSet(Created(ps), Others(ps, z)) \in Int
  BY <1>2, <1>4, SumPull
<1>7. SumFunctionOnSet(Free(ps), Others(ps, z)) \in Int
  BY <1>2, <1>4, SumPull
<1> QED  BY <1>2, <1>3, <1>5, <1>6, <1>7

\* The totals are those of the other pools and those of the pool of z.
LEMMA TotalsSplit ==
  ASSUME BP!BuffersAssumption, NEW ps, NEW us, NEW dr, BufferTypes(ps, us, dr), NEW z \in BufferSize, z \in DOMAIN ps
  PROVE  /\ SumFunctionOnSet(Borrowed(ps), DOMAIN ps) = ps[z].borrowed + SumFunctionOnSet(Borrowed(ps), Others(ps, z))
         /\ SumFunctionOnSet(Created(ps), DOMAIN ps) = ps[z].created + SumFunctionOnSet(Created(ps), Others(ps, z))
         /\ SumFunctionOnSet(Free(ps), DOMAIN ps)
              = SumFunctionOnSet(ps[z].free, BufferSize) + SumFunctionOnSet(Free(ps), Others(ps, z))
<1>0. /\ IsFiniteSet(DOMAIN ps)
      /\ \A y \in DOMAIN ps : Borrowed(ps)[y] \in Int /\ Created(ps)[y] \in Int /\ Free(ps)[y] \in Int
  BY OthersSummed
<1>1. SumFunctionOnSet(Borrowed(ps), DOMAIN ps) = Borrowed(ps)[z] + SumFunctionOnSet(Borrowed(ps), DOMAIN ps \ {z})
  BY <1>0, SumPull
<1>2. SumFunctionOnSet(Created(ps), DOMAIN ps) = Created(ps)[z] + SumFunctionOnSet(Created(ps), DOMAIN ps \ {z})
  BY <1>0, SumPull
<1>3. SumFunctionOnSet(Free(ps), DOMAIN ps) = Free(ps)[z] + SumFunctionOnSet(Free(ps), DOMAIN ps \ {z})
  BY <1>0, SumPull
<1>4. Borrowed(ps)[z] = ps[z].borrowed /\ Created(ps)[z] = ps[z].created
  BY DEF Borrowed, Created
<1>5. Free(ps)[z] = SumFunctionOnSet(ps[z].free, BufferSize)
  BY DEF Free
<1> QED  BY <1>1, <1>2, <1>3, <1>4, <1>5 DEF Others

\* The totals of pools that differ at z only.
LEMMA ChangedSums ==
  ASSUME NEW ps, NEW q, NEW z, IsFiniteSet(DOMAIN ps), DOMAIN q = DOMAIN ps \cup {z},
         \A y \in DOMAIN ps \ {z} : q[y] = ps[y],
         \A y \in DOMAIN q : Borrowed(q)[y] \in Int /\ Created(q)[y] \in Int /\ Free(q)[y] \in Int
  PROVE  /\ SumFunctionOnSet(Borrowed(q), DOMAIN q)
              = Borrowed(q)[z] + SumFunctionOnSet(Borrowed(ps), DOMAIN ps \ {z})
         /\ SumFunctionOnSet(Created(q), DOMAIN q)
              = Created(q)[z] + SumFunctionOnSet(Created(ps), DOMAIN ps \ {z})
         /\ SumFunctionOnSet(Free(q), DOMAIN q) = Free(q)[z] + SumFunctionOnSet(Free(ps), DOMAIN ps \ {z})
<1> DEFINE D == DOMAIN ps
<1>1. \A y \in D \ {z} : /\ Borrowed(q)[y] = Borrowed(ps)[y] /\ Created(q)[y] = Created(ps)[y]
                         /\ Free(q)[y] = Free(ps)[y]
  BY DEF Borrowed, Created, Free
<1>2. ASSUME NEW u, NEW w, \A y \in D \cup {z} : w[y] \in Int, \A y \in D \ {z} : w[y] = u[y]
      PROVE  SumFunctionOnSet(w, D \cup {z}) = w[z] + SumFunctionOnSet(u, D \ {z})
  <2>1. w[z] \in Int /\ \A y \in D \ {z} : u[y] \in Int /\ w[y] = u[y]
    BY <1>2
  <2>2. IsFiniteSet(D)
    OBVIOUS
  <2> HIDE DEF D
  <2> QED  BY <2>1, <2>2, SumPut
<1> HIDE DEF D
<1>3. SumFunctionOnSet(Borrowed(q), D \cup {z}) = Borrowed(q)[z] + SumFunctionOnSet(Borrowed(ps), D \ {z})
  <2>1. \A y \in D \cup {z} : Borrowed(q)[y] \in Int
    BY DEF D
  <2> QED  BY <1>1, <1>2, <2>1
<1>4. SumFunctionOnSet(Created(q), D \cup {z}) = Created(q)[z] + SumFunctionOnSet(Created(ps), D \ {z})
  <2>1. \A y \in D \cup {z} : Created(q)[y] \in Int
    BY DEF D
  <2> QED  BY <1>1, <1>2, <2>1
<1>5. SumFunctionOnSet(Free(q), D \cup {z}) = Free(q)[z] + SumFunctionOnSet(Free(ps), D \ {z})
  <2>1. \A y \in D \cup {z} : Free(q)[y] \in Int
    BY DEF D
  <2> QED  BY <1>1, <1>2, <2>1
<1> QED  BY <1>3, <1>4, <1>5 DEF D

\* Conservation when p is put at z, in terms of the other pools.
LEMMA WithConserves ==
  ASSUME BP!BuffersAssumption, NEW ps, NEW us, NEW dr, BufferTypes(ps, us, dr), NEW z \in BufferSize,
         \A y \in Others(ps, z) : SumFunctionOnSet(ps[y].free, BufferSize) <= MaxCount,
         NEW p \in PoolType,
         NEW u \in [BufferSize -> Nat], NEW d \in Nat,
         p.borrowed + SumFunctionOnSet(Borrowed(ps), Others(ps, z)) = SumFunctionOnSet(u, BufferSize) + d,
         p.created + SumFunctionOnSet(Created(ps), Others(ps, z))
           = SumFunctionOnSet(p.free, BufferSize) + SumFunctionOnSet(Free(ps), Others(ps, z))
             + SumFunctionOnSet(u, BufferSize) + d,
         SumFunctionOnSet(p.free, BufferSize) <= MaxCount
  PROVE  BufferTypes(With(ps, z, p), u, d) /\ Conserved(With(ps, z, p), u, d)
<1> DEFINE q == With(ps, z, p)
           D == DOMAIN ps
<1>1. /\ DOMAIN q = D \cup {z} /\ q[z] = p
      /\ \A y \in D \ {z} : q[y] = ps[y]
  BY DEF With
<1> HIDE DEF q
<1>2. BufferTypes(q, u, d)
  BY <1>1 DEF BufferTypes
<1>3. IsFiniteSet(D) /\ \A y \in D : Borrowed(ps)[y] \in Int /\ Created(ps)[y] \in Int /\ Free(ps)[y] \in Int
  BY OthersSummed
<1>4. Borrowed(q)[z] = p.borrowed /\ Created(q)[z] = p.created /\ Free(q)[z] = SumFunctionOnSet(p.free, BufferSize)
  BY <1>1 DEF Borrowed, Created, Free
<1>5. \A y \in DOMAIN q : Borrowed(q)[y] \in Int /\ Created(q)[y] \in Int /\ Free(q)[y] \in Int
  BY <1>2, OthersSummed
<1>6. /\ SumFunctionOnSet(Borrowed(q), DOMAIN q) = p.borrowed + SumFunctionOnSet(Borrowed(ps), D \ {z})
      /\ SumFunctionOnSet(Created(q), DOMAIN q) = p.created + SumFunctionOnSet(Created(ps), D \ {z})
      /\ SumFunctionOnSet(Free(q), DOMAIN q)
           = SumFunctionOnSet(p.free, BufferSize) + SumFunctionOnSet(Free(ps), D \ {z})
  BY <1>1, <1>3, <1>4, <1>5, ChangedSums
<1>7. \A y \in DOMAIN q : SumFunctionOnSet(q[y].free, BufferSize) <= MaxCount
  BY <1>1 DEF Others
<1>8. Others(ps, z) = D \ {z}
  BY DEF Others
<1>9. Conserved(q, u, d)
  <2>1. SumFunctionOnSet(Borrowed(q), DOMAIN q) = SumFunctionOnSet(u, BufferSize) + d
    BY <1>6, <1>8
  <2>2. SumFunctionOnSet(Created(q), DOMAIN q)
          = SumFunctionOnSet(Free(q), DOMAIN q) + SumFunctionOnSet(u, BufferSize) + d
    BY <1>6, <1>8
  <2> QED  BY <1>7, <2>1, <2>2 DEF Conserved
<1> QED  BY <1>2, <1>9 DEF q

\* The pool get_pool returns fits the books, whether it was there or is new.
LEMMA PoolBooked ==
  ASSUME BP!BuffersAssumption, BufferTypes(pools, users, dropped), Conserved(pools, users, dropped),
         NEW z \in BufferSize, NEW p, p = BP!get_pool(z)
  PROVE  /\ p \in PoolType
         /\ \A y \in Others(pools, z) : SumFunctionOnSet(pools[y].free, BufferSize) <= MaxCount
         /\ p.borrowed + SumFunctionOnSet(Borrowed(pools), Others(pools, z))
              = SumFunctionOnSet(users, BufferSize) + dropped
         /\ p.created + SumFunctionOnSet(Created(pools), Others(pools, z))
              = SumFunctionOnSet(p.free, BufferSize) + SumFunctionOnSet(Free(pools), Others(pools, z))
                + SumFunctionOnSet(users, BufferSize) + dropped
         /\ SumFunctionOnSet(p.free, BufferSize) <= MaxCount
<1> DEFINE n == IF InitialCount < MaxCount THEN InitialCount ELSE MaxCount
<1>0. n \in Nat /\ n <= MaxCount
  BY BuffersFinite
<1>1. \A y \in Others(pools, z) : SumFunctionOnSet(pools[y].free, BufferSize) <= MaxCount
  BY DEF Conserved, Others
<1>2. CASE z \in DOMAIN pools
  <2>1. p = pools[z]
    BY <1>2 DEF BP!get_pool
  <2>2. p \in PoolType
    BY <1>2, <2>1 DEF BufferTypes
  <2>3. SumFunctionOnSet(p.free, BufferSize) <= MaxCount
    BY <1>2, <2>1 DEF Conserved
  <2>4. p.borrowed + SumFunctionOnSet(Borrowed(pools), Others(pools, z))
          = SumFunctionOnSet(users, BufferSize) + dropped
    BY <1>2, <2>1, TotalsSplit DEF Conserved
  <2>5. p.created + SumFunctionOnSet(Created(pools), Others(pools, z))
          = SumFunctionOnSet(p.free, BufferSize) + SumFunctionOnSet(Free(pools), Others(pools, z))
            + SumFunctionOnSet(users, BufferSize) + dropped
    BY <1>2, <2>1, TotalsSplit DEF Conserved
  <2> QED  BY <1>1, <2>2, <2>3, <2>4, <2>5
<1>3. CASE z \notin DOMAIN pools
  <2>1. p = [free |-> [y \in BufferSize |-> IF y = z THEN n ELSE 0], created |-> n, borrowed |-> 0]
    BY <1>3 DEF BP!get_pool, BP!NewPool
  <2> HIDE DEF n
  <2>2. /\ p \in PoolType
        /\ p.created = n /\ p.borrowed = 0
        /\ p.free = [y \in BufferSize |-> IF y = z THEN n ELSE 0]
    BY <1>0, <2>1 DEF PoolType
  <2>3. SumFunctionOnSet(p.free, BufferSize) = n
    <3> DEFINE f == [y \in BufferSize |-> 0]
               g == p.free
    <3>1. f \in [BufferSize -> Nat] /\ f[z] = 0 /\ \A y \in BufferSize : f[y] = 0
      OBVIOUS
    <3>2. g \in [BufferSize -> Nat] /\ g[z] = n /\ \A y \in BufferSize \ {z} : g[y] = f[y]
      BY <1>0, <2>2
    <3>3. n \in Int /\ n = 0 + n
      BY <1>0
    <3> HIDE DEF f, g
    <3>4. SumFunctionOnSet(f, BufferSize) = 0
      BY <3>1, SumOfZeros
    <3>5. g[z] = f[z] + n
      BY <3>1, <3>2, <3>3
    <3>6. SumFunctionOnSet(g, BufferSize) = SumFunctionOnSet(f, BufferSize) + n
      BY <3>1, <3>2, <3>3, <3>5, CountChanged
    <3> QED  BY <3>3, <3>4, <3>6 DEF g
  <2>4. Others(pools, z) = DOMAIN pools
    BY <1>3 DEF Others
  <2>5. PICK b, c, r \in Int :
            /\ b = SumFunctionOnSet(Borrowed(pools), Others(pools, z))
            /\ c = SumFunctionOnSet(Created(pools), Others(pools, z))
            /\ r = SumFunctionOnSet(Free(pools), Others(pools, z))
    BY OthersSummed
  <2>6. PICK s \in Int : s = SumFunctionOnSet(users, BufferSize)
    BY FreeCounts DEF BufferTypes
  <2>7. b = s + dropped /\ c = r + s + dropped
    BY <2>4, <2>5, <2>6 DEF Conserved
  <2>8. dropped \in Nat
    BY DEF BufferTypes
  <2>9. 0 + b = s + dropped
    BY <2>5, <2>7
  <2>10. n + c = n + r + s + dropped
    BY <1>0, <2>7, <2>5, <2>6, <2>8
  <2> QED  BY <1>0, <1>1, <2>2, <2>3, <2>5, <2>6, <2>9, <2>10
<1> QED  BY <1>2, <1>3

\* A call that changes what is lent by k and what its pool keeps free from f to
\* g is conserving if it books both.
LEMMA PoolChanged ==
  ASSUME BP!BuffersAssumption, BufferTypes(pools, users, dropped), Conserved(pools, users, dropped),
         NEW z \in BufferSize, NEW p, p = BP!get_pool(z),
         NEW q \in PoolType,
         NEW u \in [BufferSize -> Nat], NEW k \in Int, NEW f \in Int, NEW g \in Int,
         f = SumFunctionOnSet(p.free, BufferSize), g = SumFunctionOnSet(q.free, BufferSize), g <= MaxCount,
         SumFunctionOnSet(u, BufferSize) = SumFunctionOnSet(users, BufferSize) + k,
         q.borrowed = p.borrowed + k, q.created = p.created + (g - f) + k
  PROVE  BufferTypes(With(pools, z, q), u, dropped) /\ Conserved(With(pools, z, q), u, dropped)
<1>1. PICK b, c, r \in Int :
            /\ b = SumFunctionOnSet(Borrowed(pools), Others(pools, z))
            /\ c = SumFunctionOnSet(Created(pools), Others(pools, z))
            /\ r = SumFunctionOnSet(Free(pools), Others(pools, z))
  BY OthersSummed
<1>2. users \in [BufferSize -> Nat] /\ dropped \in Nat
  BY DEF BufferTypes
<1>3. PICK s \in Int : s = SumFunctionOnSet(users, BufferSize)
  BY <1>2, FreeCounts
<1>4. /\ p \in PoolType
      /\ \A y \in Others(pools, z) : SumFunctionOnSet(pools[y].free, BufferSize) <= MaxCount
      /\ p.borrowed + b = s + dropped
      /\ p.created + c = f + r + s + dropped
  BY <1>1, <1>3, PoolBooked
<1>5. PICK pb, pn \in Int : pb = p.borrowed /\ pn = p.created
  BY <1>4, PoolFields
<1>6. pb + b = s + dropped /\ pn + c = f + r + s + dropped
  BY <1>4, <1>5
<1>7. (pb + k) + b = (s + k) + dropped
  BY <1>2, <1>6
<1>8. (pn + (g - f) + k) + c = g + r + (s + k) + dropped
  BY <1>2, <1>6
<1>9. q.borrowed + b = SumFunctionOnSet(u, BufferSize) + dropped
  BY <1>3, <1>5, <1>7
<1>10. q.created + c = g + r + SumFunctionOnSet(u, BufferSize) + dropped
  BY <1>3, <1>5, <1>8
<1> QED  BY <1>1, <1>2, <1>4, <1>9, <1>10, WithConserves

\* One step of the pools.
LEMMA BuffersStep ==
  ASSUME BP!BuffersAssumption, BuffersConserve, [BP!Next]_(BP!vars)
  PROVE  BuffersConserve'
<1>0. BufferTypes(pools, users, dropped) /\ Conserved(pools, users, dropped)
  BY ConservedMeans
<1>1. SUFFICES BufferTypes(pools', users', dropped') /\ Conserved(pools', users', dropped')
  <2>1. (BuffersConserve <=> BufferTypes(pools, users, dropped) /\ Conserved(pools, users, dropped))'
    BY ConservedMeans, PTL
  <2> QED  BY <2>1
<1>2. CASE UNCHANGED BP!vars
  BY <1>0, <1>2 DEF BP!vars
<1>3. users \in [BufferSize -> Nat] /\ dropped \in Nat
  BY <1>0 DEF BufferTypes
<1>4. PICK s \in Int : s = SumFunctionOnSet(users, BufferSize)
  BY <1>3, FreeCounts
<1> DEFINE Goal == BufferTypes(pools', users', dropped') /\ Conserved(pools', users', dropped')
<1>5. ASSUME NEW z \in BufferSize, NEW y \in BufferSize, BP!acquire(z, y)
      PROVE  Goal
  <2>1. PICK p : p = BP!get_pool(z)
    OBVIOUS
  <2>2. PICK q : /\ BP!SumFunction(p.free) > 0 =>
                        p.free[y] > 0 /\ q = [p EXCEPT !.free[y] = @ - 1, !.borrowed = @ + 1]
                 /\ ~(BP!SumFunction(p.free) > 0) => q = [p EXCEPT !.created = @ + 1, !.borrowed = @ + 1]
                 /\ pools' = With(pools, z, q)
                 /\ users' = [users EXCEPT ![y] = @ + 1] /\ dropped' = dropped
    BY <1>5, <2>1 DEF BP!acquire, BP!Put, With
  <2>3. p \in PoolType /\ SumFunctionOnSet(p.free, BufferSize) <= MaxCount
    BY <1>0, <2>1, PoolBooked
  <2>4. /\ p = [free |-> p.free, created |-> p.created, borrowed |-> p.borrowed]
        /\ p.free \in [BufferSize -> Nat] /\ p.created \in Int /\ p.borrowed \in Int
    BY <2>3, PoolFields
  <2>5. PICK f \in Int : f = SumFunctionOnSet(p.free, BufferSize) /\ f = BP!SumFunction(p.free) /\ f <= MaxCount
    BY <2>3, <2>4, FreeCounts
  <2>6. users' \in [BufferSize -> Nat] /\ SumFunctionOnSet(users', BufferSize) = s + 1
    <3>1. /\ users' \in [BufferSize -> Nat] /\ users'[y] = users[y] + 1
          /\ \A x \in BufferSize \ {y} : users'[x] = users[x]
      BY <1>3, <2>2
    <3> QED  BY <1>3, <1>4, <3>1, CountChanged
  <2>7. PICK e \in Int : e = 1
    OBVIOUS
  <2>8. PICK u \in [BufferSize -> Nat] :
            u = users' /\ SumFunctionOnSet(u, BufferSize) = SumFunctionOnSet(users, BufferSize) + e
    BY <1>4, <2>6, <2>7
  <2>9. CASE f > 0
    <3>1. q = [p EXCEPT !.free[y] = @ - 1, !.borrowed = @ + 1] /\ p.free[y] > 0
      BY <2>2, <2>5, <2>9
    <3>2. PICK k \in Int : k = -1
      OBVIOUS
    <3>3. PICK g, h : h = p.free /\ g = [p.free EXCEPT ![y] = @ - 1]
      OBVIOUS
    <3>4. q = [free |-> g, created |-> p.created, borrowed |-> p.borrowed + 1]
      BY <2>4, <3>1, <3>3
    <3>5. /\ h \in [BufferSize -> Nat] /\ g \in [BufferSize -> Nat] /\ g[y] = h[y] + k
          /\ \A x \in BufferSize \ {y} : g[x] = h[x]
      BY <2>4, <3>2, <3>1, <3>3
    <3>6. q \in PoolType /\ q.free = g
      BY <2>4, <3>4, <3>5 DEF PoolType
    <3>7. SumFunctionOnSet(g, BufferSize) = f + k
      <4>1. SumFunctionOnSet(g, BufferSize) = SumFunctionOnSet(h, BufferSize) + k
        BY <3>2, <3>5, CountChanged
      <4> QED  BY <2>5, <3>3, <4>1
    <3>8. f + k \in Int /\ f + k <= MaxCount /\ p.created = p.created + ((f + k) - f) + 1
      BY <2>4, <2>5, <3>2, BuffersFinite
    <3>9. PICK m \in Int : m = SumFunctionOnSet(q.free, BufferSize) /\ m <= MaxCount /\ q.created = p.created + (m - f) + e
      BY <2>7, <3>4, <3>6, <3>8, <3>7
    <3>10. q.borrowed = p.borrowed + e
      BY <2>7, <3>4
    <3>11. BufferTypes(With(pools, z, q), u, dropped) /\ Conserved(With(pools, z, q), u, dropped)
      BY <1>0, <2>1, <2>5, <2>8, <3>6, <3>9, <3>10, PoolChanged
    <3> QED  BY <2>2, <2>8, <3>11
  <2>10. CASE ~(f > 0)
    <3>1. q = [p EXCEPT !.created = @ + 1, !.borrowed = @ + 1]
      BY <2>2, <2>5, <2>10
    <3>2. q = [free |-> p.free, created |-> p.created + 1, borrowed |-> p.borrowed + 1]
      BY <2>4, <3>1
    <3>3. q \in PoolType
      BY <2>4, <3>2 DEF PoolType
    <3>4. p.created + 1 = p.created + (f - f) + 1
      BY <2>4, <2>5
    <3>5. q.free = p.free /\ q.created = p.created + (f - f) + e /\ q.borrowed = p.borrowed + e
      BY <2>7, <3>2, <3>4
    <3>6. BufferTypes(With(pools, z, q), u, dropped) /\ Conserved(With(pools, z, q), u, dropped)
      BY <1>0, <2>1, <2>5, <2>8, <3>3, <3>5, PoolChanged
    <3> QED  BY <2>2, <2>8, <3>6
  <2> QED  BY <2>9, <2>10
<1>6. ASSUME NEW z \in BufferSize, NEW y \in BufferSize, BP!release(y, z)
      PROVE  Goal
  <2>1. PICK p : p = BP!get_pool(z)
    OBVIOUS
  <2>2. PICK q : /\ BP!SumFunction(p.free) < MaxCount => q = [p EXCEPT !.free[y] = @ + 1, !.borrowed = @ - 1]
                 /\ ~(BP!SumFunction(p.free) < MaxCount) => q = [p EXCEPT !.created = @ - 1, !.borrowed = @ - 1]
                 /\ pools' = With(pools, z, q)
                 /\ users[y] > 0 /\ users' = [users EXCEPT ![y] = @ - 1] /\ dropped' = dropped
    BY <1>6, <2>1 DEF BP!release, BP!Put, With
  <2>3. p \in PoolType /\ SumFunctionOnSet(p.free, BufferSize) <= MaxCount
    BY <1>0, <2>1, PoolBooked
  <2>4. /\ p = [free |-> p.free, created |-> p.created, borrowed |-> p.borrowed]
        /\ p.free \in [BufferSize -> Nat] /\ p.created \in Int /\ p.borrowed \in Int
    BY <2>3, PoolFields
  <2>5. PICK f \in Int : f = SumFunctionOnSet(p.free, BufferSize) /\ f = BP!SumFunction(p.free) /\ f <= MaxCount
    BY <2>3, <2>4, FreeCounts
  <2>6. PICK k \in Int : k = -1
    OBVIOUS
  <2>7. users' \in [BufferSize -> Nat] /\ SumFunctionOnSet(users', BufferSize) = s + k
    <3>1. /\ users' \in [BufferSize -> Nat] /\ users'[y] = users[y] + k
          /\ \A x \in BufferSize \ {y} : users'[x] = users[x]
      BY <1>3, <2>2, <2>6
    <3> QED  BY <1>3, <1>4, <2>6, <3>1, CountChanged
  <2>8. PICK u \in [BufferSize -> Nat] :
            u = users' /\ SumFunctionOnSet(u, BufferSize) = SumFunctionOnSet(users, BufferSize) + k
    BY <1>4, <2>7
  <2>9. CASE f < MaxCount
    <3>1. q = [p EXCEPT !.free[y] = @ + 1, !.borrowed = @ - 1]
      BY <2>2, <2>5, <2>9
    <3>2. PICK g, h : h = p.free /\ g = [p.free EXCEPT ![y] = @ + 1]
      OBVIOUS
    <3>3. q = [free |-> g, created |-> p.created, borrowed |-> p.borrowed - 1]
      BY <2>4, <3>1, <3>2
    <3>4. /\ h \in [BufferSize -> Nat] /\ g \in [BufferSize -> Nat] /\ g[y] = h[y] + 1
          /\ \A x \in BufferSize \ {y} : g[x] = h[x]
      BY <2>4, <3>1, <3>2
    <3>5. q \in PoolType /\ q.free = g
      BY <2>4, <3>3, <3>4 DEF PoolType
    <3>6. SumFunctionOnSet(g, BufferSize) = f + 1
      <4>1. SumFunctionOnSet(g, BufferSize) = SumFunctionOnSet(h, BufferSize) + 1
        BY <3>4, CountChanged
      <4> QED  BY <2>5, <3>2, <4>1
    <3>7. /\ f + 1 \in Int /\ f + 1 <= MaxCount
          /\ p.created = p.created + ((f + 1) - f) + k /\ p.borrowed - 1 = p.borrowed + k
      BY <2>4, <2>5, <2>6, <2>9, BuffersFinite
    <3>8. PICK m \in Int : m = SumFunctionOnSet(q.free, BufferSize) /\ m <= MaxCount /\ q.created = p.created + (m - f) + k
      BY <3>3, <3>5, <3>7, <3>6
    <3>9. q.borrowed = p.borrowed + k
      BY <3>3, <3>7
    <3>10. BufferTypes(With(pools, z, q), u, dropped) /\ Conserved(With(pools, z, q), u, dropped)
      BY <1>0, <2>1, <2>5, <2>6, <2>8, <3>5, <3>8, <3>9, PoolChanged
    <3> QED  BY <2>2, <2>8, <3>10
  <2>10. CASE ~(f < MaxCount)
    <3>1. q = [p EXCEPT !.created = @ - 1, !.borrowed = @ - 1]
      BY <2>2, <2>5, <2>10
    <3>2. q = [free |-> p.free, created |-> p.created - 1, borrowed |-> p.borrowed - 1]
      BY <2>4, <3>1
    <3>3. q \in PoolType
      BY <2>4, <3>2 DEF PoolType
    <3>4. p.created - 1 = p.created + (f - f) + k /\ p.borrowed - 1 = p.borrowed + k
      BY <2>4, <2>5, <2>6
    <3>5. q.free = p.free /\ q.created = p.created + (f - f) + k /\ q.borrowed = p.borrowed + k
      BY <3>2, <3>4
    <3>6. BufferTypes(With(pools, z, q), u, dropped) /\ Conserved(With(pools, z, q), u, dropped)
      BY <1>0, <2>1, <2>5, <2>6, <2>8, <3>3, <3>5, PoolChanged
    <3> QED  BY <2>2, <2>8, <3>6
  <2> QED  BY <2>9, <2>10
<1>7. ASSUME NEW y \in BufferSize, BP!Drop(y)
      PROVE  Goal
  <2>1. pools' = pools /\ users[y] > 0 /\ users' = [users EXCEPT ![y] = @ - 1] /\ dropped' = dropped + 1
    BY <1>7 DEF BP!Drop
  <2>2. PICK k \in Int : k = -1
    OBVIOUS
  <2>3. users' \in [BufferSize -> Nat] /\ SumFunctionOnSet(users', BufferSize) = s + k
    <3>1. /\ users' \in [BufferSize -> Nat] /\ users'[y] = users[y] + k
          /\ \A x \in BufferSize \ {y} : users'[x] = users[x]
      BY <1>3, <2>1, <2>2
    <3> QED  BY <1>3, <1>4, <2>2, <3>1, CountChanged
  <2>4. BufferTypes(pools', users', dropped')
    BY <1>0, <1>3, <2>1, <2>3 DEF BufferTypes
  <2>5. (s + k) + (dropped + 1) = s + dropped
    BY <1>3, <1>4, <2>2
  <2>6. SumFunctionOnSet(Borrowed(pools), DOMAIN pools) = SumFunctionOnSet(users', BufferSize) + dropped'
    BY <1>0, <1>4, <2>1, <2>3, <2>5 DEF Conserved
  <2>7. IsFiniteSet(DOMAIN pools) /\ \A x \in DOMAIN pools : Free(pools)[x] \in Int
    BY <1>0, OthersSummed
  <2>8. PICK r \in Int : r = SumFunctionOnSet(Free(pools), DOMAIN pools)
    BY <2>7, SumPull
  <2>9. r + (s + k) + (dropped + 1) = r + s + dropped
    BY <1>3, <1>4, <2>2, <2>8
  <2>10. SumFunctionOnSet(Created(pools), DOMAIN pools) = r + SumFunctionOnSet(users', BufferSize) + dropped'
    BY <1>0, <1>4, <2>1, <2>3, <2>8, <2>9 DEF Conserved
  <2> QED  BY <1>0, <2>1, <2>4, <2>6, <2>8, <2>10 DEF Conserved
<1> QED  BY <1>2, <1>5, <1>6, <1>7 DEF BP!Next

LEMMA BuffersInit == ASSUME BP!BuffersAssumption, BP!Init PROVE BuffersConserve
<1>1. pools = <<>> /\ users = [z \in BufferSize |-> 0] /\ dropped = 0
  BY DEF BP!Init
<1>2. DOMAIN pools = {}
  BY <1>1
<1>3. BufferTypes(pools, users, dropped)
  BY <1>1, <1>2 DEF BufferTypes
<1>4. SumFunctionOnSet(users, BufferSize) = 0
  BY <1>1, SumOfZeros
<1>5. IsFiniteSet({})
  BY FS_EmptySet
<1>6. ASSUME NEW f PROVE SumFunctionOnSet(f, {}) = 0
  BY <1>5, SumPull
<1>7. Conserved(pools, users, dropped)
  BY <1>1, <1>2, <1>4, <1>6 DEF Conserved
<1> QED  BY <1>3, <1>7, ConservedMeans

\* For every set of sizes, initial and maximal count: the buffer pools together
\* account for every buffer, also for those that come back to the pool of
\* another size or never, and no pool keeps more than its maximum.
THEOREM BuffersAddUp == BP!Spec => []BuffersConserve
<1>0. BP!BuffersAssumption
  BY ServicesAssumption
<1>1. BP!Init => BuffersConserve
  BY <1>0, BuffersInit
<1>2. BuffersConserve /\ [BP!Next]_(BP!vars) => BuffersConserve'
  BY <1>0, BuffersStep
<1> QED  BY <1>1, <1>2, PTL DEF BP!Spec

\* ObjectPool and BufferPool together, each for every value of its constants.
THEOREM PoolsAddUp == OP!Spec /\ BP!Spec => []PoolsConserve
<1>1. ObjectsAccounted /\ BuffersConserve => PoolsConserve
  BY DEF PoolsConserve
<1> QED  BY <1>1, ObjectsAddUp, BuffersAddUp, PTL

-----------------------------------------------------------------------------
(* EventBus.                                                               *)

\* The ids of s, given out before n, are handlers of type y, each once, the
\* higher priority first, and none of them is in old.
InOrder(s, y, old, n, told) ==
    /\ s \in Seq(Nat) /\ \A i \in 1..Len(s) : s[i] \in 1..(n - 1)
    /\ \A i, j \in 1..Len(s) : i < j => s[i] # s[j] /\ told[s[i]].priority >= told[s[j]].priority
    /\ \A i \in 1..Len(s) : told[s[i]].type = y /\ s[i] \notin old

Publication == [type : EventType, rest : Seq(Nat), called : Nat, cancelled : BOOLEAN, before : SUBSET Nat]

\* A publication calls its handlers in order; inside a handler there is one.
RightPublication(f, n, told) ==
    InOrder(f.rest, f.type, f.before, n, told) /\ (f.called # 0 => f.rest # <<>>)

BusType ==
    /\ subscribers \in [EventType -> Seq(Nat)]
    /\ nextId \in 1..(MaxId + 1)
    /\ about \in Seq([type : EventType, priority : Int]) /\ Len(about) = nextId - 1
    /\ gone \in SUBSET (1..(nextId - 1))
    /\ publishing \in [Publisher -> Seq(Publication)]
    /\ \A t \in Publisher : Len(publishing[t]) <= MaxDepth
    /\ aborted \in BOOLEAN

BusInv ==
    /\ BusType
    /\ \A y \in EventType : InOrder(subscribers[y], y, gone, nextId, about)
    /\ \A t \in Publisher : \A i \in 1..Len(publishing[t]) : RightPublication(publishing[t][i], nextId, about)

\* Calling the first handler leaves the others in order.
LEMMA TailInOrder ==
  ASSUME NEW s, NEW y, NEW old, NEW n, NEW told, InOrder(s, y, old, n, told), s # <<>>
  PROVE  InOrder(Tail(s), y, old, n, told)
<1>1. s \in Seq(Nat) /\ Len(s) \in Nat /\ Len(s) >= 1
  BY DEF InOrder
<1>2. /\ Tail(s) \in Seq(Nat) /\ Len(Tail(s)) = Len(s) - 1
      /\ \A i \in 1..Len(Tail(s)) : Tail(s)[i] = s[i + 1]
  BY <1>1, HeadTailProperties
<1>3. PICK r : r = Tail(s)
  OBVIOUS
<1>4. \A i \in 1..Len(r) : i + 1 \in 1..Len(s) /\ r[i] = s[i + 1]
  BY <1>1, <1>2, <1>3
<1>5. \A i, j \in 1..Len(r) : i < j => r[i] # r[j] /\ told[r[i]].priority >= told[r[j]].priority
  <2>1. TAKE i, j \in 1..Len(r)
  <2>2. HAVE i < j
  <2>3. PICK a, b \in 1..Len(s) : a < b /\ r[i] = s[a] /\ r[j] = s[b]
    <3>1. i + 1 \in 1..Len(s) /\ j + 1 \in 1..Len(s) /\ i + 1 < j + 1
      BY <1>1, <1>4, <2>2
    <3>2. QED  BY <1>4, <3>1
  <2>4. QED  BY <2>3 DEF InOrder
<1>6. \A i \in 1..Len(r) : r[i] \in 1..(n - 1) /\ told[r[i]].type = y /\ r[i] \notin old
  BY <1>4 DEF InOrder
<1> QED  BY <1>2, <1>3, <1>5, <1>6 DEF InOrder

\* Erasing the id that find_if finds leaves the others in order, without it.
LEMMA EraseInOrder ==
  ASSUME NEW s, NEW y, NEW old, NEW n \in Nat, NEW told, InOrder(s, y, old, n, told), NEW id
  PROVE  InOrder(EB!RemoveFirst(s, id), y, old \cup {id}, n, told)
<1>1. s \in Seq(Nat) /\ Len(s) \in Nat
  BY DEF InOrder
<1>2. CASE ~ \E i \in 1..Len(s) : s[i] = id
  <2>1. EB!RemoveFirst(s, id) = s
    BY <1>2 DEF EB!RemoveFirst
  <2>2. QED  BY <1>2, <2>1 DEF InOrder
<1>3. CASE \E i \in 1..Len(s) : s[i] = id
  <2>1. PICK k \in 1..Len(s) : s[k] = id /\ EB!RemoveFirst(s, id) = EB!RemoveAt(s, k)
    <3>1. PICK i \in 1..Len(s) : s[i] = id
      BY <1>3
    <3>2. \A j \in 1..Len(s) : s[j] = id => i = j
      <4>1. TAKE j \in 1..Len(s)
      <4>2. i < j \/ j < i \/ i = j
        BY <1>1
      <4>3. QED  BY <3>1, <4>2 DEF InOrder
    <3> DEFINE found == {j \in 1..Len(s) : s[j] = id}
    <3>3. found = {i} /\ i \in Int
      BY <3>1, <3>2
    <3>4. EB!Min(found) = i
      BY <3>3 DEF EB!Min
    <3>5. EB!SelectInSeq(s, LAMBDA v : v = id) = IF found # {} THEN EB!Min(found) ELSE 0
      BY DEF EB!SelectInSeq
    <3> HIDE DEF found
    <3>6. EB!RemoveFirst(s, id) = EB!RemoveAt(s, EB!SelectInSeq(s, LAMBDA v : v = id))
      BY <1>3 DEF EB!RemoveFirst
    <3>7. EB!RemoveFirst(s, id) = EB!RemoveAt(s, i)
      BY <3>3, <3>4, <3>5, <3>6
    <3>8. QED  BY <3>1, <3>7
  <2>2. PICK r : r = EB!RemoveAt(s, k)
    OBVIOUS
  <2>3. k \in Nat /\ k >= 1 /\ k <= Len(s)
    BY <1>1
  <2>4. /\ r \in Seq(Nat) /\ Len(r) = Len(s) - 1
        /\ \A i \in 1..Len(r) : r[i] = IF i < k THEN s[i] ELSE s[i + 1]
    <3> DEFINE a == SubSeq(s, 1, k - 1)
               b == SubSeq(s, k + 1, Len(s))
    <3>1. a \in Seq(Nat) /\ Len(a) = k - 1 /\ \A i \in 1..(k - 1) : a[i] = s[i]
      <4>1. k - 1 \in 0..Len(s)
        BY <1>1, <2>3
      <4>2. QED  BY <1>1, <4>1, PrefixKept
    <3>2. /\ b \in Seq(Nat) /\ Len(b) = Len(s) - k
          /\ \A i \in 1..(Len(s) - k) : b[i] = s[k + i]
      <4>1. k + 1 \in Int /\ Len(s) \in Int /\ \A i \in (k + 1)..Len(s) : s[i] \in Nat
        BY <1>1, <2>3
      <4>2. /\ b \in Seq(Nat) /\ Len(b) = IF k + 1 <= Len(s) THEN Len(s) - (k + 1) + 1 ELSE 0
            /\ \A i \in 1..(Len(s) - (k + 1) + 1) : b[i] = s[(k + 1) + i - 1]
        BY <4>1, SubSeqProperties
      <4>3. Len(b) = Len(s) - k
        BY <1>1, <2>3, <4>2
      <4>4. ASSUME NEW i \in 1..(Len(s) - k) PROVE b[i] = s[k + i]
        <5>1. i \in 1..(Len(s) - (k + 1) + 1) /\ (k + 1) + i - 1 = k + i
          BY <1>1, <2>3
        <5>2. QED  BY <4>2, <5>1
      <4>5. QED  BY <4>2, <4>3, <4>4
    <3>3. r = a \o b
      BY <2>2 DEF EB!RemoveAt
    <3> HIDE DEF a, b
    <3>4. r \in Seq(Nat) /\ Len(r) = Len(a) + Len(b)
      BY <3>1, <3>2, <3>3, ConcatProperties
    <3>5. \A i \in 1..Len(r) : r[i] = IF i <= Len(a) THEN a[i] ELSE b[i - Len(a)]
      BY <3>1, <3>2, <3>3, <3>4, ConcatProperties
    <3>6. Len(r) = Len(s) - 1
      BY <1>1, <2>3, <3>1, <3>2, <3>4
    <3>7. ASSUME NEW i \in 1..Len(r) PROVE r[i] = IF i < k THEN s[i] ELSE s[i + 1]
      <4>1. CASE i < k
        <5>1. i \in 1..(k - 1) /\ i <= Len(a)
          BY <2>3, <3>1, <3>6, <4>1
        <5>2. QED  BY <3>1, <3>5, <4>1, <5>1
      <4>2. CASE ~(i < k)
        <5>1. i - Len(a) \in 1..(Len(s) - k) /\ ~(i <= Len(a)) /\ k + (i - Len(a)) = i + 1
          BY <1>1, <2>3, <3>1, <3>6, <4>2
        <5>2. QED  BY <3>2, <3>5, <4>2, <5>1
      <4>3. QED  BY <4>1, <4>2
    <3>8. QED  BY <3>4, <3>6, <3>7
  <2>5. \A i \in 1..Len(r) : \E a \in 1..Len(s) : a # k /\ r[i] = s[a] /\ a = (IF i < k THEN i ELSE i + 1)
    <3>1. TAKE i \in 1..Len(r)
    <3>2. i \in 1..Len(s) /\ i + 1 \in 1..Len(s) /\ (IF i < k THEN i ELSE i + 1) # k
      BY <1>1, <2>3, <2>4
    <3>3. QED  BY <2>4, <3>2
  <2>6. \A i, j \in 1..Len(r) : i < j => r[i] # r[j] /\ told[r[i]].priority >= told[r[j]].priority
    <3>1. TAKE i, j \in 1..Len(r)
    <3>2. HAVE i < j
    <3>3. PICK a \in 1..Len(s) : a # k /\ r[i] = s[a] /\ a = (IF i < k THEN i ELSE i + 1)
      BY <2>5
    <3>4. PICK b \in 1..Len(s) : b # k /\ r[j] = s[b] /\ b = (IF j < k THEN j ELSE j + 1)
      BY <2>5
    <3>5. a < b
      BY <2>3, <2>4, <3>2, <3>3, <3>4
    <3>6. QED  BY <3>3, <3>4, <3>5 DEF InOrder
  <2>7. \A i \in 1..Len(r) : r[i] \in 1..(n - 1) /\ told[r[i]].type = y /\ r[i] \notin old \cup {id}
    <3>1. TAKE i \in 1..Len(r)
    <3>2. PICK a \in 1..Len(s) : a # k /\ r[i] = s[a]
      BY <2>5
    <3>3. s[a] # s[k]
      <4>1. a < k \/ k < a
        BY <1>1, <3>2
      <4>2. QED  BY <4>1 DEF InOrder
    <3>4. QED  BY <2>1, <3>2, <3>3 DEF InOrder
  <2>8. InOrder(r, y, old \cup {id}, n, told)
    BY <2>4, <2>6, <2>7 DEF InOrder
  <2>9. QED  BY <2>1, <2>2, <2>8
<1> QED  BY <1>2, <1>3

\* The thread's stack of publications is replaced by another of right ones.
LEMMA PublicationsChange ==
  ASSUME EB!BusAssumption, BusInv, NEW t \in Publisher, NEW q \in Seq(Publication),
         Len(q) <= MaxDepth, \A i \in 1..Len(q) : RightPublication(q[i], nextId, about),
         publishing' = [publishing EXCEPT ![t] = q], aborted' = aborted,
         UNCHANGED <<subscribers, nextId, about, gone>>
  PROVE  BusInv'
<1>1. publishing \in [Publisher -> Seq(Publication)]
  BY DEF BusInv, BusType
<1>2. \A u \in Publisher : publishing'[u] = IF u = t THEN q ELSE publishing[u]
  BY <1>1
<1>3. publishing' \in [Publisher -> Seq(Publication)]
  BY <1>1
<1>4. \A u \in Publisher : Len(publishing'[u]) <= MaxDepth
  BY <1>2 DEF BusInv, BusType
<1>5. BusType'
  BY <1>3, <1>4 DEF BusInv, BusType
<1>6. \A u \in Publisher : \A i \in 1..Len(publishing'[u]) : RightPublication(publishing'[u][i], nextId, about)
  BY <1>2 DEF BusInv
<1>7. \A y \in EventType : InOrder(subscribers'[y], y, gone', nextId', about')
  BY DEF BusInv
<1> QED  BY <1>5, <1>6, <1>7 DEF BusInv

\* The stack without its innermost publication.
LEMMA FrontRight ==
  ASSUME EB!BusAssumption, BusInv, NEW t \in Publisher, publishing[t] # <<>>
  PROVE  /\ EB!Front(publishing[t]) \in Seq(Publication)
         /\ Len(EB!Front(publishing[t])) = Len(publishing[t]) - 1
         /\ Len(publishing[t]) \in Nat \ {0} /\ Len(publishing[t]) <= MaxDepth
         /\ \A i \in 1..Len(EB!Front(publishing[t])) : RightPublication(EB!Front(publishing[t])[i], nextId, about)
         /\ EB!Top(t) \in Publication /\ RightPublication(EB!Top(t), nextId, about)
<1>1. PICK q \in Seq(Publication) : q = publishing[t]
  BY DEF BusInv, BusType
<1>2. Len(q) \in Nat /\ Len(q) >= 1 /\ Len(q) <= MaxDepth
  BY <1>1 DEF BusInv, BusType
<1>3. Len(q) - 1 \in 0..Len(q) /\ Len(q) \in 1..Len(q)
  BY <1>2
<1>4. /\ EB!Front(q) \in Seq(Publication) /\ Len(EB!Front(q)) = Len(q) - 1
      /\ \A i \in 1..(Len(q) - 1) : EB!Front(q)[i] = q[i]
  BY <1>3, PrefixKept DEF EB!Front
<1>5. \A i \in 1..Len(q) : RightPublication(q[i], nextId, about)
  BY <1>1 DEF BusInv
<1>6. \A i \in 1..Len(EB!Front(q)) : RightPublication(EB!Front(q)[i], nextId, about)
  <2>1. TAKE i \in 1..Len(EB!Front(q))
  <2>2. i \in 1..(Len(q) - 1) /\ i \in 1..Len(q)
    BY <1>2, <1>4
  <2>3. QED  BY <1>4, <1>5, <2>2
<1>7. EB!Top(t) = q[Len(q)]
  BY <1>1 DEF EB!Top, EB!Last
<1>8. EB!Top(t) \in Publication /\ RightPublication(EB!Top(t), nextId, about)
  BY <1>3, <1>5, <1>7
<1> QED  BY <1>1, <1>2, <1>4, <1>6, <1>8

\* The innermost publication is replaced by another right one.
LEMMA TopChange ==
  ASSUME EB!BusAssumption, BusInv, NEW t \in Publisher, publishing[t] # <<>>,
         NEW f \in Publication, RightPublication(f, nextId, about),
         EB!SetTop(t, f), aborted' = aborted, UNCHANGED <<subscribers, nextId, about, gone>>
  PROVE  BusInv'
<1>1. PICK p \in Seq(Publication) : p = EB!Front(publishing[t])
  BY FrontRight
<1>2. PICK q \in Seq(Publication) : q = Append(p, f)
  <2>1. Append(p, f) \in Seq(Publication)
    OBVIOUS
  <2>2. QED  BY <2>1
<1>3. Len(p) \in Nat /\ Len(q) = Len(p) + 1 /\ Len(q) <= MaxDepth
  BY <1>1, <1>2, FrontRight
<1>4. \A i \in 1..Len(q) : RightPublication(q[i], nextId, about)
  <2>1. TAKE i \in 1..Len(q)
  <2>2. CASE i \in 1..Len(p)
    BY <1>1, <1>2, <2>2, FrontRight
  <2>3. CASE i \notin 1..Len(p)
    <3>1. i = Len(p) + 1
      BY <1>3, <2>3
    <3>2. QED  BY <1>2, <3>1
  <2>4. QED  BY <2>2, <2>3
<1>5. publishing' = [publishing EXCEPT ![t] = q]
  BY <1>1, <1>2 DEF EB!SetTop
<1> QED  BY <1>3, <1>4, <1>5, PublicationsChange

LEMMA BusSubscribe ==
  ASSUME EB!BusAssumption, BusInv, NEW t \in Publisher, NEW y \in EventType, NEW p \in Priority,
         EB!subscribe(t, y, p)
  PROVE  BusInv'
<1>1. PICK s \in EB!Sorted(EB!ToSet(subscribers[y]) \cup {nextId}, about') :
          /\ subscribers' = [subscribers EXCEPT ![y] = s]
          /\ nextId <= MaxId /\ nextId' = nextId + 1
          /\ about' = Append(about, [type |-> y, priority |-> p])
          /\ UNCHANGED <<gone, publishing, aborted>>
  BY DEF EB!subscribe
<1>2. /\ nextId \in Nat /\ nextId >= 1 /\ MaxId \in Nat /\ p \in Int
      /\ about \in Seq([type : EventType, priority : Int]) /\ Len(about) = nextId - 1
      /\ subscribers \in [EventType -> Seq(Nat)] /\ gone \in SUBSET (1..(nextId - 1))
  BY DEF BusInv, BusType, EB!BusAssumption
<1>3. PICK r \in [type : EventType, priority : Int] : r = [type |-> y, priority |-> p]
  BY <1>2
<1>4. /\ about' \in Seq([type : EventType, priority : Int]) /\ Len(about') = nextId
      /\ \A i \in 1..(nextId - 1) : about'[i] = about[i]
      /\ about'[nextId] = r /\ r.type = y
  BY <1>1, <1>2, <1>3
<1>5. ASSUME NEW v, NEW z, NEW old, InOrder(v, z, old, nextId, about)
      PROVE  InOrder(v, z, old, nextId', about')
  <2>1. v \in Seq(Nat) /\ \A i \in 1..Len(v) : v[i] \in 1..(nextId - 1) /\ about'[v[i]] = about[v[i]]
    BY <1>4, <1>5 DEF InOrder
  <2>2. \A i \in 1..Len(v) : v[i] \in 1..(nextId' - 1)
    <3>1. nextId' = nextId + 1 /\ nextId \in Nat
      BY <1>1, <1>2
    <3>2. \A k \in 1..(nextId - 1) : k \in 1..(nextId' - 1)
      BY <3>1
    <3>3. QED  BY <2>1, <3>2
  <2>3. QED  BY <1>5, <2>1, <2>2 DEF InOrder
<1>6. InOrder(s, y, gone, nextId', about')
  <2> DEFINE old == subscribers[y]
             ids == EB!ToSet(old) \cup {nextId}
  <2>1. InOrder(old, y, gone, nextId, about) /\ old \in Seq(Nat)
    BY <1>2 DEF BusInv
  <2>2. \A i, j \in 1..Len(old) : old[i] = old[j] => i = j
    <3>1. TAKE i, j \in 1..Len(old)
    <3>2. i < j \/ j < i \/ i = j
      BY <2>1
    <3>3. QED  BY <2>1, <3>2 DEF InOrder
  <2>3. IsFiniteSet(EB!ToSet(old))
    <3>1. IsFiniteSet(OP!ToSet(old))
      BY <2>1, <2>2, DistinctCounted
    <3>2. QED  BY <3>1 DEF OP!ToSet, EB!ToSet
  <2>4. EB!Cardinality(ids) \in Nat
    <3>1. IsFiniteSet(ids)
      BY <2>3, FS_AddElement
    <3>2. Cardinality(ids) \in Nat
      BY <3>1, FS_CardinalityType
    <3>3. EB!Cardinality(ids) = Cardinality(ids)
      BY DEF EB!Cardinality, Cardinality
    <3>4. QED  BY <3>2, <3>3
  <2>5. \A id \in ids : /\ id \in 1..(nextId' - 1) /\ id \in Nat
                        /\ about'[id].type = y /\ id \notin gone
    <3>1. DOMAIN old = 1..Len(old)
      BY <2>1
    <3>2. \A i \in 1..Len(old) : /\ old[i] \in 1..(nextId - 1)
                                 /\ about[old[i]].type = y /\ old[i] \notin gone
      BY <2>1 DEF InOrder
    <3>3. ASSUME NEW id \in EB!ToSet(old)
          PROVE  id \in 1..(nextId - 1) /\ about[id].type = y /\ id \notin gone
      BY <3>1, <3>2 DEF EB!ToSet
    <3>4. ASSUME NEW id \in EB!ToSet(old)
          PROVE  id \in 1..(nextId' - 1) /\ id \in Nat /\ about'[id].type = y /\ id \notin gone
      BY <1>1, <1>2, <1>4, <3>3
    <3>5. nextId \in 1..(nextId' - 1) /\ nextId \in Nat /\ about'[nextId].type = y /\ nextId \notin gone
      BY <1>1, <1>2, <1>4
    <3>6. QED  BY <3>4, <3>5
  <2>6. s \in EB!Sorted(ids, about')
    BY <1>1
  <2> HIDE DEF ids, old
  <2>7. /\ s \in [1..EB!Cardinality(ids) -> ids]
        /\ \A i, j \in 1..EB!Cardinality(ids) : i # j => s[i] # s[j]
        /\ \A i, j \in DOMAIN s : i < j => about'[s[i]].priority >= about'[s[j]].priority
    BY <2>6 DEF EB!Sorted, EB!SetToSeqs
  <2>8. s \in Seq(Nat) /\ Len(s) = EB!Cardinality(ids) /\ DOMAIN s = 1..Len(s)
    <3>1. PICK n \in Nat : n = EB!Cardinality(ids)
      BY <2>4
    <3>2. s \in [1..n -> Nat]
      BY <2>5, <2>7, <3>1
    <3>3. QED  BY <3>1, <3>2
  <2>9. \A i \in 1..Len(s) : s[i] \in ids
    BY <2>7, <2>8
  <2>10. \A i, j \in 1..Len(s) : i < j => s[i] # s[j] /\ about'[s[i]].priority >= about'[s[j]].priority
    BY <2>4, <2>7, <2>8
  <2>11. QED  BY <2>5, <2>8, <2>9, <2>10 DEF InOrder
<1>7. \A z \in EventType : InOrder(subscribers'[z], z, gone', nextId', about')
  <2>1. TAKE z \in EventType
  <2>2. CASE z = y
    BY <1>1, <1>2, <1>6, <2>2
  <2>3. CASE z # y
    <3>1. subscribers'[z] = subscribers[z] /\ gone' = gone
      BY <1>1, <1>2, <2>3
    <3>2. QED  BY <1>5, <3>1 DEF BusInv
  <2>4. QED  BY <2>2, <2>3
<1>8. \A u \in Publisher : \A i \in 1..Len(publishing'[u]) : RightPublication(publishing'[u][i], nextId', about')
  <2>1. TAKE u \in Publisher
  <2>2. TAKE i \in 1..Len(publishing'[u])
  <2>3. RightPublication(publishing[u][i], nextId, about) /\ publishing' = publishing
    BY <1>1 DEF BusInv
  <2>4. PICK f : f = publishing[u][i]
    OBVIOUS
  <2>5. InOrder(f.rest, f.type, f.before, nextId', about')
    BY <1>5, <2>3, <2>4 DEF RightPublication
  <2>6. QED  BY <2>3, <2>4, <2>5 DEF RightPublication
<1>9. BusType'
  <2>1. nextId' \in 1..(MaxId' + 1) /\ Len(about') = nextId' - 1
    BY <1>1, <1>2, <1>4
  <2>2. subscribers' \in [EventType -> Seq(Nat)]
    BY <1>1, <1>2, <1>6 DEF InOrder
  <2>3. gone' \in SUBSET (1..(nextId' - 1))
    BY <1>1, <1>2
  <2>4. QED  BY <1>1, <1>4, <2>1, <2>2, <2>3 DEF BusInv, BusType
<1> QED  BY <1>7, <1>8, <1>9 DEF BusInv

LEMMA BusUnsubscribe ==
  ASSUME EB!BusAssumption, BusInv, NEW t \in Publisher, NEW id \in 1..MaxId, EB!unsubscribe(t, id)
  PROVE  BusInv'
<1>1. /\ id < nextId /\ subscribers' = [y \in EventType |-> EB!RemoveFirst(subscribers[y], id)]
      /\ gone' = gone \cup {id} /\ UNCHANGED <<nextId, about, publishing, aborted>>
  BY DEF EB!unsubscribe
<1>2. nextId \in Nat /\ id \in Nat /\ id >= 1
  BY DEF BusInv, BusType, EB!BusAssumption
<1>3. \A y \in EventType : InOrder(subscribers'[y], y, gone', nextId', about')
  <2>1. TAKE y \in EventType
  <2>2. InOrder(EB!RemoveFirst(subscribers[y], id), y, gone \cup {id}, nextId, about)
    BY <1>2, EraseInOrder DEF BusInv
  <2>3. QED  BY <1>1, <2>2
<1>4. subscribers' \in [EventType -> Seq(Nat)]
  <2>1. \A y \in EventType : subscribers'[y] \in Seq(Nat)
    BY <1>3 DEF InOrder
  <2>2. QED  BY <1>1, <2>1
<1>5. gone' \in SUBSET (1..(nextId' - 1))
  BY <1>1, <1>2 DEF BusInv, BusType
<1>6. BusType'
  BY <1>1, <1>4, <1>5 DEF BusInv, BusType
<1> QED  BY <1>1, <1>3, <1>6 DEF BusInv

LEMMA BusClear ==
  ASSUME EB!BusAssumption, BusInv, NEW t \in Publisher, EB!clear(t)
  PROVE  BusInv'
<1>1. /\ subscribers' = [y \in EventType |-> <<>>] /\ gone' = 1..(nextId - 1)
      /\ UNCHANGED <<nextId, about, publishing, aborted>>
  BY DEF EB!clear
<1>2. ASSUME NEW S PROVE <<>> \in Seq(S)
  OBVIOUS
<1>3. \A y \in EventType : InOrder(<<>>, y, gone', nextId', about')
  BY <1>2 DEF InOrder
<1>4. BusType'
  BY <1>1, <1>2 DEF BusInv, BusType
<1> QED  BY <1>1, <1>3, <1>4 DEF BusInv

LEMMA BusPublish ==
  ASSUME EB!BusAssumption, BusInv, NEW t \in Publisher, NEW y \in EventType, EB!publish(t, y)
  PROVE  BusInv'
<1>1. PICK c \in BOOLEAN :
          /\ Len(publishing[t]) < MaxDepth
          /\ publishing' = [publishing EXCEPT ![t] = Append(@,
                [type |-> y, rest |-> subscribers[y], called |-> 0, cancelled |-> c, before |-> gone])]
          /\ UNCHANGED <<subscribers, nextId, about, gone, aborted>>
  BY DEF EB!publish
<1>2. /\ subscribers[y] \in Seq(Nat) /\ gone \in SUBSET Nat /\ MaxDepth \in Nat
      /\ publishing[t] \in Seq(Publication) /\ Len(publishing[t]) \in Nat
  BY DEF BusInv, BusType, EB!BusAssumption
<1>3. PICK f : f = [type |-> y, rest |-> subscribers[y], called |-> 0, cancelled |-> c, before |-> gone]
  OBVIOUS
<1>4. f \in Publication
  BY <1>2, <1>3 DEF Publication
<1>5. RightPublication(f, nextId, about)
  <2>1. f.rest = subscribers[y] /\ f.type = y /\ f.before = gone /\ f.called = 0
    BY <1>3
  <2>2. QED  BY <2>1 DEF RightPublication, BusInv
<1>6. PICK q : q = Append(publishing[t], f)
  OBVIOUS
<1>7. /\ q \in Seq(Publication) /\ Len(q) = Len(publishing[t]) + 1
      /\ \A i \in 1..Len(q) : q[i] = IF i \in 1..Len(publishing[t]) THEN publishing[t][i] ELSE f
  BY <1>2, <1>4, <1>6
<1>8. \A i \in 1..Len(q) : RightPublication(q[i], nextId, about)
  BY <1>5, <1>7 DEF BusInv
<1>9. Len(q) <= MaxDepth
  BY <1>1, <1>2, <1>7
<1>10. publishing' = [publishing EXCEPT ![t] = q]
  BY <1>1, <1>3, <1>6
<1> QED  BY <1>1, <1>7, <1>8, <1>9, <1>10, PublicationsChange

LEMMA BusInvoke ==
  ASSUME EB!BusAssumption, BusInv, NEW t \in Publisher, EB!Invoke(t)
  PROVE  BusInv'
<1>1. ASSUME NEW id \in EB!Behind(Head(EB!Top(t).rest)), EB!SetTop(t, [EB!Top(t) EXCEPT !.called = id]),
             UNCHANGED aborted
      PROVE  BusInv'
  <2>1. /\ publishing[t] # <<>> /\ EB!Top(t).rest # <<>>
        /\ UNCHANGED <<subscribers, nextId, about, gone>>
    BY DEF EB!Invoke
  <2>2. PICK f \in Publication : f = EB!Top(t) /\ RightPublication(f, nextId, about)
    BY <2>1, FrontRight
  <2>3. PICK g : g = [f EXCEPT !.called = id]
    OBVIOUS
  <2>7. id \in Nat
    <3>1. f.rest \in Seq(Nat) /\ f.rest # <<>> /\ nextId \in Nat
      BY <2>1, <2>2 DEF Publication, BusInv, BusType
    <3>2. Head(f.rest) \in Nat
      BY <3>1, HeadTailProperties
    <3>3. QED  BY <1>1, <2>2, <3>1, <3>2 DEF EB!Behind
  <2>4. /\ g \in Publication /\ g.rest = f.rest /\ g.type = f.type /\ g.before = f.before
    BY <2>2, <2>3, <2>7 DEF Publication
  <2>5. RightPublication(g, nextId, about)
    BY <2>1, <2>2, <2>4 DEF RightPublication
  <2>6. QED  BY <1>1, <2>1, <2>2, <2>3, <2>4, <2>5, TopChange
<1>2. CASE aborted' = TRUE /\ UNCHANGED publishing
  <2>1. UNCHANGED <<subscribers, nextId, about, gone>>
    BY DEF EB!Invoke
  <2>2. QED  BY <1>2, <2>1 DEF BusInv, BusType
<1> QED  BY <1>1, <1>2 DEF EB!Invoke

LEMMA BusHandlerEnds ==
  ASSUME EB!BusAssumption, BusInv, NEW t \in Publisher, EB!HandlerEnds(t)
  PROVE  BusInv'
<1>1. PICK c \in {EB!Top(t).cancelled, TRUE} :
          /\ publishing[t] # <<>> /\ EB!Top(t).called # 0
          /\ EB!SetTop(t, [EB!Top(t) EXCEPT !.called = 0, !.rest = Tail(@), !.cancelled = c])
          /\ UNCHANGED <<subscribers, nextId, about, gone, aborted>>
  BY DEF EB!HandlerEnds, EB!InHandler
<1>2. PICK f \in Publication : f = EB!Top(t) /\ RightPublication(f, nextId, about)
  BY <1>1, FrontRight
<1>3. f.rest \in Seq(Nat) /\ f.rest # <<>> /\ c \in BOOLEAN
  BY <1>1, <1>2 DEF Publication, RightPublication
<1>4. Tail(f.rest) \in Seq(Nat)
  BY <1>3, HeadTailProperties
<1>5. PICK g : g = [f EXCEPT !.called = 0, !.rest = Tail(@), !.cancelled = c]
  OBVIOUS
<1>6. /\ g \in Publication /\ g.rest = Tail(f.rest) /\ g.type = f.type /\ g.before = f.before /\ g.called = 0
  BY <1>2, <1>3, <1>4, <1>5 DEF Publication
<1>7. RightPublication(g, nextId, about)
  BY <1>2, <1>3, <1>6, TailInOrder DEF RightPublication
<1> QED  BY <1>1, <1>2, <1>5, <1>6, <1>7, TopChange

LEMMA BusStep ==
  ASSUME EB!BusAssumption, BusInv, [EB!Next]_(EB!vars)
  PROVE  BusInv'
<1>1. ASSUME NEW t \in Publisher, EB!PublishReturns(t) \/ EB!HandlerThrows(t)
      PROVE  BusInv'
  <2>1. /\ publishing[t] # <<>> /\ publishing' = [publishing EXCEPT ![t] = EB!Front(publishing[t])]
        /\ UNCHANGED <<subscribers, nextId, about, gone, aborted>>
    BY <1>1 DEF EB!PublishReturns, EB!HandlerThrows, EB!InHandler
  <2>2. PICK q \in Seq(Publication) : q = EB!Front(publishing[t])
    BY <2>1, FrontRight
  <2>3. Len(q) <= MaxDepth /\ \A i \in 1..Len(q) : RightPublication(q[i], nextId, about)
    <3>1. MaxDepth \in Nat
      BY DEF EB!BusAssumption
    <3>2. QED  BY <2>1, <2>2, <3>1, FrontRight
  <2>4. QED  BY <2>1, <2>2, <2>3, PublicationsChange
<1>2. CASE UNCHANGED EB!vars
  BY <1>2 DEF EB!vars, BusInv, BusType
<1> QED  BY <1>1, <1>2, BusSubscribe, BusUnsubscribe, BusClear, BusPublish, BusInvoke, BusHandlerEnds DEF EB!Next

LEMMA BusInit ==
  ASSUME EB!BusAssumption, EB!Init
  PROVE  BusInv
<1>1. ASSUME NEW S PROVE <<>> \in Seq(S)
  OBVIOUS
<1>2. BusType
  <2>1. MaxId \in Nat /\ MaxDepth \in Nat
    BY DEF EB!BusAssumption
  <2>2. nextId \in 1..(MaxId + 1) /\ Len(about) = nextId - 1 /\ gone \in SUBSET (1..(nextId - 1))
    BY <2>1 DEF EB!Init
  <2>3. about \in Seq([type : EventType, priority : Int]) /\ subscribers \in [EventType -> Seq(Nat)]
    BY <1>1 DEF EB!Init
  <2>4. publishing \in [Publisher -> Seq(Publication)] /\ \A t \in Publisher : Len(publishing[t]) <= MaxDepth
    BY <1>1, <2>1 DEF EB!Init
  <2>5. QED  BY <2>2, <2>3, <2>4 DEF EB!Init, BusType
<1>3. \A y \in EventType : InOrder(<<>>, y, gone, nextId, about)
  BY <1>1 DEF InOrder
<1> QED  BY <1>2, <1>3 DEF EB!Init, BusInv

\* For any number of threads, types, handlers and depth of nesting: what a
\* publication still has to call are handlers of its type, each once, the
\* higher priority first, and none that was unsubscribed before it began,
\* whatever handlers and other threads subscribe, unsubscribe and publish.
THEOREM HandlersInOrder == EB!Spec => []CallsInOrder
<1>0. EB!BusAssumption
  BY ServicesAssumption
<1>1. BusInv /\ [EB!Next]_(EB!vars) => BusInv'
  BY <1>0, BusStep
<1>2. BusInv => CallsInOrder
  <2>1. SUFFICES ASSUME BusInv PROVE CallsInOrder
    OBVIOUS
  <2>2. ASSUME NEW s, NEW y, NEW old, InOrder(s, y, old, nextId, about)
        PROVE  /\ s \in EB!Sorted(EB!ToSet(s), about) /\ EB!ToSet(s) \subseteq 1..(nextId - 1)
               /\ \A id \in EB!ToSet(s) : about[id].type = y /\ id \notin old
    <3>1. s \in Seq(Nat) /\ Len(s) \in Nat /\ DOMAIN s = 1..Len(s)
      BY <2>2 DEF InOrder
    <3>2. \A i, j \in 1..Len(s) : i # j => s[i] # s[j]
      <4>1. TAKE i, j \in 1..Len(s)
      <4>2. i < j \/ j < i \/ i = j
        BY <3>1
      <4>3. QED  BY <2>2, <4>2 DEF InOrder
    <3>3. EB!Cardinality(EB!ToSet(s)) = Len(s)
      <4>1. Cardinality(OP!ToSet(s)) = Len(s)
        BY <3>1, <3>2, DistinctCounted
      <4>2. EB!ToSet(s) = OP!ToSet(s)
        BY DEF EB!ToSet, OP!ToSet
      <4>3. EB!Cardinality(EB!ToSet(s)) = Cardinality(EB!ToSet(s))
        BY DEF EB!Cardinality, Cardinality
      <4>4. QED  BY <4>1, <4>2, <4>3
    <3>4. s \in [1..Len(s) -> EB!ToSet(s)]
      BY <3>1 DEF EB!ToSet
    <3>5. \A i, j \in DOMAIN s : i < j => about[s[i]].priority >= about[s[j]].priority
      BY <2>2, <3>1 DEF InOrder
    <3>6. s \in EB!Sorted(EB!ToSet(s), about)
      BY <3>2, <3>3, <3>4, <3>5 DEF EB!Sorted, EB!SetToSeqs
    <3>7. QED  BY <2>2, <3>1, <3>6 DEF InOrder, EB!ToSet
  <2>3. EB!TypeOK
    <3>1. \A y \in EventType : EB!ToSet(subscribers[y]) \subseteq 1..(nextId - 1)
      BY <2>1, <2>2 DEF BusInv
    <3>2. \A t \in Publisher : Len(publishing[t]) \in 0..MaxDepth
      BY <1>0, <2>1 DEF BusInv, BusType, EB!BusAssumption
    <3>3. QED  BY <2>1, <3>1, <3>2 DEF BusInv, BusType, EB!TypeOK
  <2>4. EB!CallsInOrder
    <3>1. SUFFICES ASSUME NEW t \in Publisher, NEW i \in 1..MaxDepth, i <= Len(publishing[t])
                   PROVE  /\ publishing[t][i].rest \in EB!Sorted(EB!ToSet(publishing[t][i].rest), about)
                          /\ \A id \in EB!ToSet(publishing[t][i].rest) :
                                about[id].type = publishing[t][i].type /\ id \notin publishing[t][i].before
      BY DEF EB!CallsInOrder
    <3>2. i \in 1..Len(publishing[t])
      BY <1>0, <2>1, <3>1 DEF BusInv, BusType, EB!BusAssumption
    <3>3. PICK f : f = publishing[t][i]
      OBVIOUS
    <3>4. InOrder(f.rest, f.type, f.before, nextId, about)
      BY <2>1, <3>2, <3>3 DEF BusInv, RightPublication
    <3>5. QED  BY <2>2, <3>3, <3>4
  <2>5. QED  BY <2>3, <2>4 DEF CallsInOrder
<1>3. EB!Init => BusInv
  BY <1>0, BusInit
<1> QED  BY <1>1, <1>2, <1>3, PTL DEF EB!Spec

-----------------------------------------------------------------------------
(***************************************************************************)
(* RateLimiter. What was granted from an instant on, and what the bucket   *)
(* still holds, stays within the capacity and what was added since.        *)
(***************************************************************************)
Level == [n : 0..Capacity, since : 0..now]

BucketBudget(g, b) ==
    \A f \in RL!Instant :
        /\ f > b.since => g[f] = 0
        /\ f <= b.since => (g[f] + b.n) * FillDen <= Capacity * FillDen + (b.since - f) * FillNum

\* A window has granted what it counts, the one before it at most its maximum,
\* and nothing is granted once the window is over.
WindowBudget(g, w) ==
    WindowSize > 0 =>
        \A f \in RL!Instant :
            /\ f >= w.since + WindowSize => g[f] = 0
            /\ f >= w.since => g[f] <= w.n
            /\ f > w.since - WindowSize => g[f] <= Capacity + w.n

Budget(g, b) == IF limiter = "window" THEN WindowBudget(g, b) ELSE BucketBudget(g, b)

\* No entry, nothing granted.
LimiterInv ==
    /\ RL!TypeOK
    /\ \A k \in Key : /\ k \notin DOMAIN levels => \A f \in RL!Instant : granted[k][f] = 0
                      /\ k \in DOMAIN levels => Budget(granted[k], levels[k])

\* An entry that a call has just renewed.
Current(b) ==
    /\ b \in Level
    /\ limiter # "window" => b.since = now
    /\ limiter = "window" /\ WindowSize > 0 => now - b.since < WindowSize

-----------------------------------------------------------------------------
LEMMA LimiterConstants ==
  /\ Kinds \subseteq {"token", "leaky", "window"}
  /\ Capacity \in Nat /\ FillNum \in Nat /\ WindowSize \in Nat /\ MaxTime \in Nat
  /\ FillDen \in Nat /\ FillDen > 0 /\ Counts \subseteq Nat
BY ServicesAssumption DEF RL!LimiterAssumption

\* The whole tokens that x * a / d yields.
LEMMA WholeTokens ==
  ASSUME NEW x \in Nat, NEW a \in Nat, NEW d \in Nat, d > 0
  PROVE  (x * a) \div d \in Nat /\ ((x * a) \div d) * d <= x * a
<1>1. x * a \in Nat
  OBVIOUS
<1>2. PICK y \in Nat : y = x * a
  BY <1>1
<1>3. y \div d \in Nat /\ (y \div d) * d <= y
  OBVIOUS
<1>4. QED  BY <1>2, <1>3

\* The arithmetic of refill_tokens, for what was granted before the last refill.
LEMMA RefillArithmetic ==
  ASSUME NEW g \in Nat, NEW n \in Nat, NEW m \in Nat, NEW d \in Nat, NEW D \in Nat, D > 0,
         NEW C \in Nat, NEW R \in Nat, NEW f \in Nat, NEW s \in Nat, NEW t \in Nat,
         s <= t, m <= n + d, d * D <= (t - s) * R, (g + n) * D <= C * D + (s - f) * R
  PROVE  (g + m) * D <= C * D + (t - f) * R
<1>1. (g + m) * D <= (g + n + d) * D
  <2>1. PICK e \in Nat : g + m + e = g + n + d
    <3>1. n + d - m \in Nat
      OBVIOUS
    <3>2. QED  BY <3>1
  <2>2. (g + m + e) * D = (g + m) * D + e * D
    OBVIOUS
  <2>3. e * D \in Nat /\ (g + m) * D \in Nat
    OBVIOUS
  <2>4. QED  BY <2>1, <2>2, <2>3
<1>2. (g + n + d) * D = (g + n) * D + d * D
  OBVIOUS
<1>3. (t - f) * R = (s - f) * R + (t - s) * R
  OBVIOUS
<1>4. /\ (g + m) * D \in Int /\ (g + n) * D \in Int /\ d * D \in Int /\ C * D \in Int
      /\ (s - f) * R \in Int /\ (t - s) * R \in Int
  OBVIOUS
<1>5. QED  BY <1>1, <1>2, <1>3, <1>4

\* ... and for what was not.
LEMMA FreshArithmetic ==
  ASSUME NEW m \in Nat, NEW C \in Nat, m <= C, NEW D \in Nat, NEW R \in Nat, NEW x \in Nat
  PROVE  m * D <= C * D + x * R
<1>1. PICK e \in Nat : m + e = C
  <2>1. C - m \in Nat
    OBVIOUS
  <2>2. QED  BY <2>1
<1>2. (m + e) * D = m * D + e * D
  OBVIOUS
<1>3. e * D \in Nat /\ m * D \in Nat /\ x * R \in Nat
  OBVIOUS
<1>4. QED  BY <1>1, <1>2, <1>3

\* refill_tokens and leak_tokens keep the budget of a bucket.
LEMMA RefillKeeps ==
  ASSUME now \in RL!Instant, NEW g \in [RL!Instant -> Nat], NEW b \in Level, BucketBudget(g, b)
  PROVE  /\ RL!refill_tokens(b) \in Level
         /\ RL!refill_tokens(b).since = now
         /\ BucketBudget(g, RL!refill_tokens(b))
<1>0. PICK t \in Nat : t = now
  BY LimiterConstants DEF RL!Instant
<1>1. b.n \in Nat /\ b.n <= Capacity /\ b.since \in Nat /\ b.since <= t /\ b = [n |-> b.n, since |-> b.since]
  BY <1>0, LimiterConstants DEF Level
<1>2. CASE ~(t > b.since)
  <2>1. RL!refill_tokens(b) = b
    BY <1>0, <1>2 DEF RL!refill_tokens
  <2>2. QED  BY <1>0, <1>1, <1>2, <2>1
<1>3. CASE t > b.since
  <2> DEFINE d == ((t - b.since) * FillNum) \div FillDen
             m == IF b.n + d < Capacity THEN b.n + d ELSE Capacity
             r == RL!refill_tokens(b)
  <2>1. t - b.since \in Nat
    BY <1>1, <1>3
  <2>2. d \in Nat /\ d * FillDen <= (t - b.since) * FillNum
    BY <2>1, LimiterConstants, WholeTokens
  <2>3. r = [n |-> m, since |-> t]
    BY <1>0, <1>3 DEF RL!refill_tokens
  <2> HIDE DEF d, r
  <2>4. m \in Nat /\ m <= Capacity /\ m <= b.n + d
    BY <1>1, <2>2, LimiterConstants
  <2> HIDE DEF m
  <2>5. r \in Level /\ r.n = m /\ r.since = t
    BY <1>0, <2>3, <2>4, LimiterConstants DEF Level
  <2>6. ASSUME NEW f \in RL!Instant
        PROVE  /\ f > t => g[f] = 0
               /\ f <= t => (g[f] + m) * FillDen <= Capacity * FillDen + (t - f) * FillNum
    <3>1. f \in Nat /\ g[f] \in Nat
      BY LimiterConstants DEF RL!Instant
    <3>2. CASE f <= b.since
      <4>1. (g[f] + b.n) * FillDen <= Capacity * FillDen + (b.since - f) * FillNum
        BY <3>2 DEF BucketBudget
      <4>2. (g[f] + m) * FillDen <= Capacity * FillDen + (t - f) * FillNum
        BY <1>1, <2>2, <2>4, <3>1, <4>1, LimiterConstants, RefillArithmetic
      <4>3. ~(f > t)
        BY <1>1, <3>1, <3>2
      <4>4. QED  BY <4>2, <4>3
    <3>3. CASE ~(f <= b.since)
      <4>1. g[f] = 0
        BY <1>1, <3>1, <3>3 DEF BucketBudget
      <4>2. f <= t => t - f \in Nat
        BY <3>1
      <4>3. f <= t => m * FillDen <= Capacity * FillDen + (t - f) * FillNum
        BY <2>4, <4>2, LimiterConstants, FreshArithmetic
      <4>4. g[f] + m = m
        BY <2>4, <4>1
      <4>5. QED  BY <4>1, <4>3, <4>4
    <3>4. QED  BY <3>2, <3>3
  <2>7. BucketBudget(g, r)
    BY <2>5, <2>6 DEF BucketBudget
  <2>8. QED  BY <1>0, <2>5, <2>7 DEF r
<1>4. QED  BY <1>2, <1>3

\* A full entry of a key that was granted nothing.
LEMMA FullKeeps ==
  ASSUME now \in RL!Instant, NEW g, \A f \in RL!Instant : g[f] = 0
  PROVE  RL!Full \in Level /\ RL!Full.since = now /\ Budget(g, RL!Full)
<1>0. PICK t \in Nat : t = now
  BY LimiterConstants DEF RL!Instant
<1>1. CASE limiter = "window"
  <2>1. RL!Full = [n |-> 0, since |-> t]
    BY <1>0, <1>1 DEF RL!Full
  <2>2. WindowBudget(g, RL!Full)
    BY <2>1, LimiterConstants DEF WindowBudget
  <2>3. RL!Full \in Level /\ RL!Full.since = now
    BY <1>0, <2>1, LimiterConstants DEF Level
  <2>4. QED  BY <1>1, <2>2, <2>3 DEF Budget
<1>2. CASE limiter # "window"
  <2>1. RL!Full = [n |-> Capacity, since |-> t]
    BY <1>0, <1>2 DEF RL!Full
  <2>2. ASSUME NEW f \in RL!Instant, f <= t
        PROVE  (g[f] + Capacity) * FillDen <= Capacity * FillDen + (t - f) * FillNum
    <3>1. t - f \in Nat
      BY <2>2, LimiterConstants DEF RL!Instant
    <3>2. Capacity * FillDen <= Capacity * FillDen + (t - f) * FillNum
      BY <3>1, LimiterConstants, FreshArithmetic
    <3>3. g[f] + Capacity = Capacity
      BY LimiterConstants
    <3>4. QED  BY <3>2, <3>3
  <2>3. BucketBudget(g, RL!Full)
    BY <2>1, <2>2 DEF BucketBudget
  <2>4. RL!Full \in Level /\ RL!Full.since = now
    BY <1>0, <2>1, LimiterConstants DEF Level
  <2>5. QED  BY <1>2, <2>3, <2>4 DEF Budget
<1>3. QED  BY <1>1, <1>2

\* Renewing an entry, as every call begins, keeps its budget.
LEMMA RenewedKeeps ==
  ASSUME now \in RL!Instant, limiter \in Kinds,
         NEW g \in [RL!Instant -> Nat], NEW b \in Level, Budget(g, b)
  PROVE  Current(RL!Renewed(b)) /\ Budget(g, RL!Renewed(b))
<1>0. PICK t \in Nat : t = now
  BY LimiterConstants DEF RL!Instant
<1>1. b.n \in Nat /\ b.n <= Capacity /\ b.since \in Nat /\ b.since <= t
  BY <1>0, LimiterConstants DEF Level
<1>2. CASE limiter # "window"
  <2>1. limiter = "token" \/ limiter = "leaky"
    BY <1>2, LimiterConstants
  <2>2. RL!Renewed(b) = RL!refill_tokens(b)
    BY <2>1 DEF RL!Renewed, RL!leak_tokens
  <2>3. BucketBudget(g, b)
    BY <1>2 DEF Budget
  <2>4. QED  BY <1>2, <2>2, <2>3, RefillKeeps DEF Current, Budget
<1>3. CASE limiter = "window" /\ RL!should_reset_window(b)
  <2>1. RL!Renewed(b) = [n |-> 0, since |-> t]
    BY <1>0, <1>3 DEF RL!Renewed, RL!Full
  <2>2. t - b.since >= WindowSize
    BY <1>0, <1>3 DEF RL!should_reset_window
  <2>3. Current(RL!Renewed(b))
    BY <1>0, <1>3, <2>1, LimiterConstants DEF Current, Level
  <2>4. ASSUME NEW f \in RL!Instant, WindowSize > 0
        PROVE  /\ f >= t => g[f] = 0
               /\ f > t - WindowSize => g[f] <= Capacity
    <3>1. f \in Nat /\ g[f] \in Nat
      BY LimiterConstants DEF RL!Instant
    <3>2. /\ f >= b.since + WindowSize => g[f] = 0
          /\ f >= b.since => g[f] <= b.n
      BY <1>3, <2>4 DEF Budget, WindowBudget
    <3>3. f >= t => f >= b.since + WindowSize
      BY <1>1, <2>2, <3>1, LimiterConstants
    <3>4. f > t - WindowSize => f >= b.since
      BY <1>1, <2>2, <3>1, LimiterConstants
    <3>5. QED  BY <1>1, <3>1, <3>2, <3>3, <3>4, LimiterConstants
  <2>5. ASSUME NEW f \in RL!Instant, WindowSize > 0
        PROVE  /\ f >= t + WindowSize => g[f] = 0
               /\ f >= t => g[f] <= 0
               /\ f > t - WindowSize => g[f] <= Capacity + 0
    <3>1. f \in Nat /\ g[f] \in Nat /\ (f >= t + WindowSize => f >= t)
      BY LimiterConstants DEF RL!Instant
    <3>2. QED  BY <2>4, <2>5, <3>1, LimiterConstants
  <2>6. WindowBudget(g, RL!Renewed(b))
    BY <2>1, <2>5 DEF WindowBudget
  <2>7. QED  BY <1>3, <2>3, <2>6 DEF Budget
<1>4. CASE limiter = "window" /\ ~RL!should_reset_window(b)
  <2>1. RL!Renewed(b) = b
    BY <1>4 DEF RL!Renewed
  <2>2. t - b.since < WindowSize
    BY <1>0, <1>1, <1>4, LimiterConstants DEF RL!should_reset_window
  <2>3. QED  BY <1>0, <1>4, <2>1, <2>2 DEF Current
<1>5. QED  BY <1>2, <1>3, <1>4

\* The entry of a key as a call finds it.
LEMMA EntryKeeps ==
  ASSUME LimiterInv, NEW k \in Key
  PROVE  Current(RL!Entry(k)) /\ Budget(granted[k], RL!Entry(k))
<1>1. now \in RL!Instant /\ limiter \in Kinds /\ granted[k] \in [RL!Instant -> Nat]
  BY DEF LimiterInv, RL!TypeOK
<1>2. PICK b \in Level : b = (IF k \in DOMAIN levels THEN levels[k] ELSE RL!Full) /\ Budget(granted[k], b)
  <2>1. CASE k \in DOMAIN levels
    BY <2>1 DEF LimiterInv, RL!TypeOK, Level
  <2>2. CASE k \notin DOMAIN levels
    <3>1. \A f \in RL!Instant : granted[k][f] = 0
      BY <2>2 DEF LimiterInv
    <3>2. QED  BY <1>1, <2>2, <3>1, FullKeeps
  <2>3. QED  BY <2>1, <2>2
<1>3. RL!Entry(k) = RL!Renewed(b)
  BY <1>2 DEF RL!Entry
<1>4. QED  BY <1>1, <1>2, <1>3, RenewedKeeps

\* What consume takes from the entry it adds to what was granted.
LEMMA ChargeKeeps ==
  ASSUME now \in RL!Instant, NEW g \in [RL!Instant -> Nat], NEW b, Current(b), Budget(g, b),
         NEW c \in Nat, RL!Admits(b, c),
         NEW h, h = [f \in RL!Instant |-> IF f <= now THEN g[f] + RL!Price(c) ELSE g[f]]
  PROVE  RL!Charged(b, c) \in Level /\ h \in [RL!Instant -> Nat] /\ Budget(h, RL!Charged(b, c))
<1>0. PICK t \in Nat : t = now
  BY LimiterConstants DEF RL!Instant
<1>1. b \in Level /\ b.n \in Nat /\ b.n <= Capacity /\ b.since \in Nat /\ b.since <= t
  BY <1>0, LimiterConstants DEF Level, Current
<1>2. \A f \in RL!Instant : f \in Nat /\ g[f] \in Nat
  BY LimiterConstants DEF RL!Instant
<1>3. RL!Price(c) \in Nat
  BY DEF RL!Price
<1>4. h \in [RL!Instant -> Nat] /\ \A f \in RL!Instant : h[f] = IF f <= t THEN g[f] + RL!Price(c) ELSE g[f]
  BY <1>0, <1>2, <1>3
<1>5. CASE limiter = "window"
  <2>1. b.n < Capacity /\ RL!Price(c) = 1 /\ RL!Charged(b, c) = [b EXCEPT !.n = b.n + 1]
    BY <1>5 DEF RL!Admits, RL!Price, RL!Charged
  <2>2. PICK r : r = RL!Charged(b, c) /\ r \in Level /\ r.n = b.n + 1 /\ r.since = b.since
    BY <1>1, <2>1, LimiterConstants DEF Level
  <2>3. ASSUME WindowSize > 0, NEW f \in RL!Instant
        PROVE  /\ f >= b.since + WindowSize => h[f] = 0
               /\ f >= b.since => h[f] <= b.n + 1
               /\ f > b.since - WindowSize => h[f] <= Capacity + (b.n + 1)
    <3>1. t - b.since < WindowSize
      BY <1>0, <1>5, <2>3 DEF Current
    <3>2. /\ f >= b.since + WindowSize => g[f] = 0
          /\ f >= b.since => g[f] <= b.n
          /\ f > b.since - WindowSize => g[f] <= Capacity + b.n
      BY <1>5, <2>3 DEF Budget, WindowBudget
    <3>3. h[f] = IF f <= t THEN g[f] + 1 ELSE g[f]
      BY <1>4, <2>1
    <3>4. f \in Nat /\ g[f] \in Nat
      BY <1>2
    <3>5. f >= b.since + WindowSize => ~(f <= t)
      BY <1>1, <3>1, <3>4, LimiterConstants
    <3>6. f >= b.since + WindowSize => h[f] = 0
      BY <3>2, <3>3, <3>5
    <3>7. f >= b.since => h[f] <= b.n + 1
      BY <1>1, <3>2, <3>3, <3>4
    <3>8. f > b.since - WindowSize => h[f] <= Capacity + (b.n + 1)
      BY <1>1, <3>2, <3>3, <3>4, LimiterConstants
    <3>9. QED  BY <3>6, <3>7, <3>8
  <2>4. WindowBudget(h, r)
    BY <2>2, <2>3 DEF WindowBudget
  <2>5. QED  BY <1>4, <1>5, <2>2, <2>4 DEF Budget
<1>6. CASE limiter # "window"
  <2>1. b.n >= c /\ RL!Price(c) = c /\ RL!Charged(b, c) = [b EXCEPT !.n = b.n - c] /\ b.since = t
    BY <1>0, <1>6 DEF RL!Admits, RL!Price, RL!Charged, Current
  <2>2. b.n - c \in Nat /\ b.n - c <= Capacity
    BY <1>1, <2>1, LimiterConstants
  <2>3. PICK r : r = RL!Charged(b, c) /\ r \in Level /\ r.n = b.n - c /\ r.since = t
    BY <1>1, <2>1, <2>2, LimiterConstants DEF Level
  <2>4. ASSUME NEW f \in RL!Instant
        PROVE  /\ f > t => h[f] = 0
               /\ f <= t => (h[f] + (b.n - c)) * FillDen <= Capacity * FillDen + (t - f) * FillNum
    <3>1. /\ f > t => g[f] = 0
          /\ f <= t => (g[f] + b.n) * FillDen <= Capacity * FillDen + (t - f) * FillNum
      BY <1>6, <2>1 DEF Budget, BucketBudget
    <3>2. h[f] = IF f <= t THEN g[f] + c ELSE g[f]
      BY <1>4, <2>1
    <3>3. f > t => ~(f <= t)
      BY <1>2
    <3>4. f <= t => h[f] + (b.n - c) = g[f] + b.n
      BY <1>1, <1>2, <3>2
    <3>5. QED  BY <3>1, <3>2, <3>3, <3>4
  <2>5. BucketBudget(h, r)
    BY <2>3, <2>4 DEF BucketBudget
  <2>6. QED  BY <1>4, <1>6, <2>3, <2>5 DEF Budget
<1>7. QED  BY <1>5, <1>6

\* What a call at one instant has to leave behind.
LEMMA CallKeeps ==
  ASSUME LimiterInv, limiter' = limiter, now' = now, checking' \subseteq Checker \X Key,
         NEW L, levels' = L, DOMAIN L \subseteq Key, \A k \in DOMAIN L : L[k] \in Level,
         NEW G \in [Key -> [RL!Instant -> Nat]], granted' = G,
         \A k \in Key : /\ k \notin DOMAIN L => \A f \in RL!Instant : G[k][f] = 0
                        /\ k \in DOMAIN L => Budget(G[k], L[k])
  PROVE  LimiterInv'
<1>1. RL!TypeOK'
  BY DEF LimiterInv, RL!TypeOK, Level
<1>2. ASSUME NEW k \in Key
      PROVE  /\ k \notin DOMAIN levels' => \A f \in RL!Instant : granted'[k][f] = 0
             /\ k \in DOMAIN levels' => Budget(granted[k], levels[k])'
  BY DEF Budget, BucketBudget, WindowBudget
<1>3. QED  BY <1>1, <1>2 DEF LimiterInv

LEMMA ConsumeKeeps ==
  ASSUME LimiterInv, NEW k \in Key, NEW c \in Nat, RL!consume(k, c),
         limiter' = limiter, now' = now, checking' \subseteq Checker \X Key
  PROVE  LimiterInv'
<1>0. now \in RL!Instant /\ granted \in [Key -> [RL!Instant -> Nat]] /\ DOMAIN levels \subseteq Key
  BY DEF LimiterInv, RL!TypeOK
<1>1. PICK b : b = RL!Entry(k)
  OBVIOUS
<1>2. Current(b) /\ Budget(granted[k], b) /\ b \in Level
  BY <1>1, EntryKeeps DEF Current
<1>3. granted[k] \in [RL!Instant -> Nat]
  BY <1>0
<1> DEFINE e == IF RL!Admits(b, c) THEN RL!Charged(b, c) ELSE b
           h == [f \in RL!Instant |-> IF f <= now /\ RL!Admits(b, c) THEN granted[k][f] + RL!Price(c) ELSE granted[k][f]]
           L == [x \in DOMAIN levels \cup {k} |-> IF x = k THEN e ELSE levels[x]]
           G == [granted EXCEPT ![k] = h]
<1>4. levels' = L /\ granted' = G
  BY <1>1 DEF RL!consume, RL!Store
<1>5. e \in Level /\ h \in [RL!Instant -> Nat] /\ Budget(h, e)
  <2>1. CASE RL!Admits(b, c)
    <3>1. h = [f \in RL!Instant |-> IF f <= now THEN granted[k][f] + RL!Price(c) ELSE granted[k][f]]
      BY <2>1
    <3>2. e = RL!Charged(b, c)
      BY <2>1
    <3> HIDE DEF h, e
    <3>3. QED  BY <1>0, <1>2, <1>3, <2>1, <3>1, <3>2, ChargeKeeps
  <2>2. CASE ~RL!Admits(b, c)
    <3>1. h = granted[k] /\ e = b
      BY <1>3, <2>2
    <3>2. QED  BY <1>2, <1>3, <3>1
  <2>3. QED  BY <2>1, <2>2
<1> HIDE DEF h, e
<1>6. /\ DOMAIN L = DOMAIN levels \cup {k} /\ L[k] = e
      /\ \A x \in DOMAIN levels : x # k => L[x] = levels[x]
  OBVIOUS
<1>7. G \in [Key -> [RL!Instant -> Nat]] /\ G[k] = h /\ \A x \in Key : x # k => G[x] = granted[x]
  BY <1>0, <1>5
<1> HIDE DEF L, G
<1>8. DOMAIN L \subseteq Key /\ \A x \in DOMAIN L : L[x] \in Level
  BY <1>0, <1>5, <1>6 DEF LimiterInv, RL!TypeOK, Level
<1>9. ASSUME NEW x \in Key
      PROVE  /\ x \notin DOMAIN L => \A f \in RL!Instant : G[x][f] = 0
             /\ x \in DOMAIN L => Budget(G[x], L[x])
  <2>1. CASE x = k
    BY <1>5, <1>6, <1>7, <2>1
  <2>2. CASE x # k
    BY <1>6, <1>7, <2>2 DEF LimiterInv
  <2>3. QED  BY <2>1, <2>2
<1>10. QED  BY <1>4, <1>7, <1>8, <1>9, CallKeeps

LEMMA RemainingKeeps ==
  ASSUME LimiterInv, NEW k \in Key, RL!get_remaining(k), checking' \subseteq Checker \X Key
  PROVE  LimiterInv'
<1>0. now \in RL!Instant /\ granted \in [Key -> [RL!Instant -> Nat]] /\ DOMAIN levels \subseteq Key
      /\ limiter \in Kinds /\ \A x \in DOMAIN levels : levels[x] \in Level
  BY DEF LimiterInv, RL!TypeOK, Level
<1> DEFINE L == IF k \in DOMAIN levels THEN [levels EXCEPT ![k] = RL!Renewed(levels[k])] ELSE levels
<1>1. levels' = L /\ granted' = granted /\ limiter' = limiter /\ now' = now
  BY DEF RL!get_remaining
<1>2. DOMAIN L = DOMAIN levels
  OBVIOUS
<1>3. ASSUME NEW x \in DOMAIN levels PROVE L[x] \in Level /\ Budget(granted[x], L[x])
  <2>1. levels[x] \in Level /\ Budget(granted[x], levels[x]) /\ granted[x] \in [RL!Instant -> Nat]
    BY <1>0 DEF LimiterInv
  <2>2. CASE x = k
    <3>1. L[x] = RL!Renewed(levels[x])
      BY <2>2
    <3>2. Current(RL!Renewed(levels[x])) /\ Budget(granted[x], RL!Renewed(levels[x]))
      BY <1>0, <2>1, RenewedKeeps
    <3>3. QED  BY <3>1, <3>2 DEF Current
  <2>3. CASE x # k
    <3>1. L[x] = levels[x]
      BY <2>3
    <3>2. QED  BY <2>1, <3>1
  <2>4. QED  BY <2>2, <2>3
<1> HIDE DEF L
<1>4. ASSUME NEW x \in Key
      PROVE  /\ x \notin DOMAIN L => \A f \in RL!Instant : granted[x][f] = 0
             /\ x \in DOMAIN L => Budget(granted[x], L[x])
  BY <1>2, <1>3 DEF LimiterInv
<1>5. QED  BY <1>0, <1>1, <1>2, <1>3, <1>4, CallKeeps

LEMMA ResetKeeps ==
  ASSUME LimiterInv, NEW k \in Key, RL!reset(k)
  PROVE  LimiterInv'
<1>0. now \in RL!Instant /\ granted \in [Key -> [RL!Instant -> Nat]] /\ DOMAIN levels \subseteq Key
      /\ checking \subseteq Checker \X Key /\ \A x \in DOMAIN levels : levels[x] \in Level
  BY DEF LimiterInv, RL!TypeOK, Level
<1> DEFINE L == [levels EXCEPT ![k] = RL!Full]
           G == [granted EXCEPT ![k] = RL!NothingYet]
<1>1. /\ k \in DOMAIN levels /\ levels' = L /\ granted' = G
      /\ limiter' = limiter /\ now' = now /\ checking' = checking
  BY DEF RL!reset
<1>2. RL!NothingYet \in [RL!Instant -> Nat] /\ \A f \in RL!Instant : RL!NothingYet[f] = 0
  BY DEF RL!NothingYet
<1>3. RL!Full \in Level /\ Budget(RL!NothingYet, RL!Full)
  BY <1>0, <1>2, FullKeeps
<1>4. DOMAIN L = DOMAIN levels /\ L[k] = RL!Full /\ \A x \in DOMAIN levels : x # k => L[x] = levels[x]
  BY <1>1
<1>5. /\ G \in [Key -> [RL!Instant -> Nat]] /\ G[k] = RL!NothingYet
      /\ \A x \in Key : x # k => G[x] = granted[x]
  BY <1>0, <1>2
<1> HIDE DEF L, G
<1>6. DOMAIN L \subseteq Key /\ \A x \in DOMAIN L : L[x] \in Level
  BY <1>0, <1>3, <1>4
<1>7. ASSUME NEW x \in Key
      PROVE  /\ x \notin DOMAIN L => \A f \in RL!Instant : G[x][f] = 0
             /\ x \in DOMAIN L => Budget(G[x], L[x])
  <2>1. CASE x = k
    BY <1>1, <1>3, <1>4, <1>5, <2>1
  <2>2. CASE x # k
    BY <1>4, <1>5, <2>2 DEF LimiterInv
  <2>3. QED  BY <2>1, <2>2
<1>8. QED  BY <1>0, <1>1, <1>5, <1>6, <1>7, CallKeeps

LEMMA ResetAllKeeps ==
  ASSUME LimiterInv, RL!reset_all
  PROVE  LimiterInv'
<1>0. now \in RL!Instant /\ DOMAIN levels \subseteq Key /\ checking \subseteq Checker \X Key
  BY DEF LimiterInv, RL!TypeOK
<1> DEFINE L == [k \in DOMAIN levels |-> RL!Full]
           G == [k \in Key |-> RL!NothingYet]
<1>1. /\ levels' = L /\ granted' = G
      /\ limiter' = limiter /\ now' = now /\ checking' = checking
  BY DEF RL!reset_all
<1>2. RL!NothingYet \in [RL!Instant -> Nat] /\ \A f \in RL!Instant : RL!NothingYet[f] = 0
  BY DEF RL!NothingYet
<1>3. RL!Full \in Level /\ Budget(RL!NothingYet, RL!Full)
  BY <1>0, <1>2, FullKeeps
<1>4. /\ DOMAIN L = DOMAIN levels /\ \A x \in DOMAIN levels : L[x] = RL!Full
      /\ G \in [Key -> [RL!Instant -> Nat]] /\ \A x \in Key : G[x] = RL!NothingYet
  BY <1>2
<1> HIDE DEF L, G
<1>5. DOMAIN L \subseteq Key /\ \A x \in DOMAIN L : L[x] \in Level
  BY <1>0, <1>3, <1>4
<1>6. ASSUME NEW x \in Key
      PROVE  /\ x \notin DOMAIN L => \A f \in RL!Instant : G[x][f] = 0
             /\ x \in DOMAIN L => Budget(G[x], L[x])
  BY <1>2, <1>3, <1>4
<1>7. QED  BY <1>0, <1>1, <1>4, <1>5, <1>6, CallKeeps

LEMMA LimiterStart == RL!Init => LimiterInv
<1>1. SUFFICES ASSUME RL!Init PROVE LimiterInv
  OBVIOUS
<1>2. DOMAIN levels = {}
  <2>1. ASSUME NEW S PROVE <<>> \in Seq(S) /\ Len(<<>>) = 0
    OBVIOUS
  <2>2. DOMAIN <<>> = 1..0
    OBVIOUS
  <2>3. QED  BY <1>1, <2>2 DEF RL!Init
<1>3. granted \in [Key -> [RL!Instant -> Nat]] /\ \A k \in Key, f \in RL!Instant : granted[k][f] = 0
  BY <1>1 DEF RL!Init, RL!NothingYet
<1>4. RL!TypeOK
  BY <1>1, <1>2, <1>3, LimiterConstants DEF RL!Init, RL!TypeOK, RL!Instant
<1>5. QED  BY <1>2, <1>3, <1>4 DEF LimiterInv

LEMMA LimiterCall ==
  ASSUME LimiterInv, RL!Call
  PROVE  LimiterInv'
<1>0. checking \subseteq Checker \X Key /\ 1 \in Nat /\ Counts \subseteq Nat
  BY LimiterConstants DEF LimiterInv, RL!TypeOK
<1>1. CASE RL!Consume
  BY <1>0, <1>1, ConsumeKeeps DEF RL!Consume
<1>2. ASSUME NEW t \in Checker, NEW k \in Key, RL!check(t, k) PROVE LimiterInv'
  <2>1. checking' \subseteq Checker \X Key
    BY <1>0, <1>2 DEF RL!check
  <2>2. QED  BY <1>0, <1>2, <2>1, ConsumeKeeps DEF RL!check
<1>3. CASE RL!CheckRemaining
  <2>1. PICK p \in checking : RL!get_remaining(p[2]) /\ checking' = checking \ {p}
    BY <1>3 DEF RL!CheckRemaining
  <2>2. p[2] \in Key /\ checking' \subseteq Checker \X Key
    BY <1>0, <2>1
  <2>3. QED  BY <2>1, <2>2, RemainingKeeps
<1>4. ASSUME NEW k \in Key, RL!get_remaining(k), UNCHANGED checking PROVE LimiterInv'
  BY <1>0, <1>4, RemainingKeeps
<1>5. QED  BY <1>1, <1>2, <1>3, <1>4, ResetKeeps, ResetAllKeeps DEF RL!Call

LEMMA LimiterStep == LimiterInv /\ [RL!Next]_limiterVars => LimiterInv'
<1>1. SUFFICES ASSUME LimiterInv, [RL!Next]_limiterVars PROVE LimiterInv'
  OBVIOUS
<1>2. CASE RL!Call
  BY <1>1, <1>2, LimiterCall
<1>3. CASE RL!Tick
  <2>1. /\ limiter' = limiter /\ levels' = levels /\ checking' = checking /\ granted' = granted
        /\ now < MaxTime /\ now' = now + 1
    BY <1>3 DEF RL!Tick
  <2>2. now' \in RL!Instant /\ \A i \in 0..now : i \in 0..now'
    BY <1>1, <2>1, LimiterConstants DEF LimiterInv, RL!TypeOK, RL!Instant
  <2>3. \A k \in DOMAIN levels : levels[k] \in [n : 0..Capacity, since : 0..now']
    BY <1>1, <2>2 DEF LimiterInv, RL!TypeOK
  <2>4. RL!TypeOK'
    BY <1>1, <2>1, <2>2, <2>3 DEF LimiterInv, RL!TypeOK
  <2>5. QED  BY <1>1, <2>1, <2>4 DEF LimiterInv, Budget, BucketBudget, WindowBudget
<1>4. CASE UNCHANGED limiterVars
  <2>1. /\ limiter' = limiter /\ levels' = levels /\ checking' = checking /\ granted' = granted
        /\ now' = now
    BY <1>4 DEF limiterVars
  <2>2. RL!TypeOK'
    BY <1>1, <2>1 DEF LimiterInv, RL!TypeOK
  <2>3. QED  BY <1>1, <2>1, <2>2 DEF LimiterInv, Budget, BucketBudget, WindowBudget
<1>5. QED  BY <1>1, <1>2, <1>3, <1>4 DEF RL!Next, RL!TokenBucket, RL!LeakyBucket, RL!FixedWindow

\* The budgets give the limit.
LEMMA BudgetsGiveLimit ==
  ASSUME LimiterInv
  PROVE  WithinLimit
<1>0. PICK t \in Nat : t = now /\ t <= MaxTime
  BY LimiterConstants DEF LimiterInv, RL!TypeOK, RL!Instant
<1>1. SUFFICES ASSUME NEW k \in Key, NEW f \in 0..t
               PROVE  IF limiter = "window"
                      THEN (t - f < WindowSize) => granted[k][f] <= 2 * Capacity
                      ELSE granted[k][f] * FillDen <= Capacity * FillDen + (t - f) * FillNum
  BY <1>0 DEF LimiterInv, WithinLimit, RL!WithinLimit
<1>2. f \in RL!Instant /\ f \in Nat /\ f <= t
  BY <1>0, LimiterConstants DEF RL!Instant
<1>3. granted[k][f] \in Nat /\ t - f \in Nat
  BY <1>2 DEF LimiterInv, RL!TypeOK
<1>4. CASE granted[k][f] = 0
  <2>1. 0 * FillDen <= Capacity * FillDen + (t - f) * FillNum
    BY <1>3, LimiterConstants, FreshArithmetic
  <2>2. 0 <= 2 * Capacity
    BY LimiterConstants
  <2>3. QED  BY <1>4, <2>1, <2>2
<1>5. CASE granted[k][f] # 0
  <2>1. k \in DOMAIN levels /\ Budget(granted[k], levels[k])
    BY <1>2, <1>5 DEF LimiterInv
  <2>2. PICK b \in Level : b = levels[k]
    BY <2>1 DEF LimiterInv, RL!TypeOK, Level
  <2>3. b.n \in Nat /\ b.n <= Capacity /\ b.since \in Nat /\ b.since <= t
    BY <1>0, LimiterConstants DEF Level
  <2>4. CASE limiter = "window"
    <3>1. SUFFICES ASSUME t - f < WindowSize PROVE granted[k][f] <= 2 * Capacity
      BY <2>4
    <3>2. WindowSize > 0
      BY <1>3, <3>1, LimiterConstants
    <3>3. f > b.since - WindowSize
      BY <1>2, <2>3, <3>1, LimiterConstants
    <3>4. granted[k][f] <= Capacity + b.n
      BY <1>2, <2>1, <2>2, <2>4, <3>2, <3>3 DEF Budget, WindowBudget
    <3>5. QED  BY <1>3, <2>3, <3>4, LimiterConstants
  <2>5. CASE limiter # "window"
    <3>1. f <= b.since
      BY <1>2, <1>5, <2>1, <2>2, <2>3, <2>5 DEF Budget, BucketBudget
    <3>2. (granted[k][f] + b.n) * FillDen <= Capacity * FillDen + (b.since - f) * FillNum
      BY <1>2, <2>1, <2>2, <2>5, <3>1 DEF Budget, BucketBudget
    <3>3. 0 * FillDen <= (t - b.since) * FillNum
      <4>1. t - b.since \in Nat
        BY <2>3
      <4>2. QED  BY <4>1, LimiterConstants
    <3>4. (granted[k][f] + 0) * FillDen <= Capacity * FillDen + (t - f) * FillNum
      <4>1. 0 <= b.n + 0
        BY <2>3
      <4>2. QED  BY <1>2, <1>3, <2>3, <3>2, <3>3, <4>1, LimiterConstants, RefillArithmetic
    <3>5. granted[k][f] + 0 = granted[k][f]
      BY <1>3
    <3>6. QED  BY <2>5, <3>4, <3>5
  <2>6. QED  BY <2>4, <2>5
<1>6. QED  BY <1>4, <1>5

(***************************************************************************)
(* No interval is granted more than TokenBucketRateLimiter,                *)
(* LeakyBucketRateLimiter or FixedWindowRateLimiter promises, however      *)
(* calls of consume, of the two steps of check, of get_remaining and of    *)
(* reset interleave: what a call takes it has left in the bucket before,   *)
(* and rounding only loses tokens.                                         *)
(***************************************************************************)
THEOREM LimitIsKept == RL!Spec => []WithinLimit
<1>1. RL!Init => LimiterInv
  BY LimiterStart
<1>2. LimiterInv /\ [RL!Next]_(RL!vars) => LimiterInv'
  BY LimiterStep DEF limiterVars, RL!vars
<1>3. LimiterInv => WithinLimit
  BY BudgetsGiveLimit
<1>4. QED  BY <1>1, <1>2, <1>3, PTL DEF RL!Spec

-----------------------------------------------------------------------------
(***************************************************************************)
(* LoadBalancer (the instance LB).  In the middle of a cycle the picks are *)
(* those of the positions right behind the cursor, or, for the weighted    *)
(* balancer with k picks so far, total weight T and weights w, current     *)
(* weights are k * w[i] - T * picks[i].                                    *)
(***************************************************************************)

Members(l) == {l[a] : a \in DOMAIN l}

\* A list as the balancers keep it: no instance twice.
Listing(l) == l \in Seq(Backend) /\ \A a, b \in 1..Len(l) : l[a] = l[b] => a = b

Wt == [i \in Backend |-> IF i \in DOMAIN weights THEN weights[i] ELSE 1]
Cur(l) == [i \in Members(l) |-> IF i \in DOMAIN current THEN current[i] ELSE 0]

\* How many selections ago position a was selected if the cursor is at r of n.
Behind(a, r, n) == IF a <= r THEN r - a ELSE r - a + n

RoundFair(l, r, p) ==
    /\ SumFunctionOnSet(p, Members(l)) <= Len(l)
    /\ \A a \in 1..Len(l) : p[l[a]] = IF Behind(a, r, Len(l)) < SumFunctionOnSet(p, Members(l)) THEN 1 ELSE 0

WeightFair(S, w, c, p) ==
    \A i \in S : /\ p[i] <= w[i]
                 /\ c[i] = SumFunctionOnSet(p, S) * w[i] - SumFunctionOnSet(w, S) * p[i]

Fair(l, r, w, c, p) ==
    /\ balancer = "round" => RoundFair(l, r, p)
    /\ balancer = "weighted" /\ Len(l) = 1 => p[l[1]] <= 1
    /\ balancer = "weighted" /\ Len(l) > 1 => WeightFair(Members(l), w, c, p)

Cycle(l) == IF balancer = "weighted" /\ Len(l) > 1 THEN SumFunctionOnSet(Wt, Members(l)) ELSE Len(l)

BalancerType ==
    /\ balancer \in Balancers /\ listed \in SUBSET Backend
    /\ Listing(list)
    /\ cursor \in 0..(CursorMod - 1)
    /\ DOMAIN weights \subseteq Backend /\ \A i \in DOMAIN weights : weights[i] \in 0..MaxWeight
    /\ \A i \in DOMAIN current : current[i] \in Int
    /\ DOMAIN current = {} \/ (balancer = "weighted" /\ DOMAIN current = Members(list))
    /\ picks = <<>> \/ (list # <<>> /\ picks \in [Members(list) -> Nat])

BalancerInv ==
    /\ BalancerType
    /\ picks # <<>> => Fair(list, cursor % Len(list), Wt, Cur(list), picks)
    /\ SumFunctionOnSet(current, DOMAIN current) = 0
    /\ \A i \in DOMAIN current : current[i] + Len(list) * MaxWeight > 0

\* The constants, with the finite sets of this module.
LEMMA BalancerFinite ==
  ASSUME LB!BalancerAssumption
  PROVE  /\ IsFiniteSet(Backend) /\ Backend \subseteq Nat /\ MaxWeight \in Nat \ {0}
         /\ Balancers \subseteq {"round", "random", "weighted"}
         /\ CursorMod \in Nat \ {0} /\ Cardinality(Backend) \in Nat
         /\ \A n \in 1..Cardinality(Backend) : CursorMod % n = 0
<1>1. LB!Cardinality(Backend) = Cardinality(Backend)
  BY DEF LB!Cardinality, Cardinality
<1>2. IsFiniteSet(Backend)
  BY DEF LB!BalancerAssumption, LB!IsFiniteSet, IsFiniteSet
<1>3. Cardinality(Backend) \in Nat
  BY <1>2, FS_CardinalityType
<1>4. \A n \in 1..Cardinality(Backend) : CursorMod % n = 0
  BY <1>1 DEF LB!BalancerAssumption
<1> QED  BY <1>2, <1>3, <1>4 DEF LB!BalancerAssumption

LEMMA BalancerSums ==
  ASSUME NEW f
  PROVE  LB!SumFunction(f) = SumFunctionOnSet(f, DOMAIN f)
BY DEF LB!SumFunction, LB!SumFunctionOnSet, LB!FoldFunctionOnSet, LB!MapThenFoldSet,
       SumFunctionOnSet, FoldFunctionOnSet, MapThenFoldSet

\* A list and its members.
LEMMA ListSizes ==
  ASSUME LB!BalancerAssumption, NEW l, Listing(l)
  PROVE  /\ Len(l) \in Nat /\ DOMAIN l = 1..Len(l) /\ IsFiniteSet(DOMAIN l)
         /\ LB!ToSet(l) = Members(l) /\ Members(l) \in SUBSET Backend /\ IsFiniteSet(Members(l))
         /\ Cardinality(Members(l)) = Len(l) /\ Len(l) <= Cardinality(Backend)
         /\ \A a \in 1..Len(l) : l[a] \in Members(l)
<1>1. Len(l) \in Nat /\ DOMAIN l = 1..Len(l) /\ l \in Seq(Backend)
  BY DEF Listing
<1>2. LB!ToSet(l) = Members(l) /\ Members(l) \in SUBSET Backend
  BY <1>1 DEF LB!ToSet, Members
<1>3. l \in Bijection(1..Len(l), Members(l))
  BY <1>1 DEF Listing, Bijection, Injection, Surjection, IsInjective, Members
<1>4. ExistsBijection(1..Len(l), Members(l))
  BY <1>3 DEF ExistsBijection
<1>5. IsFiniteSet(Members(l)) /\ Cardinality(Members(l)) = Len(l)
  BY <1>1, <1>4, FS_CountingElements, FS_NatBijection
<1>6. Len(l) <= Cardinality(Backend)
  BY <1>2, <1>5, BalancerFinite, FS_Subset
<1>7. IsFiniteSet(1..Len(l))
  BY <1>1, FS_Interval
<1> QED  BY <1>1, <1>2, <1>5, <1>6, <1>7 DEF Members

\* Weights of a list.
LEMMA WeightsTyped ==
  ASSUME LB!BalancerAssumption, BalancerType, NEW l, Listing(l)
  PROVE  /\ Wt \in [Backend -> Nat] /\ \A i \in Backend : LB!get_weight(i) = Wt[i]
         /\ \A i \in Members(l) : Wt[i] \in Int /\ Wt[i] \in Nat /\ Wt[i] <= MaxWeight
         /\ SumFunctionOnSet(Wt, Members(l)) \in Int
         /\ \A i \in Members(l) : Cur(l)[i] \in Int
<1>0. MaxWeight \in Nat \ {0}
  BY BalancerFinite
<1>1. Wt \in [Backend -> 0..MaxWeight] /\ \A i \in Backend : LB!get_weight(i) = Wt[i]
  BY <1>0 DEF BalancerType, Wt, LB!get_weight
<1>2. \A i \in Members(l) : Wt[i] \in Int /\ Wt[i] \in Nat /\ Wt[i] <= MaxWeight
  BY <1>0, <1>1, ListSizes
<1>3. SumFunctionOnSet(Wt, Members(l)) \in Int
  BY <1>2, ListSizes, SumPull
<1>4. \A i \in Members(l) : Cur(l)[i] \in Int
  BY DEF BalancerType, Cur
<1> QED  BY <1>0, <1>1, <1>2, <1>3, <1>4

LEMMA TotalIs ==
  ASSUME LB!BalancerAssumption, BalancerType, NEW l, Listing(l)
  PROVE  LB!TotalWeight(l) = SumFunctionOnSet(Wt, Members(l))
<1> DEFINE f == [a \in DOMAIN l |-> LB!get_weight(l[a])]
<1>1. LB!TotalWeight(l) = SumFunctionOnSet(f, DOMAIN l)
  BY BalancerSums DEF LB!TotalWeight
<1>2. \A a \in DOMAIN l : l[a] \in Backend /\ l[a] \in Members(l)
  BY ListSizes DEF Members
<1>3. \A a \in DOMAIN l : Wt[l[a]] \in Int /\ f[a] = Wt[l[a]]
  BY <1>2, WeightsTyped
<1>4. IsFiniteSet(DOMAIN l) /\ \A a, b \in DOMAIN l : l[a] = l[b] => a = b
  BY ListSizes DEF Listing
<1> HIDE DEF f
<1>5. SumFunctionOnSet(f, DOMAIN l) = SumFunctionOnSet(Wt, {l[a] : a \in DOMAIN l})
  BY <1>3, <1>4, SumReindexed
<1> QED  BY <1>1, <1>5 DEF Members

LEMMA CycleIs ==
  ASSUME LB!BalancerAssumption, BalancerType, NEW l, Listing(l)
  PROVE  LB!CycleLength(l) = Cycle(l) /\ Cycle(l) \in Int
<1> DEFINE f == [a \in DOMAIN l |-> LB!Share(l, l[a])]
<1>1. LB!CycleLength(l) = SumFunctionOnSet(f, DOMAIN l)
  BY BalancerSums DEF LB!CycleLength
<1>2. CASE balancer = "weighted" /\ Len(l) > 1
  <2>1. f = [a \in DOMAIN l |-> LB!get_weight(l[a])]
    BY <1>2 DEF LB!Share
  <2>2. LB!TotalWeight(l) = SumFunctionOnSet(f, DOMAIN l)
    BY <2>1, BalancerSums DEF LB!TotalWeight
  <2> QED  BY <1>1, <1>2, <2>2, TotalIs, WeightsTyped DEF Cycle
<1>3. CASE ~(balancer = "weighted" /\ Len(l) > 1)
  <2>1. \A a \in DOMAIN l : f[a] = 1
    BY <1>3 DEF LB!Share
  <2>2. IsFiniteSet(DOMAIN l) /\ DOMAIN l = 1..Len(l) /\ Len(l) \in Nat
    BY ListSizes
  <2> HIDE DEF f
  <2>3. SumFunctionOnSet(f, DOMAIN l) = Cardinality(DOMAIN l)
    BY <2>1, <2>2, SumConstant
  <2>4. Cardinality(1..Len(l)) = Len(l)
    <3>1. PICK m \in Nat : m = Len(l)
      BY <2>2
    <3>2. ExistsBijection(1..m, 1..m)
      <4>1. [a \in 1..m |-> a] \in Bijection(1..m, 1..m)
        BY DEF Bijection, Injection, Surjection, IsInjective
      <4> QED  BY <4>1 DEF ExistsBijection
    <3>3. Cardinality(1..m) = m
      BY <3>2, FS_CountingElements
    <3> QED  BY <3>1, <3>3
  <2> QED  BY <1>1, <1>3, <2>2, <2>3, <2>4 DEF Cycle
<1> QED  BY <1>2, <1>3

\* The cursor moves to the next position, around the end of a list and around
\* the range it is kept in.
LEMMA CursorMoves ==
  ASSUME LB!BalancerAssumption, NEW n \in 1..Cardinality(Backend), NEW c \in 0..(CursorMod - 1)
  PROVE  /\ c % n \in 0..(n - 1)
         /\ (c + 1) % CursorMod \in 0..(CursorMod - 1)
         /\ ((c + 1) % CursorMod) % n = IF (c % n) + 1 = n THEN 0 ELSE (c % n) + 1
<1>0. n \in Nat \ {0} /\ CursorMod \in Nat \ {0} /\ c \in Nat /\ c + 1 \in Nat /\ CursorMod % n = 0 /\ c + 1 <= CursorMod
  BY BalancerFinite
<1>1. ASSUME NEW m \in Nat \ {0}, NEW x \in Nat PROVE x % m \in 0..(m - 1) /\ x = m * (x \div m) + (x % m) /\ x \div m \in Int
  <2>1. x % m \in 0..(m - 1)
    BY <1>1
  <2>2. x = m * (x \div m) + (x % m)
    BY <1>1
  <2> QED  BY <2>1, <2>2
<1>2. ASSUME NEW m \in Nat \ {0}, NEW q \in Int, NEW r \in 0..(m - 1) PROVE (m * q + r) % m = r
  BY <1>2
<1>3. PICK q \in Int, r \in 0..(n - 1) : c = n * q + r /\ r = c % n
  BY <1>0, <1>1
<1>4. (c + 1) % n = IF (c % n) + 1 = n THEN 0 ELSE (c % n) + 1
  <2>1. CASE r + 1 = n
    <3>1. c + 1 = n * (q + 1) + 0 /\ 0 \in 0..(n - 1) /\ q + 1 \in Int
      BY <1>0, <1>3, <2>1
    <3>2. (n * (q + 1) + 0) % n = 0
      BY <1>0, <1>2, <3>1
    <3> QED  BY <1>3, <2>1, <3>1, <3>2
  <2>2. CASE r + 1 # n
    <3>1. c + 1 = n * q + (r + 1) /\ r + 1 \in 0..(n - 1)
      BY <1>0, <1>3, <2>2
    <3>2. (n * q + (r + 1)) % n = r + 1
      BY <1>0, <1>2, <1>3, <3>1
    <3> QED  BY <1>3, <2>2, <3>1, <3>2
  <2> QED  BY <2>1, <2>2
<1>5. CASE c + 1 = CursorMod
  <2>1. (CursorMod * 1 + 0) % CursorMod = 0 /\ CursorMod * 1 + 0 = CursorMod
    BY <1>0, <1>2
  <2>2. (n * 0 + 0) % n = 0 /\ n * 0 + 0 = 0
    BY <1>0, <1>2
  <2>3. ((c + 1) % CursorMod) % n = 0 /\ (c + 1) % n = 0 /\ (c + 1) % CursorMod = 0
    BY <1>0, <1>5, <2>1, <2>2
  <2> QED  BY <1>0, <1>3, <1>4, <2>3
<1>6. CASE c + 1 # CursorMod
  <2>1. c + 1 \in 0..(CursorMod - 1) /\ CursorMod * 0 + (c + 1) = c + 1
    BY <1>0, <1>6
  <2>2. (CursorMod * 0 + (c + 1)) % CursorMod = c + 1
    BY <1>0, <1>2, <2>1
  <2> QED  BY <1>3, <1>4, <2>1, <2>2
<1> QED  BY <1>5, <1>6

\* Every order of a set of instances is a listing.
LEMMA SeqsList ==
  ASSUME LB!BalancerAssumption, BalancerType, NEW s, NEW l \in LB!SetToSeqs(LB!Live(s))
  PROVE  Listing(l)
<1>0. PICK S \in SUBSET Backend : S = LB!Live(s)
  BY DEF LB!Live, BalancerType
<1>1. PICK n : n = LB!Cardinality(S)
  OBVIOUS
<1>2. n \in Nat
  <2>1. IsFiniteSet(S)
    BY BalancerFinite, FS_Subset
  <2>2. LB!Cardinality(S) = Cardinality(S)
    BY DEF LB!Cardinality, Cardinality
  <2> QED  BY <1>1, <2>1, <2>2, FS_CardinalityType
<1>3. l \in [1..n -> S] /\ \A i, j \in 1..n : i # j => l[i] # l[j]
  BY <1>0, <1>1 DEF LB!SetToSeqs
<1>4. l \in [1..n -> Backend]
  BY <1>3
<1>5. l \in Seq(Backend) /\ Len(l) = n
  BY <1>2, <1>4
<1> QED  BY <1>3, <1>5 DEF Listing

\* What select_instance works on is a listing: instances_ or what it fetches.
LEMMA FetchedIs ==
  ASSUME LB!BalancerAssumption, BalancerType, NEW s, NEW l \in LB!Fetched(s), l # <<>>
  PROVE  /\ Listing(l) /\ (list # <<>> => l = list)
         /\ Len(l) \in 1..Cardinality(Backend)
<1>1. ASSUME list # <<>> PROVE Listing(l) /\ l = list
  BY <1>1 DEF LB!Fetched, BalancerType
<1>2. ASSUME list = <<>> PROVE Listing(l)
  <2>1. l \in LB!SetToSeqs(LB!Live(s))
    BY <1>2 DEF LB!Fetched, LB!Ascending
  <2> QED  BY <2>1, SeqsList
<1>3. Listing(l) /\ (list # <<>> => l = list)
  BY <1>1, <1>2
<1>4. Len(l) \in Nat /\ Len(l) <= Cardinality(Backend) /\ Len(l) # 0
  <2>1. l \in Seq(Backend)
    BY <1>3 DEF Listing
  <2> QED  BY <1>3, <2>1, ListSizes
<1> QED  BY <1>3, <1>4, BalancerFinite

\* The sum over one instance.
LEMMA SumSingle ==
  ASSUME NEW p, NEW i, p[i] \in Int
  PROVE  SumFunctionOnSet(p, {i}) = p[i]
<1>1. PICK e : e = {i} \ {i}
  OBVIOUS
<1>2. IsFiniteSet({i}) /\ IsFiniteSet(e) /\ e = {}
  BY <1>1, FS_EmptySet, FS_Singleton
<1>3. SumFunctionOnSet(p, {i}) = p[i] + SumFunctionOnSet(p, e)
  BY <1>1, <1>2, SumPull
<1>4. SumFunctionOnSet(p, e) = 0
  <2>1. \A x \in e : p[x] \in Int
    BY <1>2
  <2> QED  BY <1>2, <2>1, SumPull
<1> QED  BY <1>3, <1>4

\* Where nothing was picked.
LEMMA NothingPicked ==
  ASSUME LB!BalancerAssumption, NEW l, Listing(l), l # <<>>, NEW r \in 0..(Len(l) - 1),
         NEW w, \A i \in Members(l) : w[i] \in Nat, NEW p, \A i \in Members(l) : p[i] = 0,
         NEW c
  PROVE  /\ SumFunctionOnSet(p, Members(l)) = 0 /\ RoundFair(l, r, p) /\ p[l[1]] <= 1
         /\ (\A i \in Members(l) : c[i] = 0) => WeightFair(Members(l), w, c, p)
<1>0. /\ Len(l) \in Nat /\ IsFiniteSet(Members(l)) /\ \A a \in 1..Len(l) : l[a] \in Members(l)
      /\ l \in Seq(Backend)
  BY ListSizes DEF Listing
<1>1. SumFunctionOnSet(p, Members(l)) = 0
  BY <1>0, SumConstant
<1>2. RoundFair(l, r, p)
  <2>1. ASSUME NEW a \in 1..Len(l) PROVE ~(Behind(a, r, Len(l)) < 0)
    BY <1>0 DEF Behind
  <2> QED  BY <1>0, <1>1, <2>1 DEF RoundFair
<1>3. p[l[1]] <= 1
  <2>1. 1 \in 1..Len(l)
    BY <1>0
  <2> QED  BY <1>0, <2>1
<1>4. ASSUME \A i \in Members(l) : c[i] = 0 PROVE WeightFair(Members(l), w, c, p)
  <2>1. SUFFICES ASSUME NEW i \in Members(l)
                 PROVE  p[i] <= w[i] /\ c[i] = 0 * w[i] - SumFunctionOnSet(w, Members(l)) * p[i]
    BY <1>1 DEF WeightFair
  <2>2. \A x \in Members(l) : w[x] \in Int
    OBVIOUS
  <2>3. PICK v \in Nat, T \in Int : v = w[i] /\ T = SumFunctionOnSet(w, Members(l))
    BY <1>0, <2>2, SumPull
  <2>4. 0 <= v /\ 0 = 0 * v - T * 0
    BY <2>3
  <2> QED  BY <1>4, <2>1, <2>3, <2>4
<1> QED  BY <1>1, <1>2, <1>3, <1>4

\* A cycle is fair from the start: no instance was picked.
LEMMA FairStart ==
  ASSUME LB!BalancerAssumption, BalancerType, NEW l, Listing(l), l # <<>>, NEW r \in 0..(Len(l) - 1),
         \A i \in Members(l) : balancer = "weighted" /\ Len(l) > 1 => Cur(l)[i] = 0,
         NEW p, \A i \in Members(l) : p[i] = 0
  PROVE  SumFunctionOnSet(p, Members(l)) = 0 /\ Fair(l, r, Wt, Cur(l), p)
<1>1. \A i \in Members(l) : Wt[i] \in Nat
  BY WeightsTyped
<1>2. PICK w, c : w = Wt /\ c = Cur(l)
  OBVIOUS
<1>3. /\ SumFunctionOnSet(p, Members(l)) = 0 /\ RoundFair(l, r, p) /\ p[l[1]] <= 1
      /\ (\A i \in Members(l) : c[i] = 0) => WeightFair(Members(l), w, c, p)
  BY <1>1, <1>2, NothingPicked
<1> QED  BY <1>2, <1>3 DEF Fair

\* Picks that are fair are at most those of a cycle, and a complete cycle has
\* the share of every instance.
LEMMA FairBounds ==
  ASSUME LB!BalancerAssumption, BalancerType, NEW l, Listing(l), l # <<>>, NEW r \in 0..(Len(l) - 1),
         NEW p \in [Members(l) -> Nat], Fair(l, r, Wt, Cur(l), p), balancer # "random"
  PROVE  /\ SumFunctionOnSet(p, Members(l)) \in Int /\ SumFunctionOnSet(p, Members(l)) <= Cycle(l)
         /\ \A i \in Members(l) :
               /\ p[i] <= LB!Share(l, i)
               /\ SumFunctionOnSet(p, Members(l)) = Cycle(l) => p[i] = LB!Share(l, i)
<1>0. /\ Len(l) \in Nat /\ IsFiniteSet(Members(l)) /\ \A a \in 1..Len(l) : l[a] \in Members(l)
      /\ l \in Seq(Backend) /\ DOMAIN l = 1..Len(l) /\ Members(l) \in SUBSET Backend
  BY ListSizes DEF Listing
<1>1. \A i \in Members(l) : p[i] \in Int /\ p[i] \in Nat
  OBVIOUS
<1>2. PICK k \in Int : k = SumFunctionOnSet(p, Members(l))
  BY <1>0, <1>1, SumPull
<1>3. CASE balancer = "round"
  <2>1. RoundFair(l, r, p)
    BY <1>3 DEF Fair
  <2>2. Cycle(l) = Len(l) /\ k <= Len(l)
    BY <1>2, <1>3, <2>1 DEF Cycle, RoundFair
  <2>3. ASSUME NEW i \in Members(l) PROVE p[i] <= 1 /\ (k = Len(l) => p[i] = 1)
    <3>1. PICK a \in 1..Len(l) : i = l[a]
      BY <1>0 DEF Members
    <3>2. p[i] = IF Behind(a, r, Len(l)) < k THEN 1 ELSE 0
      BY <1>2, <2>1, <3>1 DEF RoundFair
    <3>3. Behind(a, r, Len(l)) < Len(l)
      BY <1>0, <3>1 DEF Behind
    <3> QED  BY <3>2, <3>3
  <2>4. \A i \in Members(l) : LB!Share(l, i) = 1
    BY <1>3 DEF LB!Share
  <2> QED  BY <1>2, <2>2, <2>3, <2>4
<1>4. CASE balancer = "weighted" /\ Len(l) = 1
  <2>1. Members(l) = {l[1]} /\ Cycle(l) = 1 /\ p[l[1]] <= 1
    BY <1>0, <1>4 DEF Members, Cycle, Fair
  <2>2. k = p[l[1]]
    <3>1. PICK i : i = l[1]
      OBVIOUS
    <3>2. Members(l) = {i} /\ p[i] \in Int
      BY <1>1, <2>1, <3>1
    <3>3. SumFunctionOnSet(p, {i}) = p[i]
      BY <3>2, SumSingle
    <3> QED  BY <1>2, <3>1, <3>2, <3>3
  <2>3. \A i \in Members(l) : LB!Share(l, i) = 1
    BY <1>4 DEF LB!Share
  <2> QED  BY <1>1, <1>2, <2>1, <2>2, <2>3
<1>5. CASE balancer = "weighted" /\ Len(l) > 1
  <2>1. \A i \in Members(l) : p[i] <= Wt[i] /\ Wt[i] \in Int
    BY <1>5, WeightsTyped DEF Fair, WeightFair
  <2>2. Cycle(l) = SumFunctionOnSet(Wt, Members(l))
    BY <1>5 DEF Cycle
  <2>3. SumFunctionOnSet(p, Members(l)) <= SumFunctionOnSet(Wt, Members(l))
    BY <1>0, <1>1, <2>1, SumSmaller
  <2>4. ASSUME SumFunctionOnSet(p, Members(l)) = SumFunctionOnSet(Wt, Members(l)), NEW i \in Members(l)
        PROVE  p[i] = Wt[i]
    BY <1>0, <1>1, <2>1, <2>4, SumTight
  <2>5. \A i \in Members(l) : LB!Share(l, i) = Wt[i]
    BY <1>0, <1>5, WeightsTyped DEF LB!Share
  <2> QED  BY <1>2, <2>1, <2>2, <2>3, <2>4, <2>5
<1>6. Len(l) # 0
  BY <1>0
<1>7. balancer \in {"round", "random", "weighted"}
  BY BalancerFinite DEF BalancerType
<1> QED  BY <1>0, <1>3, <1>4, <1>5, <1>6, <1>7

\* Where nothing is negative the sum is not.
LEMMA SumNatural ==
  ASSUME NEW f, NEW T, IsFiniteSet(T), \A x \in T : f[x] \in Nat
  PROVE  SumFunctionOnSet(f, T) \in Nat
<1>1. PICK z : z = [x \in T |-> 0]
  OBVIOUS
<1>2. SumFunctionOnSet(z, T) = 0
  BY <1>1, SumConstant
<1>3. \A x \in T : z[x] \in Int /\ f[x] \in Int /\ z[x] <= f[x]
  BY <1>1
<1>4. SumFunctionOnSet(z, T) <= SumFunctionOnSet(f, T)
  BY <1>3, SumSmaller
<1>5. SumFunctionOnSet(f, T) \in Int
  BY <1>3, SumPull
<1> QED  BY <1>2, <1>4, <1>5

\* What one selection of i adds to the history: the picks of a fair cycle
\* that is not complete, a new one if the last one was.
LEMMA CountMeans ==
  ASSUME LB!BalancerAssumption, BalancerInv, NEW s, NEW l \in LB!Fetched(s), l # <<>>, balancer # "random",
         NEW i \in Members(l), LB!Count(l, i), Cycle(l) > 0
  PROVE  \/ picks' = <<>>
         \/ \E b \in [Members(l) -> Nat] :
               /\ Fair(l, cursor % Len(l), Wt, Cur(l), b)
               /\ SumFunctionOnSet(b, Members(l)) < Cycle(l)
               /\ picks' \in [Members(l) -> Nat] /\ picks'[i] = b[i] + 1
               /\ \A x \in Members(l) \ {i} : picks'[x] = b[x]
<1>0. /\ BalancerType /\ Listing(l) /\ (list # <<>> => l = list) /\ Len(l) \in 1..Cardinality(Backend)
      /\ LB!ToSet(l) = Members(l) /\ cursor \in 0..(CursorMod - 1)
  BY FetchedIs, ListSizes DEF BalancerInv, BalancerType
<1>1. cursor % Len(l) \in 0..(Len(l) - 1)
  BY <1>0, CursorMoves
<1>2. LB!CycleLength(l) = Cycle(l) /\ Cycle(l) \in Int
  BY <1>0, CycleIs
<1>3. PICK z \in [Members(l) -> Nat] : z = [x \in LB!ToSet(l) |-> 0]
  BY <1>0
<1>4. z # <<>>
  BY <1>3
<1>5. ASSUME NEW b \in [Members(l) -> Nat], b # <<>>, picks' = [b EXCEPT ![i] = @ + 1],
             Fair(l, cursor % Len(l), Wt, Cur(l), b), SumFunctionOnSet(b, Members(l)) < Cycle(l)
      PROVE  \E g \in [Members(l) -> Nat] :
               /\ Fair(l, cursor % Len(l), Wt, Cur(l), g)
               /\ SumFunctionOnSet(g, Members(l)) < Cycle(l)
               /\ picks' \in [Members(l) -> Nat] /\ picks'[i] = g[i] + 1
               /\ \A x \in Members(l) \ {i} : picks'[x] = g[x]
  <2>1. picks' \in [Members(l) -> Nat] /\ picks'[i] = b[i] + 1 /\ \A x \in Members(l) \ {i} : picks'[x] = b[x]
    BY <1>5
  <2> QED  BY <1>5, <2>1
<1>6. ASSUME \A x \in Members(l) : balancer = "weighted" /\ Len(l) > 1 => Cur(l)[x] = 0,
             picks' = [z EXCEPT ![i] = @ + 1]
      PROVE  \E g \in [Members(l) -> Nat] :
               /\ Fair(l, cursor % Len(l), Wt, Cur(l), g)
               /\ SumFunctionOnSet(g, Members(l)) < Cycle(l)
               /\ picks' \in [Members(l) -> Nat] /\ picks'[i] = g[i] + 1
               /\ \A x \in Members(l) \ {i} : picks'[x] = g[x]
  <2>1. \A x \in Members(l) : z[x] = 0
    BY <1>0, <1>3
  <2>2. SumFunctionOnSet(z, Members(l)) = 0 /\ Fair(l, cursor % Len(l), Wt, Cur(l), z)
    BY <1>0, <1>1, <1>6, <2>1, FairStart
  <2> QED  BY <1>2, <1>4, <1>5, <1>6, <2>2
<1>7. CASE list = <<>>
  <2>1. DOMAIN current = {}
    <3>1. DOMAIN current = {} \/ DOMAIN current = Members(list)
      BY <1>0 DEF BalancerType
    <3>2. Members(list) = {}
      BY <1>7 DEF Members
    <3> QED  BY <3>1, <3>2
  <2>2. picks = <<>> /\ LB!Level
    BY <1>0, <1>7, <2>1 DEF BalancerType, LB!Level
  <2>3. picks' = [z EXCEPT ![i] = @ + 1]
    BY <1>3, <1>4, <2>2 DEF LB!Count
  <2> QED  BY <1>6, <2>1, <2>3 DEF Cur
<1>8. CASE list # <<>> /\ picks = <<>>
  <2>1. CASE LB!Level
    <3>1. picks' = [z EXCEPT ![i] = @ + 1]
      BY <1>3, <1>4, <1>8, <2>1 DEF LB!Count
    <3>2. \A x \in Members(l) : Cur(l)[x] = 0
      BY <2>1 DEF Cur, LB!Level
    <3> QED  BY <1>6, <3>1, <3>2
  <2>2. CASE ~LB!Level
    BY <1>8, <2>2 DEF LB!Count
  <2> QED  BY <2>1, <2>2
<1>9. CASE list # <<>> /\ picks # <<>>
  <2>1. l = list /\ picks \in [Members(l) -> Nat] /\ Fair(l, cursor % Len(l), Wt, Cur(l), picks)
    BY <1>0, <1>9 DEF BalancerInv, BalancerType
  <2>2. LB!SumFunction(picks) = SumFunctionOnSet(picks, Members(l))
    BY <2>1, BalancerSums
  <2>3. /\ SumFunctionOnSet(picks, Members(l)) \in Int /\ SumFunctionOnSet(picks, Members(l)) <= Cycle(l)
        /\ \A x \in Members(l) : SumFunctionOnSet(picks, Members(l)) = Cycle(l) => picks[x] = LB!Share(l, x)
    BY <1>0, <1>1, <2>1, FairBounds
  <2>4. CASE SumFunctionOnSet(picks, Members(l)) = Cycle(l)
    <3>1. picks' = [z EXCEPT ![i] = @ + 1]
      BY <1>2, <1>3, <1>4, <1>9, <2>2, <2>4 DEF LB!Count
    <3>2. ASSUME NEW x \in Members(l), balancer = "weighted", Len(l) > 1 PROVE Cur(l)[x] = 0
      <4>1. picks[x] = Wt[x] /\ Wt[x] \in Int /\ SumFunctionOnSet(Wt, Members(l)) \in Int
        BY <1>0, <2>3, <2>4, <3>2, WeightsTyped, ListSizes DEF LB!Share
      <4>2. SumFunctionOnSet(picks, Members(l)) = SumFunctionOnSet(Wt, Members(l))
        BY <2>4, <3>2 DEF Cycle
      <4>3. Cur(l)[x] = SumFunctionOnSet(picks, Members(l)) * Wt[x] - SumFunctionOnSet(Wt, Members(l)) * picks[x]
        BY <2>1, <3>2 DEF Fair, WeightFair
      <4>4. PICK t \in Int, v \in Int : t = SumFunctionOnSet(Wt, Members(l)) /\ v = Wt[x]
        BY <4>1
      <4>5. t * v - t * v = 0
        OBVIOUS
      <4> QED  BY <4>1, <4>2, <4>3, <4>4, <4>5
    <3> QED  BY <1>6, <3>1, <3>2
  <2>5. CASE SumFunctionOnSet(picks, Members(l)) # Cycle(l)
    <3>1. picks' = [picks EXCEPT ![i] = @ + 1]
      BY <1>2, <1>9, <2>2, <2>5 DEF LB!Count
    <3> QED  BY <1>2, <1>5, <1>9, <2>1, <2>3, <2>5, <3>1
  <2> QED  BY <2>4, <2>5
<1> QED  BY <1>7, <1>8, <1>9

\* A selection of the round robin keeps the picks right behind the cursor.
LEMMA RoundStep ==
  ASSUME LB!BalancerAssumption, NEW l, Listing(l), l # <<>>, NEW r \in 0..(Len(l) - 1),
         NEW b \in [Members(l) -> Nat], RoundFair(l, r, b), SumFunctionOnSet(b, Members(l)) < Len(l),
         NEW g \in [Members(l) -> Nat], g[l[r + 1]] = b[l[r + 1]] + 1,
         \A x \in Members(l) \ {l[r + 1]} : g[x] = b[x],
         NEW s, s = IF r + 1 = Len(l) THEN 0 ELSE r + 1
  PROVE  RoundFair(l, s, g)
<1>0. /\ Len(l) \in Nat /\ IsFiniteSet(Members(l)) /\ \A a \in 1..Len(l) : l[a] \in Members(l)
      /\ \A a, c \in 1..Len(l) : l[a] = l[c] => a = c
  BY ListSizes DEF Listing
<1>1. PICK n \in Nat : n = Len(l)
  BY <1>0
<1>2. r + 1 \in 1..n /\ r \in Int /\ s \in Int
  BY <1>1
<1>3. PICK k \in Nat : k = SumFunctionOnSet(b, Members(l))
  BY <1>0, SumNatural
<1>4. SumFunctionOnSet(g, Members(l)) = k + 1
  <2>1. PICK y \in Members(l), e \in Int : y = l[r + 1] /\ e = 1
    BY <1>0, <1>1, <1>2
  <2>2. g[y] = b[y] + e /\ \A x \in Members(l) \ {y} : g[x] = b[x]
    BY <2>1
  <2>3. \A x \in Members(l) : b[x] \in Int
    OBVIOUS
  <2>4. SumFunctionOnSet(g, Members(l)) = SumFunctionOnSet(b, Members(l)) + e
    BY <1>0, <2>2, <2>3, SumChanged
  <2> QED  BY <1>3, <2>1, <2>4
<1>5. ASSUME NEW a \in 1..n PROVE g[l[a]] = IF Behind(a, s, n) < k + 1 THEN 1 ELSE 0
  <2>1. b[l[a]] = IF Behind(a, r, n) < k THEN 1 ELSE 0
    BY <1>1, <1>3 DEF RoundFair
  <2>2. CASE a = r + 1
    <3>1. Behind(a, r, n) = n - 1 /\ Behind(a, s, n) = 0
      BY <1>1, <1>2, <2>2 DEF Behind
    <3> QED  BY <1>1, <1>3, <2>1, <2>2, <3>1
  <2>3. CASE a # r + 1
    <3>1. Behind(a, s, n) = Behind(a, r, n) + 1 /\ Behind(a, r, n) \in Int
      BY <1>1, <1>2, <2>3 DEF Behind
    <3>2. l[a] # l[r + 1] /\ l[a] \in Members(l)
      BY <1>0, <1>1, <1>2, <2>3
    <3> QED  BY <1>3, <2>1, <3>1, <3>2
  <2> QED  BY <2>2, <2>3
<1> QED  BY <1>1, <1>3, <1>4, <1>5 DEF RoundFair

\* There is a first position with the largest weight, and Best is it.
LEMMA BestIs ==
  ASSUME LB!BalancerAssumption, NEW l, Listing(l), l # <<>>, NEW w, \A a \in DOMAIN l : w[l[a]] \in Int
  PROVE  /\ LB!Best(l, w) \in DOMAIN l
         /\ \A b \in DOMAIN l : w[l[b]] <= w[l[LB!Best(l, w)]]
<1>0. IsFiniteSet(DOMAIN l) /\ DOMAIN l = 1..Len(l) /\ Len(l) \in Nat /\ DOMAIN l # {} /\ DOMAIN l \subseteq Int
  <2>1. IsFiniteSet(DOMAIN l) /\ DOMAIN l = 1..Len(l) /\ Len(l) \in Nat
    BY ListSizes
  <2>2. l \in Seq(Backend)
    BY DEF Listing
  <2>3. Len(l) # 0
    BY <2>2
  <2> QED  BY <2>1, <2>3
<1> DEFINE First(s) == \E a \in s : \A b \in s : w[l[b]] < w[l[a]] \/ (w[l[b]] = w[l[a]] /\ a <= b)
           Good == {s \in SUBSET DOMAIN l : s # {} => First(s)}
<1>1. ASSUME NEW s \in SUBSET DOMAIN l, \A x \in s : s \ {x} \in Good PROVE s \in Good
  <2>1. SUFFICES ASSUME s # {} PROVE First(s)
    OBVIOUS
  <2>2. PICK x \in s : TRUE
    BY <2>1
  <2>3. CASE s \ {x} = {}
    <3>1. \A b \in s : b = x
      BY <2>3
    <3>2. x <= x
      BY <1>0, <2>2
    <3> QED  BY <2>2, <3>1, <3>2
  <2>4. CASE s \ {x} # {}
    <3>1. PICK m \in s \ {x} : \A b \in s \ {x} : w[l[b]] < w[l[m]] \/ (w[l[b]] = w[l[m]] /\ m <= b)
      BY <1>1, <2>2, <2>4
    <3>2. \A b \in s : b \in Int /\ w[l[b]] \in Int
      BY <1>0
    <3>3. CASE w[l[m]] < w[l[x]] \/ (w[l[m]] = w[l[x]] /\ x <= m)
      <4>1. \A b \in s : w[l[b]] < w[l[x]] \/ (w[l[b]] = w[l[x]] /\ x <= b)
        BY <2>2, <3>1, <3>2, <3>3
      <4> QED  BY <2>2, <4>1
    <3>4. CASE ~(w[l[m]] < w[l[x]] \/ (w[l[m]] = w[l[x]] /\ x <= m))
      <4>1. \A b \in s : w[l[b]] < w[l[m]] \/ (w[l[b]] = w[l[m]] /\ m <= b)
        BY <2>2, <3>1, <3>2, <3>4
      <4> QED  BY <3>1, <4>1
    <3> QED  BY <3>3, <3>4
  <2> QED  BY <2>3, <2>4
<1> HIDE DEF Good
<1>2. \A s \in SUBSET DOMAIN l : s \in Good
  BY <1>0, <1>1, SubsetInduction
<1>3. DOMAIN l \in Good
  BY <1>2
<1> USE DEF Good
<1>4. First(DOMAIN l)
  BY <1>0, <1>3
<1>5. PICK m : m = LB!Best(l, w)
  OBVIOUS
<1>6. m \in DOMAIN l /\ \A b \in DOMAIN l : w[l[b]] < w[l[m]] \/ (w[l[b]] = w[l[m]] /\ m <= b)
  BY <1>4, <1>5 DEF LB!Best
<1>7. \A b \in DOMAIN l : w[l[b]] <= w[l[m]]
  BY <1>6
<1> QED  BY <1>5, <1>6, <1>7

\* Before a selection the current weights of the list add up to nothing.
LEMMA CurrentSum ==
  ASSUME LB!BalancerAssumption, BalancerInv, NEW l, Listing(l), list # <<>> => l = list
  PROVE  /\ SumFunctionOnSet(Cur(l), Members(l)) = 0
         /\ DOMAIN current = {} \/ (DOMAIN current = Members(l) /\ l = list)
<1>0. IsFiniteSet(Members(l)) /\ \A x \in Members(l) : Cur(l)[x] \in Int
  BY ListSizes, WeightsTyped DEF BalancerInv
<1>1. DOMAIN current = {} \/ (DOMAIN current = Members(l) /\ l = list)
  <2>1. DOMAIN current = {} \/ DOMAIN current = Members(list)
    BY DEF BalancerInv, BalancerType
  <2>2. list = <<>> => Members(list) = {}
    BY DEF Members
  <2> QED  BY <2>1, <2>2
<1>2. PICK c : c = Cur(l)
  OBVIOUS
<1>3. CASE DOMAIN current = {}
  <2>1. \A x \in Members(l) : c[x] = 0
    BY <1>2, <1>3 DEF Cur
  <2> QED  BY <1>0, <1>1, <1>2, <2>1, SumConstant
<1>4. CASE DOMAIN current = Members(l)
  <2>1. \A x \in Members(l) : c[x] \in Int /\ c[x] = current[x]
    BY <1>0, <1>2, <1>4 DEF Cur
  <2>2. SumFunctionOnSet(c, Members(l)) = SumFunctionOnSet(current, Members(l))
    BY <1>0, <2>1, SumEqual
  <2> QED  BY <1>1, <1>2, <1>4, <2>2 DEF BalancerInv
<1> QED  BY <1>1, <1>3, <1>4

\* The weights of a list are at most as many times the largest as it has instances.
LEMMA TotalBounded ==
  ASSUME LB!BalancerAssumption, BalancerType, NEW l, Listing(l)
  PROVE  Len(l) * MaxWeight \in Int /\ SumFunctionOnSet(Wt, Members(l)) <= Len(l) * MaxWeight
<1>1. IsFiniteSet(Members(l)) /\ Cardinality(Members(l)) = Len(l) /\ Len(l) \in Nat /\ MaxWeight \in Nat
  BY ListSizes, BalancerFinite
<1>2. PICK w : w = Wt
  OBVIOUS
<1>3. \A x \in Members(l) : w[x] \in Int /\ w[x] <= MaxWeight
  BY <1>2, WeightsTyped
<1>4. SumFunctionOnSet(w, Members(l)) <= Cardinality(Members(l)) * MaxWeight
  BY <1>1, <1>3, SumAtMost
<1> QED  BY <1>1, <1>2, <1>4

\* What the weights of a list may be short of.
LEMMA CurrentBounded ==
  ASSUME LB!BalancerAssumption, BalancerInv, NEW l, Listing(l), list # <<>> => l = list, l # <<>>,
         NEW x \in Members(l)
  PROVE  Cur(l)[x] + Len(l) * MaxWeight > 0
<1>1. Len(l) \in Nat /\ l \in Seq(Backend) /\ MaxWeight \in Nat \ {0}
  BY ListSizes, BalancerFinite DEF Listing
<1>2. Len(l) # 0
  BY <1>1
<1>3. PICK n \in Nat \ {0}, m \in Nat \ {0} : n = Len(l) /\ m = MaxWeight
  BY <1>1, <1>2
<1>4. 0 + n * m > 0
  BY <1>3
<1>5. DOMAIN current = {} \/ (DOMAIN current = Members(l) /\ l = list)
  BY CurrentSum
<1>6. CASE x \in DOMAIN current
  BY <1>5, <1>6 DEF Cur, BalancerInv
<1>7. CASE x \notin DOMAIN current
  BY <1>3, <1>4, <1>7 DEF Cur
<1> QED  BY <1>6, <1>7

\* The total of the increments taken off one of them leaves nothing.
LEMMA SumLowered ==
  ASSUME NEW w, NEW c, NEW S, IsFiniteSet(S), NEW i \in S, NEW T \in Int, SumFunctionOnSet(w, S) = T,
         \A x \in S : w[x] \in Int, c[i] = w[i] - T, \A x \in S \ {i} : c[x] = w[x]
  PROVE  SumFunctionOnSet(c, S) = 0
<1>1. PICK k \in Int : k = -T
  OBVIOUS
<1>2. c[i] = w[i] + k
  BY <1>1
<1>3. SumFunctionOnSet(c, S) = SumFunctionOnSet(w, S) + k
  BY <1>1, <1>2, SumChanged
<1> QED  BY <1>1, <1>3

\* A raised weight above zero belongs to an instance that has picks left.
LEMMA ShareNotUsed ==
  ASSUME NEW k \in Nat, NEW T \in Int, k + 1 <= T, NEW v \in Nat, NEW p \in Nat, (k * v - T * p) + v > 0
  PROVE  p < v
OBVIOUS

\* The raised weights, and the instance that is selected by them.
LEMMA RaisedIs ==
  ASSUME LB!BalancerAssumption, BalancerInv, NEW l, Listing(l), list # <<>> => l = list, l # <<>>
  PROVE  /\ DOMAIN LB!Raised(l) = Members(l)
         /\ \A x \in Members(l) : LB!Raised(l)[x] = Cur(l)[x] + Wt[x] /\ LB!Raised(l)[x] \in Int
         /\ l[LB!Best(l, LB!Raised(l))] \in Members(l)
         /\ \A x \in Members(l) : LB!Raised(l)[x] <= LB!Raised(l)[l[LB!Best(l, LB!Raised(l))]]
<1>0. /\ BalancerType /\ LB!ToSet(l) = Members(l) /\ Members(l) \in SUBSET Backend
      /\ \A a \in DOMAIN l : l[a] \in Members(l)
  BY ListSizes DEF BalancerInv, Members
<1>1. \A x \in Members(l) : Wt[x] \in Int /\ Cur(l)[x] \in Int /\ LB!get_weight(x) = Wt[x]
  BY <1>0, WeightsTyped
<1>2. PICK w : w = LB!Raised(l)
  OBVIOUS
<1>3. DOMAIN current \cup Members(l) = Members(l)
  BY CurrentSum
<1>4. w = [x \in Members(l) |-> (IF x \in DOMAIN current THEN current[x] ELSE 0)
                                 + (IF x \in Members(l) THEN LB!get_weight(x) ELSE 0)]
  BY <1>0, <1>2, <1>3 DEF LB!Raised
<1>5. ASSUME NEW x \in Members(l) PROVE w[x] = Cur(l)[x] + Wt[x] /\ w[x] \in Int
  BY <1>1, <1>4 DEF Cur
<1>6. LB!Best(l, w) \in DOMAIN l /\ \A a \in DOMAIN l : w[l[a]] <= w[l[LB!Best(l, w)]]
  BY <1>0, <1>5, BestIs
<1>7. \A x \in Members(l) : w[x] <= w[l[LB!Best(l, w)]]
  BY <1>6 DEF Members
<1> QED  BY <1>0, <1>2, <1>4, <1>5, <1>6, <1>7

\* A selection of the weighted balancer: the instance with the largest raised
\* weight is one that has not had its share, and the weights still say what
\* was picked and add up to nothing.
LEMMA WeightStep ==
  ASSUME LB!BalancerAssumption, BalancerInv, NEW l, Listing(l), list # <<>> => l = list, l # <<>>,
         SumFunctionOnSet(Wt, Members(l)) > 0,
         NEW i \in Members(l), \A x \in Members(l) : Cur(l)[x] + Wt[x] <= Cur(l)[i] + Wt[i],
         NEW c, c[i] = (Cur(l)[i] + Wt[i]) - SumFunctionOnSet(Wt, Members(l)),
         \A x \in Members(l) \ {i} : c[x] = Cur(l)[x] + Wt[x]
  PROVE  /\ \A x \in Members(l) : c[x] \in Int /\ c[x] + Len(l) * MaxWeight > 0
         /\ SumFunctionOnSet(c, Members(l)) = 0
         /\ \A b, g \in [Members(l) -> Nat] :
               /\ WeightFair(Members(l), Wt, Cur(l), b)
               /\ SumFunctionOnSet(b, Members(l)) < SumFunctionOnSet(Wt, Members(l))
               /\ g[i] = b[i] + 1 /\ \A x \in Members(l) \ {i} : g[x] = b[x]
               => WeightFair(Members(l), Wt, c, g)
<1>0. BalancerType /\ IsFiniteSet(Members(l))
  BY ListSizes DEF BalancerInv
<1>1. SumFunctionOnSet(Cur(l), Members(l)) = 0
  BY CurrentSum
<1>2. \A x \in Members(l) : Wt[x] \in Int /\ Wt[x] \in Nat /\ Cur(l)[x] \in Int
  BY <1>0, WeightsTyped
<1>3. PICK T \in Int : T = SumFunctionOnSet(Wt, Members(l)) /\ T > 0
  BY <1>0, WeightsTyped
<1>4. PICK w : w = [x \in Members(l) |-> Cur(l)[x] + Wt[x]]
  OBVIOUS
<1>5. /\ \A x \in Members(l) : w[x] = Cur(l)[x] + Wt[x] /\ w[x] \in Int /\ w[x] <= w[i]
      /\ c[i] = w[i] - T /\ \A x \in Members(l) \ {i} : c[x] = w[x]
  BY <1>2, <1>3, <1>4
<1>6. SumFunctionOnSet(w, Members(l)) = T
  <2>1. PICK u, v : u = Cur(l) /\ v = Wt
    OBVIOUS
  <2>2. SumFunctionOnSet(w, Members(l)) = SumFunctionOnSet(u, Members(l)) + SumFunctionOnSet(v, Members(l))
    <3>1. \A x \in Members(l) : u[x] \in Int /\ v[x] \in Int /\ w[x] = u[x] + v[x]
      BY <1>2, <1>5, <2>1
    <3> QED  BY <1>0, <3>1, SumAdded
  <2>3. SumFunctionOnSet(u, Members(l)) = 0 /\ SumFunctionOnSet(v, Members(l)) = T
    BY <1>1, <1>3, <2>1
  <2>4. SumFunctionOnSet(w, Members(l)) = 0 + T
    BY <2>2, <2>3
  <2> QED  BY <1>3, <2>4
<1>7. w[i] > 0
  <2>1. SUFFICES ASSUME w[i] <= 0 PROVE FALSE
    BY <1>5
  <2>2. PICK z : z = [x \in Members(l) |-> 0]
    OBVIOUS
  <2>3. \A x \in Members(l) : w[x] \in Int /\ z[x] \in Int /\ w[x] <= z[x] /\ z[x] = 0
    BY <1>5, <2>1, <2>2
  <2>4. SumFunctionOnSet(w, Members(l)) <= SumFunctionOnSet(z, Members(l))
    BY <1>0, <2>3, SumSmaller
  <2>5. SumFunctionOnSet(z, Members(l)) = 0
    BY <1>0, <2>3, SumConstant
  <2> QED  BY <1>6, <1>3, <2>4, <2>5
<1>8. \A x \in Members(l) : c[x] \in Int /\ c[x] + Len(l) * MaxWeight > 0
  <2>1. PICK N \in Int : N = Len(l) * MaxWeight /\ T <= N
    BY <1>0, <1>3, TotalBounded
  <2>2. \A x \in Members(l) : Cur(l)[x] + N > 0
    BY <2>1, CurrentBounded
  <2>3. c[i] \in Int /\ c[i] + N > 0
    BY <1>3, <1>5, <1>7, <2>1
  <2>4. ASSUME NEW x \in Members(l) \ {i} PROVE c[x] \in Int /\ c[x] + N > 0
    BY <1>2, <1>5, <2>1, <2>2
  <2> QED  BY <2>1, <2>3, <2>4
<1>9. SumFunctionOnSet(c, Members(l)) = 0
  BY <1>0, <1>6, <1>3, <1>5, SumLowered
<1>10. ASSUME NEW b \in [Members(l) -> Nat], WeightFair(Members(l), Wt, Cur(l), b),
              SumFunctionOnSet(b, Members(l)) < SumFunctionOnSet(Wt, Members(l)),
              NEW g \in [Members(l) -> Nat], g[i] = b[i] + 1,
              \A x \in Members(l) \ {i} : g[x] = b[x]
       PROVE  WeightFair(Members(l), Wt, c, g)
  <2>1. PICK k \in Nat : k = SumFunctionOnSet(b, Members(l)) /\ k + 1 <= T
    BY <1>0, <1>10, <1>3, SumNatural
  <2>2. SumFunctionOnSet(g, Members(l)) = k + 1
    <3>1. PICK e \in Int : e = 1
      OBVIOUS
    <3>2. g[i] = b[i] + e /\ \A x \in Members(l) : b[x] \in Int
      BY <1>10, <3>1
    <3>3. SumFunctionOnSet(g, Members(l)) = SumFunctionOnSet(b, Members(l)) + e
      BY <1>0, <1>10, <3>1, <3>2, SumChanged
    <3> QED  BY <2>1, <3>1, <3>3
  <2>3. ASSUME NEW x \in Members(l)
        PROVE  g[x] <= Wt[x] /\ c[x] = (k + 1) * Wt[x] - T * g[x]
    <3>1. PICK v \in Nat, p \in Nat : v = Wt[x] /\ p = b[x]
      BY <1>2, <1>10
    <3>2. p <= v /\ Cur(l)[x] = k * v - T * p
      BY <1>10, <1>3, <2>1, <3>1 DEF WeightFair
    <3>3. w[x] = (k * v - T * p) + v
      BY <1>5, <3>1, <3>2
    <3>4. CASE x = i
      <4>1. g[x] = p + 1 /\ c[x] = ((k * v - T * p) + v) - T
        BY <1>10, <1>5, <3>1, <3>3, <3>4
      <4>2. (k * v - T * p) + v > 0
        BY <1>7, <3>3, <3>4
      <4>3. p < v
        BY <1>3, <2>1, <3>1, <4>2, ShareNotUsed
      <4>4. ((k * v - T * p) + v) - T = (k + 1) * v - T * (p + 1)
        OBVIOUS
      <4> QED  BY <1>3, <2>1, <3>1, <4>1, <4>3, <4>4
    <3>5. CASE x # i
      <4>1. g[x] = p /\ c[x] = (k * v - T * p) + v
        BY <1>10, <1>5, <3>1, <3>3, <3>5
      <4>2. (k * v - T * p) + v = (k + 1) * v - T * p
        OBVIOUS
      <4> QED  BY <1>3, <2>1, <3>1, <3>2, <4>1, <4>2
    <3> QED  BY <3>4, <3>5
  <2> QED  BY <1>3, <2>2, <2>3 DEF WeightFair
<1> QED  BY <1>8, <1>9, <1>10

\* One lemma per action: each keeps the invariant.
LEMMA RoundRobinKeeps ==
  ASSUME LB!BalancerAssumption, BalancerInv, NEW s, LB!SelectRoundRobin(s)
  PROVE  BalancerInv'
<1>0. BalancerType /\ balancer = "round" /\ balancer' = balancer /\ listed' = listed /\ weights' = weights /\ current' = current
  BY DEF LB!SelectRoundRobin, BalancerInv
<1>1. PICK l \in LB!Fetched(s) : /\ l # <<>> /\ list' = l /\ cursor' = (cursor + 1) % CursorMod
                              /\ LB!Count(l, l[(cursor % Len(l)) + 1])
  BY DEF LB!SelectRoundRobin
<1>2. Listing(l) /\ Len(l) \in 1..Cardinality(Backend) /\ Len(l) \in Nat /\ cursor \in 0..(CursorMod - 1)
  BY <1>0, <1>1, FetchedIs, ListSizes DEF BalancerType
<1>3. PICK r \in 0..(Len(l) - 1) : r = cursor % Len(l)
  BY <1>2, CursorMoves
<1>4. cursor' \in 0..(CursorMod - 1) /\ cursor' % Len(l) = IF r + 1 = Len(l) THEN 0 ELSE r + 1
  BY <1>1, <1>2, <1>3, CursorMoves
<1>5. l[r + 1] \in Members(l) /\ Cycle(l) = Len(l) /\ Cycle(l) > 0
  <2>1. r + 1 \in 1..Len(l)
    BY <1>2, <1>3
  <2> QED  BY <1>0, <1>2, <2>1, ListSizes DEF Cycle
<1>6. picks' = <<>> \/ (picks' \in [Members(l) -> Nat] /\ RoundFair(l, cursor' % Len(l), picks'))
  <2>1. CASE picks' = <<>>
    BY <2>1
  <2>2. CASE picks' # <<>>
    <3>1. PICK i \in Members(l) : i = l[r + 1]
      BY <1>5
    <3>2. LB!Count(l, i) /\ balancer # "random"
      BY <1>0, <1>1, <1>3, <3>1
    <3>3. PICK b \in [Members(l) -> Nat] :
               /\ Fair(l, cursor % Len(l), Wt, Cur(l), b)
               /\ SumFunctionOnSet(b, Members(l)) < Cycle(l)
               /\ picks' \in [Members(l) -> Nat] /\ picks'[i] = b[i] + 1
               /\ \A x \in Members(l) \ {i} : picks'[x] = b[x]
      BY <1>1, <1>5, <2>2, <3>2, CountMeans
    <3>4. RoundFair(l, r, b)
      BY <1>0, <1>3, <3>3 DEF Fair
    <3>5. PICK g \in [Members(l) -> Nat] : g = picks'
      BY <3>3
    <3>6. g[l[r + 1]] = b[l[r + 1]] + 1 /\ \A x \in Members(l) \ {l[r + 1]} : g[x] = b[x]
      BY <3>1, <3>3, <3>5
    <3>7. RoundFair(l, cursor' % Len(l), g)
      BY <1>1, <1>2, <1>3, <1>4, <1>5, <3>3, <3>4, <3>5, <3>6, RoundStep
    <3> QED  BY <3>3, <3>5, <3>7
  <2> QED  BY <2>1, <2>2
<1>7. DOMAIN current = {}
  BY <1>0 DEF BalancerType
<1>8. BalancerType'
  BY <1>0, <1>1, <1>2, <1>4, <1>6, <1>7 DEF BalancerType
<1>9. (picks # <<>> => Fair(list, cursor % Len(list), Wt, Cur(list), picks))'
  BY <1>0, <1>1, <1>6 DEF Fair
<1>10. (SumFunctionOnSet(current, DOMAIN current) = 0)'
  BY <1>0 DEF BalancerInv
<1> QED  BY <1>0, <1>7, <1>8, <1>9, <1>10 DEF BalancerInv

LEMMA RandomKeeps ==
  ASSUME LB!BalancerAssumption, BalancerInv, NEW s, LB!SelectRandom(s)
  PROVE  BalancerInv'
<1>0. /\ BalancerType /\ balancer = "random" /\ balancer' = balancer /\ listed' = listed /\ weights' = weights
      /\ current' = current /\ cursor' = cursor /\ picks' = picks
  BY DEF LB!SelectRandom, BalancerInv
<1>1. PICK l \in LB!Fetched(s) : l # <<>> /\ list' = l
  BY DEF LB!SelectRandom
<1>2. Listing(l) /\ (list # <<>> => l = list)
  BY <1>0, <1>1, FetchedIs
<1>3. BalancerType' /\ DOMAIN current = {}
  BY <1>0, <1>1, <1>2 DEF BalancerType
<1> QED  BY <1>0, <1>3 DEF BalancerInv, Fair

LEMMA WeightedKeeps ==
  ASSUME LB!BalancerAssumption, BalancerInv, NEW s, LB!SelectWeighted(s)
  PROVE  BalancerInv'
<1>0. /\ BalancerType /\ balancer = "weighted" /\ balancer' = balancer /\ listed' = listed /\ weights' = weights
      /\ cursor' = cursor /\ Wt' = Wt
  BY DEF LB!SelectWeighted, BalancerInv, Wt
<1>1. PICK l \in LB!Fetched(s) :
         /\ l # <<>> /\ list' = l
         /\ LET w == LB!Raised(l)
                i == l[LB!Best(l, w)]
            IN  CASE Len(l) = 1         -> UNCHANGED current /\ LB!Count(l, l[1])
                  [] Len(l) > 1 /\ LB!TotalWeight(l) <= 0 ->
                         /\ current' = [x \in DOMAIN w |-> IF x \in DOMAIN current THEN current[x] ELSE 0]
                         /\ UNCHANGED picks
                  [] OTHER              -> current' = [w EXCEPT ![i] = @ - LB!TotalWeight(l)] /\ LB!Count(l, i)
  BY DEF LB!SelectWeighted
<1>2. Listing(l) /\ (list # <<>> => l = list) /\ Len(l) \in 1..Cardinality(Backend) /\ Len(l) \in Nat
  BY <1>0, <1>1, FetchedIs, ListSizes
<1>3. PICK T \in Int : T = SumFunctionOnSet(Wt, Members(l))
  BY <1>0, <1>2, WeightsTyped
<1>4. /\ LB!TotalWeight(l) = T /\ T \in Int
      /\ (T <= 0 \/ T > 0) /\ ~(T <= 0 /\ T > 0)
      /\ (Len(l) = 1 \/ Len(l) > 1) /\ ~(Len(l) = 1 /\ Len(l) > 1)
  <2>1. LB!TotalWeight(l) = T
    BY <1>0, <1>2, <1>3, TotalIs
  <2>2. T \in Int
    BY <1>3
  <2>3. (T <= 0 \/ T > 0) /\ ~(T <= 0 /\ T > 0)
    BY <2>2
  <2>4. (Len(l) = 1 \/ Len(l) > 1) /\ ~(Len(l) = 1 /\ Len(l) > 1)
    <3>1. PICK n \in Nat, m \in Nat : n = Len(l) /\ m = Cardinality(Backend)
      BY <1>2, BalancerFinite
    <3>2. n >= 1
      BY <1>2, <3>1
    <3> QED  BY <3>1, <3>2
  <2> QED  BY <2>1, <2>2, <2>3, <2>4
<1>5. IsFiniteSet(Members(l)) /\ (\A a \in 1..Len(l) : l[a] \in Members(l)) /\ DOMAIN l = 1..Len(l)
  BY <1>2, ListSizes
\* Enough for the invariant: the weights and the picks after the step.
<1>6. ASSUME \A x \in DOMAIN current' : current'[x] \in Int,
             DOMAIN current' = {} \/ DOMAIN current' = Members(l),
             SumFunctionOnSet(current', DOMAIN current') = 0,
             \A x \in DOMAIN current' : current'[x] + Len(l) * MaxWeight > 0,
             picks' = <<>> \/ picks' \in [Members(l) -> Nat],
             picks' # <<>> /\ Len(l) = 1 => picks'[l[1]] <= 1,
             picks' # <<>> /\ Len(l) > 1 => WeightFair(Members(l), Wt, Cur(l)', picks')
      PROVE  BalancerInv'
  <2>1. BalancerType'
    BY <1>0, <1>1, <1>2, <1>6 DEF BalancerType
  <2>2. Cur(list)' = Cur(l)'
    BY <1>1 DEF Cur
  <2>3. (picks # <<>> => Fair(list, cursor % Len(list), Wt, Cur(list), picks))'
    BY <1>0, <1>1, <1>6, <2>2 DEF Fair
  <2> QED  BY <1>1, <1>6, <2>1, <2>3 DEF BalancerInv
<1>7. CASE Len(l) = 1
  <2>1. current' = current /\ LB!Count(l, l[1])
    BY <1>1, <1>7
  <2>2. Members(l) = {l[1]} /\ Cycle(l) = 1 /\ l[1] \in Members(l)
    BY <1>5, <1>7 DEF Members, Cycle
  <2>3. /\ DOMAIN current = {} \/ DOMAIN current = Members(l)
        /\ SumFunctionOnSet(current, DOMAIN current) = 0 /\ \A x \in DOMAIN current : current[x] \in Int
    BY <1>2, CurrentSum DEF BalancerInv, BalancerType
  <2>4. picks' = <<>> \/ (picks' \in [Members(l) -> Nat] /\ picks'[l[1]] <= 1)
    <3>1. CASE picks' = <<>>
      BY <3>1
    <3>2. CASE picks' # <<>>
      <4>1. PICK i \in Members(l) : i = l[1]
        BY <2>2
      <4>2. LB!Count(l, i) /\ balancer # "random" /\ Cycle(l) > 0
        BY <1>0, <2>1, <2>2, <4>1
      <4>3. PICK b \in [Members(l) -> Nat] :
                 /\ SumFunctionOnSet(b, Members(l)) < Cycle(l)
                 /\ picks' \in [Members(l) -> Nat] /\ picks'[i] = b[i] + 1
        BY <1>1, <3>2, <4>2, CountMeans
      <4>4. b[i] \in Int /\ b[i] \in Nat
        BY <4>1
      <4>5. SumFunctionOnSet(b, {i}) = b[i]
        BY <4>4, SumSingle
      <4>6. b[i] < 1
        BY <2>2, <4>1, <4>3, <4>5
      <4> QED  BY <4>1, <4>3, <4>4, <4>6
    <3> QED  BY <3>1, <3>2
  <2>5. \A x \in DOMAIN current' : current'[x] + Len(l) * MaxWeight > 0
    BY <1>2, <2>1, CurrentSum DEF BalancerInv
  <2> QED  BY <1>6, <1>7, <2>1, <2>3, <2>4, <2>5
<1>8. CASE Len(l) > 1 /\ T <= 0
  <2>1. DOMAIN LB!Raised(l) = Members(l)
    BY <1>1, <1>2, RaisedIs
  <2>2. current' = [x \in Members(l) |-> IF x \in DOMAIN current THEN current[x] ELSE 0] /\ picks' = picks
    BY <1>1, <1>8, <1>4, <2>1
  <2>3. PICK c : c = current'
    OBVIOUS
  <2>4. DOMAIN c = Members(l) /\ \A x \in Members(l) : c[x] = Cur(l)[x] /\ Cur(l)[x] \in Int
    BY <1>0, <1>2, <2>2, <2>3, WeightsTyped DEF Cur
  <2>5. SumFunctionOnSet(c, Members(l)) = 0
    <3>1. PICK u : u = Cur(l)
      OBVIOUS
    <3>2. \A x \in Members(l) : u[x] \in Int /\ u[x] = c[x]
      BY <2>4, <3>1
    <3>3. SumFunctionOnSet(u, Members(l)) = SumFunctionOnSet(c, Members(l))
      BY <1>5, <3>2, SumEqual
    <3>4. SumFunctionOnSet(u, Members(l)) = 0
      BY <1>2, <3>1, CurrentSum
    <3> QED  BY <3>3, <3>4
  <2>6. \A x \in Members(l) : Cur(l)'[x] = Cur(l)[x]
    BY <2>3, <2>4 DEF Cur
  <2>7. ASSUME picks' # <<>>
        PROVE  picks' \in [Members(l) -> Nat] /\ WeightFair(Members(l), Wt, Cur(l)', picks')
    <3>1. l = list /\ picks \in [Members(l) -> Nat] /\ WeightFair(Members(l), Wt, Cur(l), picks)
      BY <1>0, <1>2, <1>8, <2>2, <2>7 DEF BalancerInv, BalancerType, Fair
    <3> QED  BY <2>2, <2>6, <3>1 DEF WeightFair
  <2>8. DOMAIN current' = Members(l) /\ SumFunctionOnSet(current', Members(l)) = 0
    BY <2>3, <2>4, <2>5
  <2>9. \A x \in Members(l) : current'[x] \in Int
    BY <2>3, <2>4
  <2>10. picks' # <<>> /\ Len(l) = 1 => picks'[l[1]] <= 1
    BY <1>8
  <2>11. \A x \in Members(l) : current'[x] + Len(l) * MaxWeight > 0
    BY <1>1, <1>2, <2>3, <2>4, CurrentBounded
  <2> QED  BY <1>6, <2>7, <2>8, <2>9, <2>10, <2>11
<1>9. CASE Len(l) > 1 /\ T > 0
  <2>1. PICK w : w = LB!Raised(l)
    OBVIOUS
  <2>2. PICK i : i = l[LB!Best(l, w)]
    OBVIOUS
  <2>3. /\ DOMAIN w = Members(l) /\ i \in Members(l)
        /\ \A x \in Members(l) : w[x] = Cur(l)[x] + Wt[x] /\ w[x] \in Int
        /\ \A x \in Members(l) : w[x] <= w[i]
    BY <1>1, <1>2, <2>1, <2>2, RaisedIs
  <2>4. current' = [w EXCEPT ![i] = @ - T] /\ LB!Count(l, i)
    <3>1. Len(l) # 1 /\ ~(Len(l) > 1 /\ LB!TotalWeight(l) <= 0)
      BY <1>9, <1>4
    <3>2. /\ current' = [LB!Raised(l) EXCEPT ![l[LB!Best(l, LB!Raised(l))]] = @ - LB!TotalWeight(l)]
          /\ LB!Count(l, l[LB!Best(l, LB!Raised(l))])
      BY <1>1, <3>1
    <3> QED  BY <1>4, <2>1, <2>2, <3>2
  <2>5. PICK c : c = current'
    OBVIOUS
  <2>6. DOMAIN c = Members(l) /\ c[i] = w[i] - T /\ \A x \in Members(l) \ {i} : c[x] = w[x]
    BY <2>3, <2>4, <2>5
  <2>7. /\ \A x \in Members(l) : c[x] \in Int /\ c[x] + Len(l) * MaxWeight > 0
        /\ SumFunctionOnSet(c, Members(l)) = 0
        /\ \A b, g \in [Members(l) -> Nat] :
               /\ WeightFair(Members(l), Wt, Cur(l), b)
               /\ SumFunctionOnSet(b, Members(l)) < SumFunctionOnSet(Wt, Members(l))
               /\ g[i] = b[i] + 1 /\ \A x \in Members(l) \ {i} : g[x] = b[x]
               => WeightFair(Members(l), Wt, c, g)
    <3>1. Listing(l) /\ (list # <<>> => l = list) /\ l # <<>> /\ SumFunctionOnSet(Wt, Members(l)) > 0
      BY <1>1, <1>2, <1>3, <1>9
    <3>2. \A x \in Members(l) : Cur(l)[x] + Wt[x] <= Cur(l)[i] + Wt[i]
      BY <2>3
    <3>3. c[i] = (Cur(l)[i] + Wt[i]) - SumFunctionOnSet(Wt, Members(l))
      BY <1>3, <2>3, <2>6
    <3>4. i \in Members(l) /\ \A x \in Members(l) \ {i} : c[x] = Cur(l)[x] + Wt[x]
      BY <2>3, <2>6
    <3> QED  BY <3>1, <3>2, <3>3, <3>4, WeightStep
  <2>8. \A x \in Members(l) : Cur(l)'[x] = c[x]
    BY <2>5, <2>6 DEF Cur
  <2>9. ASSUME picks' # <<>>
        PROVE  picks' \in [Members(l) -> Nat] /\ WeightFair(Members(l), Wt, Cur(l)', picks')
    <3>1. Cycle(l) = T /\ balancer # "random"
      BY <1>0, <1>3, <1>9 DEF Cycle
    <3>2. PICK b \in [Members(l) -> Nat] :
               /\ Fair(l, cursor % Len(l), Wt, Cur(l), b)
               /\ SumFunctionOnSet(b, Members(l)) < Cycle(l)
               /\ picks' \in [Members(l) -> Nat] /\ picks'[i] = b[i] + 1
               /\ \A x \in Members(l) \ {i} : picks'[x] = b[x]
      BY <1>1, <1>9, <2>3, <2>4, <2>9, <3>1, CountMeans
    <3>3. PICK g \in [Members(l) -> Nat] : g = picks'
      BY <3>2
    <3>4. WeightFair(Members(l), Wt, Cur(l), b)
      BY <1>0, <1>9, <3>2 DEF Fair
    <3>5. WeightFair(Members(l), Wt, c, g)
      BY <1>3, <2>7, <3>1, <3>2, <3>3, <3>4
    <3>6. PICK d : d = Cur(l)'
      OBVIOUS
    <3>7. WeightFair(Members(l), Wt, d, g)
      BY <2>8, <3>5, <3>6 DEF WeightFair
    <3> QED  BY <3>2, <3>3, <3>6, <3>7
  <2>10. DOMAIN current' = Members(l) /\ SumFunctionOnSet(current', Members(l)) = 0
    BY <2>5, <2>6, <2>7
  <2>11. \A x \in Members(l) : current'[x] \in Int
    BY <2>5, <2>7
  <2>12. picks' # <<>> /\ Len(l) = 1 => picks'[l[1]] <= 1
    BY <1>9
  <2>13. \A x \in Members(l) : current'[x] + Len(l) * MaxWeight > 0
    BY <2>5, <2>7
  <2> QED  BY <1>6, <2>9, <2>10, <2>11, <2>12, <2>13
<1> QED  BY <1>7, <1>8, <1>9, <1>4

LEMMA UpdateKeeps ==
  ASSUME LB!BalancerAssumption, BalancerInv, NEW s, NEW l \in LB!SetToSeqs(LB!Live(s)), LB!update_instances(l)
  PROVE  BalancerInv'
<1>0. /\ BalancerType /\ balancer' = balancer /\ listed' = listed /\ weights' = weights /\ cursor' = cursor
      /\ Wt' = Wt /\ list' = l /\ picks' = [x \in LB!ToSet(l) |-> 0]
      /\ current' = IF balancer = "weighted" THEN <<>> ELSE current
  BY DEF LB!update_instances, BalancerInv, Wt
<1>1. Listing(l) /\ LB!ToSet(l) = Members(l) /\ Len(l) \in Nat /\ Len(l) <= Cardinality(Backend) /\ l \in Seq(Backend)
  BY <1>0, SeqsList, ListSizes DEF Listing
<1>2. DOMAIN current' = {}
  BY <1>0 DEF BalancerType
<1>3. l = <<>> => picks' = <<>>
  BY <1>0, <1>1 DEF Members
<1>4. BalancerType'
  BY <1>0, <1>1, <1>2, <1>3 DEF BalancerType
<1>5. (SumFunctionOnSet(current, DOMAIN current) = 0)'
  <2>1. PICK c, e : c = current' /\ e = {}
    OBVIOUS
  <2>2. IsFiniteSet(e) /\ \A x \in e : c[x] \in Int
    BY <2>1, FS_EmptySet
  <2>3. SumFunctionOnSet(c, e) = 0
    BY <2>1, <2>2, SumPull
  <2> QED  BY <1>2, <2>1, <2>3
<1>6. (picks # <<>> => Fair(list, cursor % Len(list), Wt, Cur(list), picks))'
  <2>1. CASE l = <<>>
    BY <1>3, <2>1
  <2>2. CASE l # <<>>
    <3>1. Len(l) \in 1..Cardinality(Backend) /\ cursor \in 0..(CursorMod - 1)
      <4>1. Len(l) # 0
        BY <1>1, <2>2
      <4> QED  BY <1>0, <1>1, <4>1, BalancerFinite DEF BalancerType
    <3>2. PICK r \in 0..(Len(l) - 1) : r = cursor % Len(l)
      BY <3>1, CursorMoves
    <3>3. PICK w, c, p : w = Wt /\ c = Cur(l)' /\ p = picks'
      OBVIOUS
    <3>4. (\A x \in Members(l) : w[x] \in Nat) /\ \A x \in Members(l) : p[x] = 0
      BY <1>0, <1>1, <3>3, WeightsTyped
    <3>5. \A x \in Members(l) : c[x] = 0
      BY <1>2, <3>3 DEF Cur
    <3>6. RoundFair(l, r, p) /\ p[l[1]] <= 1 /\ WeightFair(Members(l), w, c, p)
      BY <1>1, <2>2, <3>2, <3>4, <3>5, NothingPicked
    <3>7. Cur(list)' = Cur(l)'
      BY <1>0 DEF Cur
    <3> QED  BY <1>0, <3>2, <3>3, <3>6, <3>7 DEF Fair
  <2> QED  BY <2>1, <2>2
<1> QED  BY <1>2, <1>4, <1>5, <1>6 DEF BalancerInv

LEMMA SetWeightKeeps ==
  ASSUME LB!BalancerAssumption, BalancerInv, NEW i \in Backend, NEW w \in 0..MaxWeight, LB!set_weight(i, w)
  PROVE  BalancerInv'
<1>0. /\ BalancerType /\ balancer' = balancer /\ listed' = listed /\ cursor' = cursor /\ list' = list /\ current' = current
      /\ weights' = [x \in DOMAIN weights \cup {i} |-> IF x = i THEN w ELSE weights[x]]
      /\ picks' = IF balancer = "weighted" /\ list # <<>> THEN <<>> ELSE picks
  BY DEF LB!set_weight, BalancerInv
<1>2. DOMAIN weights' \subseteq Backend /\ \A x \in DOMAIN weights' : weights'[x] \in 0..MaxWeight
  BY <1>0 DEF BalancerType
<1>3. BalancerType'
  BY <1>0, <1>2 DEF BalancerType
<1>4. picks' # <<>> => balancer # "weighted" /\ picks' = picks
  BY <1>0 DEF BalancerType
<1>5. (picks # <<>> => Fair(list, cursor % Len(list), Wt, Cur(list), picks))'
  BY <1>0, <1>4 DEF BalancerInv, Fair
<1> QED  BY <1>0, <1>3, <1>5 DEF BalancerInv

\* The invariant says what the run checks.
LEMMA BalancerImplies ==
  ASSUME LB!BalancerAssumption, BalancerInv
  PROVE  FairCycle
<1>0. BalancerType /\ Listing(list)
  BY DEF BalancerInv, BalancerType
<1>1. /\ LB!ToSet(list) = Members(list) /\ Len(list) = Cardinality(Members(list)) /\ Len(list) \in Nat
      /\ Len(list) <= Cardinality(Backend)
  BY <1>0, ListSizes
<1>2. LB!TypeOK
  <2>1. LB!Cardinality(LB!ToSet(list)) = Cardinality(Members(list))
    BY <1>1 DEF LB!Cardinality, Cardinality
  <2>2. DOMAIN current \subseteq Members(list)
    BY <1>0 DEF BalancerType
  <2> QED  BY <1>0, <1>1, <2>1, <2>2 DEF LB!TypeOK, BalancerType, Listing
<1>3. LB!SumFunction(current) = 0
  BY BalancerSums DEF BalancerInv
<1>4. ASSUME picks # <<>>, balancer # "random", NEW i \in DOMAIN picks
      PROVE  /\ picks[i] <= LB!Share(list, i)
             /\ LB!SumFunction(picks) = LB!CycleLength(list) => picks[i] = LB!Share(list, i)
  <2>1. list # <<>> /\ picks \in [Members(list) -> Nat] /\ Fair(list, cursor % Len(list), Wt, Cur(list), picks)
    BY <1>0, <1>4 DEF BalancerInv, BalancerType
  <2>2. Len(list) \in 1..Cardinality(Backend)
    <3>1. list \in Seq(Backend)
      BY <1>0 DEF Listing
    <3>2. Len(list) # 0
      BY <2>1, <3>1
    <3> QED  BY <1>1, <3>2, BalancerFinite
  <2>3. cursor % Len(list) \in 0..(Len(list) - 1)
    BY <1>0, <2>2, CursorMoves DEF BalancerType
  <2>4. LB!CycleLength(list) = Cycle(list) /\ LB!SumFunction(picks) = SumFunctionOnSet(picks, Members(list))
    BY <1>0, <2>1, CycleIs, BalancerSums
  <2> QED  BY <1>0, <1>4, <2>1, <2>3, <2>4, FairBounds
<1>5. \A i \in DOMAIN current : current[i] + Len(list) * MaxWeight > 0
  BY DEF BalancerInv
<1> QED  BY <1>2, <1>3, <1>4, <1>5 DEF FairCycle, LB!FairCycle

\* For every set of instances, every weights and every sequence of calls
\* (RoundRobinLoadBalancer and WeightedRoundRobinLoadBalancer,
\* select_instance): in a cycle of the round robin, and in one of the weighted
\* balancer that begins with level current weights, no instance is selected
\* more often than its share and a complete cycle gives each its share. Where
\* set_weight left them uneven, no instance is ahead by a whole cycle of the
\* largest weights.
THEOREM CyclesAreFair == LB!Spec => []FairCycle
<1>0. LB!BalancerAssumption
  BY ServicesAssumption DEF ServicesAssumption
<1>1. LB!Init => BalancerInv
  <2>1. SUFFICES ASSUME LB!Init PROVE BalancerInv
    OBVIOUS
  <2>2. DOMAIN current = {} /\ DOMAIN weights = {} /\ list \in Seq(Backend) /\ Len(list) = 0
    BY <2>1 DEF LB!Init
  <2>3. BalancerType
    BY <1>0, <2>1, <2>2, BalancerFinite DEF LB!Init, BalancerType, Listing
  <2>4. PICK e : e = {}
    OBVIOUS
  <2>5. IsFiniteSet(e) /\ \A x \in e : current[x] \in Int
    BY <2>4, FS_EmptySet
  <2>6. SumFunctionOnSet(current, e) = 0
    BY <2>4, <2>5, SumPull
  <2> QED  BY <2>1, <2>2, <2>3, <2>4, <2>6 DEF LB!Init, BalancerInv
<1>2. BalancerInv /\ [LB!Next]_(LB!vars) => BalancerInv'
  <2>1. SUFFICES ASSUME BalancerInv, [LB!Next]_(LB!vars) PROVE BalancerInv'
    OBVIOUS
  <2>2. CASE UNCHANGED LB!vars
    BY <2>1, <2>2 DEF LB!vars, BalancerInv, BalancerType, Fair, Wt, Cur
  <2>3. CASE \E s \in LB!ServiceId : LB!SelectRoundRobin(s)
    BY <1>0, <2>1, <2>3, RoundRobinKeeps
  <2>4. CASE \E s \in LB!ServiceId : LB!SelectRandom(s)
    BY <1>0, <2>1, <2>4, RandomKeeps
  <2>5. CASE \E s \in LB!ServiceId : LB!SelectWeighted(s)
    BY <1>0, <2>1, <2>5, WeightedKeeps
  <2>6. CASE \E s \in LB!ServiceId : \E l \in LB!SetToSeqs(LB!Live(s)) : LB!update_instances(l)
    BY <1>0, <2>1, <2>6, UpdateKeeps
  <2>7. CASE \E i \in Backend, w \in 0..MaxWeight : LB!set_weight(i, w)
    BY <1>0, <2>1, <2>7, SetWeightKeeps
  <2>8. CASE LB!Relist
    BY <2>1, <2>8 DEF LB!Relist, BalancerInv, BalancerType, Fair, Wt, Cur
  <2> QED  BY <2>1, <2>2, <2>3, <2>4, <2>5, <2>6, <2>7, <2>8 DEF LB!Next
<1>3. BalancerInv => FairCycle
  BY <1>0, BalancerImplies
<1> QED  BY <1>1, <1>2, <1>3, PTL DEF LB!Spec
=============================================================================
