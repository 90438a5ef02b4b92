--------------------------- MODULE ConnectionPool ---------------------------
(***************************************************************************)
(* net::ConnectionPool (include/chwell/net/connection_pool.h,              *)
(* src/net/connection_pool.cpp): a pool of TCP connections to one address. *)
(* A caller of get_connection takes an idle connection, creates one outside*)
(* mutex_ while pending_creates_ accounts for it, or queues its callback;  *)
(* return_connection hands an idle connection to the oldest queued         *)
(* callback; shutdown empties everything.                                  *)
(*                                                                         *)
(* A critical section is one action.  shutdown_ and pending_creates_ are   *)
(* atomics that the code also touches outside mutex_, and those accesses   *)
(* are steps of their own.  A callback stores its connection, as the one   *)
(* of get_connection_sync does.  maybe_expand is called by nothing.        *)
(*                                                                         *)
(* Time appears as Expire: max_lifetime_ms passes for any connection, or   *)
(* idle_timeout_ms for an idle one.  An expired idle connection is never   *)
(* handed out again, so last_used_time is not part of the state, and       *)
(* is_valid matters only for connections in use.  try_get_idle takes the   *)
(* first usable entry of the vector; the model takes any.                  *)
(***************************************************************************)
EXTENDS Naturals, Sequences, FiniteSets

CONSTANTS
    Caller,         \* threads that call get_connection and return_connection
    Conn,           \* identities for TCP connections
    NoConn,         \* an empty PooledConnection
    MinConnections, \* config_.min_connections
    MaxConnections, \* config_.max_connections
    Faults          \* what may happen to a pool: sets of "refuse", "expire"
                    \* and "shutdown"

ASSUME PoolAssumption ==
    /\ NoConn \notin Conn
    /\ MinConnections \in Nat /\ MaxConnections \in Nat
    /\ MinConnections <= MaxConnections

VARIABLES
    faults,     \* what may happen to this pool
    pool,       \* the connections in connections_
    inUse,      \* those with in_use set
    invalid,    \* those with is_valid cleared while in use
    expired,    \* those whose lifetime or idle time is over
    closed,     \* connections that the pool has closed
    pending,    \* pending_creates_
    waiting,    \* the callers whose callback is in waiting_callbacks_
    down,       \* shutdown_
    drained,    \* shutdown() has returned
    created,    \* how many connections init() has tried to create
    pc,         \* where each caller is in get_connection
    conn        \* the connection each caller holds

connVars == <<pool, inUse, invalid, expired, closed>>
vars == <<faults, connVars, pending, waiting, down, drained, created, pc, conn>>

CallerState == {"idle", "entered", "creating", "created", "waiting", "holding"}

Init ==
    /\ faults \in Faults
    /\ pool = {} /\ inUse = {} /\ invalid = {} /\ expired = {} /\ closed = {}
    /\ pending = 0
    /\ waiting = <<>>
    /\ down = FALSE /\ drained = FALSE
    /\ created = 0
    /\ pc = [r \in Caller |-> "idle"]
    /\ conn = [r \in Caller |-> NoConn]

\* The connections somebody still refers to.
Live == pool \cup {conn[r] : r \in Caller}

\* The identity of a new connection; which one it is is immaterial.
Fresh == CHOOSE c \in Conn : c \notin Live

\* Bound of the model: there is an identity left for it.
IdentityLeft == \E c \in Conn : c \notin Live

Ready == created = MinConnections

-----------------------------------------------------------------------------
\* init() creates the first connections one by one, before the pool is used;
\* an attempt that fails is not repeated.
InitCreate ==
    /\ ~Ready /\ IdentityLeft
    /\ created' = created + 1
    /\ \/ pool' = pool \cup {Fresh}
       \/ "refuse" \in faults /\ UNCHANGED pool
    /\ UNCHANGED <<faults, inUse, invalid, expired, closed, pending, waiting, down,
                   drained, pc, conn>>

\* get_connection tests shutdown_ before it locks; when it is set the callback
\* gets an empty connection at once and nothing changes.
Enter(r) ==
    /\ Ready
    /\ pc[r] = "idle"
    /\ ~down
    /\ pc' = [pc EXCEPT ![r] = "entered"]
    /\ UNCHANGED <<faults, connVars, pending, waiting, down, drained, created, conn>>

Refuse(r) ==
    /\ Ready
    /\ pc[r] = "idle"
    /\ down
    /\ UNCHANGED vars

\* Mutant of Swept: the test of in_use in cleanup_expired left out.
SweptInUse == pool \cap expired

\* cleanup_expired(): expired connections leave the pool unless they are in
\* use, and those in use lose is_valid.
Swept == (pool \ inUse) \cap expired

CleanupExpired ==
    /\ pool' = pool \ Swept
    /\ closed' = closed \cup Swept
    /\ invalid' = (invalid \ Swept) \cup (pool \cap inUse \cap expired)
    /\ expired' = expired \ Swept

Usable(P, U) == (P \ U) \ expired

\* Mutant of MarkInUse: try_get_idle hands out a copy and leaves in_use clear.
LeaveIdle(c) == inUse

\* try_get_idle sets in_use before it copies the entry for the caller.
MarkInUse(c) == inUse \cup {c}

\* The critical section of get_connection.
Acquire(r, patient) ==
    /\ pc[r] = "entered"
    /\ CleanupExpired
    /\ \/ \E c \in Usable(pool, inUse) :
             /\ inUse' = MarkInUse(c)
             /\ conn' = [conn EXCEPT ![r] = c]
             /\ pc' = [pc EXCEPT ![r] = "holding"]
             /\ UNCHANGED <<pending, waiting>>
       \/ /\ Usable(pool, inUse) = {}
          /\ Cardinality(pool') + pending < MaxConnections
          /\ pending' = pending + 1
          /\ pc' = [pc EXCEPT ![r] = "creating"]
          /\ UNCHANGED <<inUse, waiting, conn>>
       \/ /\ Usable(pool, inUse) = {}
          /\ Cardinality(pool') + pending >= MaxConnections
          /\ \/ /\ patient
                /\ waiting' = Append(waiting, r)
                /\ pc' = [pc EXCEPT ![r] = "waiting"]
             \/ /\ ~patient
                /\ pc' = [pc EXCEPT ![r] = "idle"]
                /\ UNCHANGED waiting
          /\ UNCHANGED <<inUse, pending, conn>>
    /\ UNCHANGED <<faults, down, drained, created>>

\* create_connection succeeds; --pending_creates_ comes before the connection
\* is entered in connections_.
Create(r) ==
    /\ pc[r] = "creating" /\ IdentityLeft
    /\ conn' = [conn EXCEPT ![r] = Fresh]
    /\ closed' = closed \ {Fresh}
    /\ pending' = pending - 1
    /\ pc' = [pc EXCEPT ![r] = "created"]
    /\ UNCHANGED <<faults, pool, inUse, invalid, expired, waiting, down, drained, created>>

\* Mutant of CreateFails: --pending_creates_ once more in the early return.
CreateFailsTwice(r) ==
    /\ "refuse" \in faults
    /\ pc[r] = "creating"
    /\ pending' = pending - 2
    /\ pc' = [pc EXCEPT ![r] = "idle"]
    /\ UNCHANGED <<faults, connVars, waiting, down, drained, created, conn>>

\* create_connection fails: the callback gets an empty connection.
CreateFails(r) ==
    /\ "refuse" \in faults
    /\ pc[r] = "creating"
    /\ pending' = pending - 1
    /\ pc' = [pc EXCEPT ![r] = "idle"]
    /\ UNCHANGED <<faults, connVars, waiting, down, drained, created, conn>>

\* Mutant of Register: the test of shutdown_ left out.
RegisterAnyway(r) ==
    /\ pc[r] = "created"
    /\ pool' = pool \cup {conn[r]} /\ inUse' = inUse \cup {conn[r]}
    /\ pc' = [pc EXCEPT ![r] = "holding"]
    /\ UNCHANGED <<faults, invalid, expired, closed, pending, waiting, down, drained, created, conn>>

\* The new connection enters connections_, unless the pool was shut down; the
\* callback gets it in either case.
Register(r) ==
    /\ pc[r] = "created"
    /\ \/ ~down /\ pool' = pool \cup {conn[r]} /\ inUse' = inUse \cup {conn[r]}
       \/ down /\ UNCHANGED <<pool, inUse>>
    /\ pc' = [pc EXCEPT ![r] = "holding"]
    /\ UNCHANGED <<faults, invalid, expired, closed, pending, waiting, down, drained, created, conn>>

\* Mutant of NextWaiter: return_connection does not look at the queue.
NobodyWaits(usable) == {}

\* The queued callback that return_connection serves, if there is a connection
\* for it.
NextWaiter(usable) ==
    IF waiting # <<>> /\ usable # {} THEN {Head(waiting)} ELSE {}

\* return_connection: the entry becomes idle, an entry without is_valid is
\* closed but stays, and one queued callback gets a usable connection.
return_connection(r) ==
    LET c == conn[r]
        freed == inUse \ {c}
        usable == Usable(pool, freed)
    IN  /\ pc[r] = "holding"
        /\ closed' = closed \cup ({c} \cap pool \cap invalid)
        /\ \/ \E w \in NextWaiter(usable), d \in usable :
                 /\ inUse' = freed \cup {d}
                 /\ waiting' = Tail(waiting)
                 /\ conn' = [conn EXCEPT ![r] = NoConn, ![w] = d]
                 /\ pc' = [pc EXCEPT ![r] = "idle", ![w] = "holding"]
           \/ /\ NextWaiter(usable) = {}
              /\ inUse' = freed
              /\ conn' = [conn EXCEPT ![r] = NoConn]
              /\ pc' = [pc EXCEPT ![r] = "idle"]
              /\ UNCHANGED waiting
        /\ UNCHANGED <<faults, pool, invalid, expired, pending, down, drained, created>>

-----------------------------------------------------------------------------
\* shutdown(): shutdown_.exchange(true) without the mutex ...
BeginShutdown ==
    /\ "shutdown" \in faults
    /\ Ready
    /\ ~down
    /\ down' = TRUE
    /\ UNCHANGED <<faults, connVars, pending, waiting, drained, created, pc, conn>>

\* Mutant of FinishShutdown: the callbacks are called but not popped.
FinishWithoutPop ==
    /\ down /\ ~drained
    /\ drained' = TRUE
    /\ closed' = closed \cup pool
    /\ pool' = {} /\ inUse' = {} /\ invalid' = {} /\ expired' = {}
    /\ pc' = [r \in Caller |-> IF pc[r] = "waiting" THEN "idle" ELSE pc[r]]
    /\ UNCHANGED <<faults, pending, waiting, down, created, conn>>

\* ... then the critical section: close and drop every connection, give every
\* queued callback an empty one.
FinishShutdown ==
    /\ down /\ ~drained
    /\ drained' = TRUE
    /\ closed' = closed \cup pool
    /\ pool' = {} /\ inUse' = {} /\ invalid' = {} /\ expired' = {}
    /\ waiting' = <<>>
    /\ pc' = [r \in Caller |-> IF pc[r] = "waiting" THEN "idle" ELSE pc[r]]
    /\ UNCHANGED <<faults, pending, down, created, conn>>

\* The clock.
Expire(c) ==
    /\ "expire" \in faults
    /\ c \in pool \ expired
    /\ expired' = expired \cup {c}
    /\ UNCHANGED <<faults, pool, inUse, invalid, closed, pending, waiting, down, drained, created, pc, conn>>

CallerStep(r) ==
    \/ \E patient \in BOOLEAN : Acquire(r, patient)
    \/ Create(r) \/ CreateFails(r) \/ Register(r)
    \/ return_connection(r)

Next ==
    \/ InitCreate
    \/ \E r \in Caller : Enter(r) \/ Refuse(r) \/ CallerStep(r)
    \/ BeginShutdown \/ FinishShutdown
    \/ \E c \in Conn : Expire(c)

Spec == Init /\ [][Next]_vars

\* A caller inside get_connection goes on, a caller that holds a connection
\* returns it, and a shutdown that began ends.  Nobody has to call.
Fairness ==
    /\ WF_vars(InitCreate) /\ WF_vars(FinishShutdown)
    /\ \A r \in Caller : WF_vars(CallerStep(r))

FairSpec == Spec /\ Fairness
-----------------------------------------------------------------------------
TypeOK ==
    /\ pool \subseteq Conn /\ inUse \subseteq Conn /\ closed \subseteq Conn
    /\ expired \subseteq Conn /\ invalid \subseteq Conn
    /\ pending \in Nat /\ faults \in Faults
    /\ waiting \in Seq(Caller)
    /\ down \in BOOLEAN /\ drained \in BOOLEAN
    /\ created \in 0..MinConnections
    /\ pc \in [Caller -> CallerState]
    /\ conn \in [Caller -> Conn \cup {NoConn}]

\* A connection is lent to one caller at a time, an entry that is lent is
\* marked in_use, and a marked entry has a caller that will return it: no
\* interleaving of callers, the sweep and shutdown lends a connection twice or
\* loses it for good.
ExclusiveUse ==
    /\ \A r, s \in Caller : conn[r] = conn[s] /\ conn[r] # NoConn => r = s
    /\ \A r \in Caller :
          /\ (conn[r] # NoConn) = (pc[r] \in {"created", "holding"})
          /\ conn[r] \in pool => conn[r] \in inUse /\ pc[r] = "holding"
    /\ \A c \in inUse : \E r \in Caller : conn[r] = c

\* The pool closes a connection under a caller only by shutdown; the sweep of
\* another caller's get_connection never does.
HeldOpen ==
    ~drained => \A r \in Caller : conn[r] \notin closed

\* A connection that get_connection lent belongs to that caller until it is
\* returned: no other caller gets it, no sweep closes it.
LentSafely == TypeOK /\ ExclusiveUse /\ HeldOpen

\* A callback is in the queue exactly while its caller has no answer, in one
\* copy: nobody is answered twice and nobody is dropped.
CallbackOnce ==
    /\ \A i, j \in 1..Len(waiting) : waiting[i] = waiting[j] => i = j
    /\ \A r \in Caller :
          pc[r] = "waiting" <=> \E i \in 1..Len(waiting) : waiting[i] = r

\* After shutdown() no connection enters the pool, where nothing would close
\* it, although a creation may be under way when shutdown() takes the lock.
EmptyAfterShutdown == drained => pool = {}

\* While somebody waits, somebody else holds or creates a connection and will
\* come back to the queue with it.  A creation that fails, a connection that
\* expires or a shutdown under way breaks this: the timeout_ms of get_connection
\* is not used, and nobody looks at the queue again.
NoStrandedWaiter ==
    waiting # <<>> /\ faults = {}
        => \E r \in Caller : pc[r] \in {"creating", "created", "holding"}

\* Every queued callback has an answer ahead, once, and a shutdown leaves
\* nothing behind.
CallersServed == CallbackOnce /\ EmptyAfterShutdown /\ NoStrandedWaiter

\* connection_pool.h, get_connection: the callback is called, with a connection
\* or without, when the wait is over ("timeout_ms" bounds it).
WaiterServed == \A r \in Caller : pc[r] = "waiting" ~> pc[r] # "waiting"

\* connection_pool.h, max_connections: the largest number of connections.
WithinMaxConnections == Cardinality(pool) <= MaxConnections
=============================================================================
