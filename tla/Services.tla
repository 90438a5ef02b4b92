------------------------------ MODULE Services ------------------------------
(***************************************************************************)
(* Components a service is assembled from, side by side: ConnectionPool,   *)
(* CircuitBreaker (CB), NodeRegistry with its consistent hash (NR),        *)
(* LoadBalancer (LB), ObjectPool (OP), BufferPool (BP), EventBus (EB) and  *)
(* RateLimiter (RL).                                                       *)
(***************************************************************************)
EXTENDS ConnectionPool

CONSTANTS
    Thread, Strategies, Threshold, RateNum, RateDen, HalfOpenCalls, Manual, MaxCalls,   \* of CircuitBreaker
    Server, ServerType, hashOf, Place,                                                  \* of NodeRegistry
    Backend, serviceOf, Balancers, MaxWeight, CursorMod,                                \* of LoadBalancer
    Borrower, Object, Initials, MaxSize,                                                \* of ObjectPool
    BufferSize, InitialCount, MaxCount,                                                 \* of BufferPool
    Publisher, EventType, Priority, MaxId, MaxDepth,                                    \* of EventBus
    Checker, Key, Kinds, Capacity, FillNum, FillDen, WindowSize, Counts, MaxTime        \* of RateLimiter

VARIABLES
    strategy, state, failures, successes, halfOpen, breakerPc, seen, total, resetting, calls, overridden,
    nodes, ring,
    balancer, listed, list, cursor, weights, current, picks,
    stack, lent, taken, made, borrowed, poolAlive, initialSize,
    pools, users, dropped,
    subscribers, nextId, about, gone, publishing, aborted,
    limiter, now, levels, checking, granted

breakerVars == <<strategy, state, failures, successes, halfOpen, breakerPc, seen, total, resetting, calls, overridden>>
registryVars == <<nodes, ring>>
balancerVars == <<balancer, listed, list, cursor, weights, current, picks>>
objectVars == <<stack, lent, taken, made, borrowed, poolAlive, initialSize>>
bufferVars == <<pools, users, dropped>>
busVars == <<subscribers, nextId, about, gone, publishing, aborted>>
limiterVars == <<limiter, now, levels, checking, granted>>

CB == INSTANCE CircuitBreaker WITH pc <- breakerPc
NR == INSTANCE NodeRegistry
LB == INSTANCE LoadBalancer
OP == INSTANCE ObjectPool
BP == INSTANCE BufferPool WITH Size <- BufferSize
EB == INSTANCE EventBus
RL == INSTANCE RateLimiter WITH Caller <- Checker, RateNum <- FillNum, RateDen <- FillDen

ASSUME ServicesAssumption ==
    /\ CB!BreakerAssumption /\ NR!HashAssumption /\ LB!BalancerAssumption
    /\ OP!ObjectsAssumption /\ BP!BuffersAssumption /\ EB!BusAssumption /\ RL!LimiterAssumption

\* CircuitBreaker: the threshold is not stepped over, no trip is without cause.
BreakerSound == CB!BreakerSound

\* NodeRegistry: keys move only to new nodes or away from old ones.
MinimalMovement == NR!MinimalMovement

\* LoadBalancer: every instance has its share of a cycle.
FairCycle == LB!TypeOK /\ LB!FairCycle

\* ObjectPool and BufferPool: what is lent, dropped and free adds up to what
\* was made.
ObjectsAccounted == OP!TypeOK /\ OP!Accounted
BuffersConserve == BP!TypeOK /\ BP!BuffersConserved
PoolsConserve == ObjectsAccounted /\ BuffersConserve

\* EventBus: handlers are called in the order of their priorities, each once.
CallsInOrder == EB!TypeOK /\ EB!CallsInOrder

\* RateLimiter: no interval is granted more than the limiter promises.
WithinLimit == RL!TypeOK /\ RL!WithinLimit
=============================================================================
