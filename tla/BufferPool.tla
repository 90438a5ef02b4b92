----------------------------- MODULE BufferPool -----------------------------
(***************************************************************************)
(* pool::BufferPool and pool::GlobalBufferPool                             *)
(* (include/chwell/pool/object_pool.h): buffers of one size are lent from  *)
(* a pool per size.  Every method is one critical section.                 *)
(*                                                                         *)
(* A buffer is a plain unique_ptr that knows nothing of its pool:          *)
(* GlobalBufferPool::release takes the size once more as an argument (with *)
(* a default), and a buffer that is simply dropped comes back nowhere.     *)
(***************************************************************************)
EXTENDS Integers, FiniteSets, Functions

CONSTANTS
    Size,           \* the sizes of pools
    InitialCount,   \* buffers a pool is made with
    MaxCount        \* max_count_

\* What the code's types and the configuration give.
BuffersAssumption == IsFiniteSet(Size) /\ InitialCount \in Nat /\ MaxCount \in Nat

VARIABLES
    pools,      \* per size, of a pool that was made: free buffers by the size they were made
                \* with, created_count_ and borrowed_count_
    users,      \* buffers that are lent: how many of each size
    dropped     \* history: how many lent buffers died without release

vars == <<pools, users, dropped>>

Init == pools = <<>> /\ users = [z \in Size |-> 0] /\ dropped = 0

\* The constructor stops at max_count.
NewPool(z) ==
    LET n == IF InitialCount < MaxCount THEN InitialCount ELSE MaxCount
    IN  [free |-> [y \in Size |-> IF y = z THEN n ELSE 0], created |-> n, borrowed |-> 0]

\* get_pool makes the pool of a size when it is first asked for and never removes one,
\* so that its critical section and the one that follows it are one step.
get_pool(z) == IF z \in DOMAIN pools THEN pools[z] ELSE NewPool(z)

Put(z, p) == pools' = [y \in DOMAIN pools \cup {z} |-> IF y = z THEN p ELSE pools[y]]

-----------------------------------------------------------------------------
\* GlobalBufferPool::acquire(z): a free buffer, else a new one, else null.  y is
\* the size of the buffer that is handed out; which free buffer is on top is
\* left open.
acquire(z, y) ==
    LET p == get_pool(z)
    IN  /\ IF SumFunction(p.free) > 0
           THEN p.free[y] > 0 /\ Put(z, [p EXCEPT !.free[y] = @ - 1, !.borrowed = @ + 1])
           ELSE y = z /\ p.created < MaxCount
                      /\ Put(z, [p EXCEPT !.created = @ + 1, !.borrowed = @ + 1])
        /\ users' = [users EXCEPT ![y] = @ + 1]
        /\ UNCHANGED dropped

\* Mutant of release: the buffer is put back without being uncounted.
releaseStillBorrowed(y, z) ==
    LET p == get_pool(z)
    IN  /\ users[y] > 0
        /\ users' = [users EXCEPT ![y] = @ - 1]
        /\ Put(z, IF SumFunction(p.free) < MaxCount
                  THEN [p EXCEPT !.free[y] = @ + 1]
                  ELSE [p EXCEPT !.created = @ - 1])
        /\ UNCHANGED dropped

\* GlobalBufferPool::release(buf, z) of a buffer made with size y.
release(y, z) ==
    LET p == get_pool(z)
    IN  /\ users[y] > 0
        /\ users' = [users EXCEPT ![y] = @ - 1]
        /\ Put(z, IF SumFunction(p.free) < MaxCount
                  THEN [p EXCEPT !.free[y] = @ + 1, !.borrowed = @ - 1]
                  ELSE [p EXCEPT !.created = @ - 1, !.borrowed = @ - 1])
        /\ UNCHANGED dropped

\* The unique_ptr of a lent buffer dies.
Drop(y) ==
    /\ users[y] > 0
    /\ users' = [users EXCEPT ![y] = @ - 1]
    /\ dropped' = dropped + 1
    /\ UNCHANGED pools

Next ==
    \/ \E z, y \in Size : acquire(z, y)
    \/ \E z, y \in Size : release(y, z)
    \/ \E y \in Size : Drop(y)

Spec == Init /\ [][Next]_vars

-----------------------------------------------------------------------------
\* The sum over the pools of what f gives for one.
Total(f(_)) == SumFunction([z \in DOMAIN pools |-> f(pools[z])])

TypeOK ==
    /\ DOMAIN pools \subseteq Size
    /\ \A z \in DOMAIN pools : pools[z] \in [free : [Size -> Nat], created : Int, borrowed : Int]
    /\ users \in [Size -> Nat] /\ dropped \in Nat

\* The pools together account for every buffer, also when buffers come back to
\* the pool of another size: what was borrowed is in use or was dropped, what
\* was created is free, in use or was dropped, and no pool keeps more free
\* buffers than its maximum.
BuffersConserved ==
    /\ Total(LAMBDA p : p.borrowed) = SumFunction(users) + dropped
    /\ Total(LAMBDA p : p.created) = Total(LAMBDA p : SumFunction(p.free)) + SumFunction(users) + dropped
    /\ \A z \in DOMAIN pools : SumFunction(pools[z].free) <= MaxCount

\* Does not hold: a pool hands out buffers of its own size.  One released with
\* another size, or with the default, is handed out as that size.
RightSize == \A z \in DOMAIN pools : \A y \in Size \ {z} : pools[z].free[y] = 0
=============================================================================
