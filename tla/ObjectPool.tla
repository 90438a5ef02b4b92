----------------------------- MODULE ObjectPool -----------------------------
(***************************************************************************)
(* pool::ObjectPool (include/chwell/pool/object_pool.h): objects are made  *)
(* by a factory that may fail, lent with acquire or acquire_raw and come   *)
(* back through release, which the smart pointer of acquire calls when it  *)
(* dies.                                                                   *)
(*                                                                         *)
(* The stack and created_count_ are changed under mutex_; borrowed_count_  *)
(* is incremented after the unlock, so a borrower in between is counted as *)
(* created and not yet as borrowed.  acquire and acquire_raw differ only   *)
(* in who calls release and are one operation here.                        *)
(***************************************************************************)
EXTENDS Integers, FiniteSets, SequencesExt

CONSTANTS
    Borrower,   \* threads
    Object,     \* identities of objects; more than can exist at a time
    Initials,   \* the values of config_.initial_size that are used
    MaxSize     \* config_.max_size

\* Objects are told apart by their addresses: there are finitely many, and
\* enough for every object the pool makes.
ObjectsAssumption ==
    /\ IsFiniteSet(Object) /\ MaxSize \in Nat /\ MaxSize <= Cardinality(Object)
    /\ \A n \in Initials : n \in Nat /\ n <= Cardinality(Object)

VARIABLES
    stack,      \* pool_, the top last
    lent,       \* per thread the objects it holds
    taken,      \* per thread the object it took and has not counted: a set of at most one
    made,       \* created_count_
    borrowed,   \* borrowed_count_
    poolAlive,  \* the pool is not destroyed
    initialSize \* config_.initial_size

vars == <<stack, lent, taken, made, borrowed, poolAlive, initialSize>>

Out == UNION {lent[t] \cup taken[t] : t \in Borrower}
Existing == ToSet(stack) \cup Out

\* factory_.create gives an object that does not exist yet; which one is
\* immaterial.
Fresh == CHOOSE o \in Object : o \notin Existing

\* The constructor does not compare initial_size with max_size.  Without any
\* object the identities are picked in an arbitrary fixed order.
Init ==
    /\ initialSize \in Initials
    /\ \E s \in SetToSeqs(CHOOSE S \in SUBSET Object : Cardinality(S) = initialSize) : stack = s
    /\ lent = [t \in Borrower |-> {}] /\ taken = [t \in Borrower |-> {}]
    /\ made = initialSize /\ borrowed = 0
    /\ poolAlive = TRUE

-----------------------------------------------------------------------------
\* The critical section of acquire: the top of the stack, else a new object
\* while created_count_ allows one, else null.
Take(t) ==
    /\ poolAlive /\ taken[t] = {}
    /\ \/ /\ stack # <<>>
          /\ stack' = Front(stack) /\ taken' = [taken EXCEPT ![t] = {Last(stack)}]
          /\ UNCHANGED made
       \/ /\ stack = <<>> /\ made < MaxSize
          /\ taken' = [taken EXCEPT ![t] = {Fresh}] /\ made' = made + 1
          /\ UNCHANGED stack
    /\ UNCHANGED <<lent, borrowed, poolAlive, initialSize>>

\* ++borrowed_count_ outside the lock.
CountBorrowed(t) ==
    /\ taken[t] # {}
    /\ borrowed' = borrowed + 1
    /\ lent' = [lent EXCEPT ![t] = @ \cup taken[t]]
    /\ taken' = [taken EXCEPT ![t] = {}]
    /\ UNCHANGED <<stack, made, poolAlive, initialSize>>

\* Mutant of release: an object that finds the pool full is destroyed and
\* stays counted.
releaseKeepingCount(t, o) ==
    /\ poolAlive /\ o \in lent[t]
    /\ lent' = [lent EXCEPT ![t] = @ \ {o}]
    /\ borrowed' = borrowed - 1
    /\ stack' = IF Len(stack) < MaxSize THEN Append(stack, o) ELSE stack
    /\ UNCHANGED <<taken, made, poolAlive, initialSize>>

\* The holder gives an object back; a full pool destroys it.
release(t, o) ==
    /\ poolAlive /\ o \in lent[t]
    /\ lent' = [lent EXCEPT ![t] = @ \ {o}]
    /\ borrowed' = borrowed - 1
    /\ IF Len(stack) < MaxSize
       THEN stack' = Append(stack, o) /\ UNCHANGED made
       ELSE made' = made - 1 /\ UNCHANGED stack
    /\ UNCHANGED <<taken, poolAlive, initialSize>>

\* One turn of the loop of expand; a factory that fails makes no object.
expand ==
    /\ poolAlive /\ made < MaxSize
    /\ stack' = Append(stack, Fresh) /\ made' = made + 1
    /\ UNCHANGED <<lent, taken, borrowed, poolAlive, initialSize>>

\* A negative target would pop an empty stack: callers pass 0 or more.
shrink(target) ==
    /\ poolAlive /\ Len(stack) > target
    /\ stack' = SubSeq(stack, 1, target)
    /\ made' = made - (Len(stack) - target)
    /\ UNCHANGED <<lent, taken, borrowed, poolAlive, initialSize>>

\* ~ObjectPool destroys what is in the stack and nothing else.
Destroy ==
    /\ poolAlive /\ \A t \in Borrower : taken[t] = {}
    /\ poolAlive' = FALSE /\ stack' = <<>>
    /\ UNCHANGED <<lent, taken, made, borrowed, initialSize>>

Next ==
    \/ \E t \in Borrower : Take(t) \/ CountBorrowed(t) \/ \E o \in Object : release(t, o)
    \/ expand
    \/ \E target \in 0..MaxSize : shrink(target)
    \/ Destroy

Spec == Init /\ [][Next]_vars

-----------------------------------------------------------------------------
TypeOK ==
    /\ ToSet(stack) \subseteq Object /\ Out \subseteq Object
    /\ made \in Nat /\ borrowed \in Nat
    /\ poolAlive \in BOOLEAN /\ initialSize \in Initials

\* Every object is in the stack or with one borrower, never in two places, and
\* both counters agree with that: created_count_ with all objects,
\* borrowed_count_ with those whose acquire has returned.  So max_size limits
\* what exists, unless the pool was made larger.
Accounted ==
    /\ \A s, t \in Borrower : s # t => (lent[s] \cup taken[s]) \cap (lent[t] \cup taken[t]) = {}
    /\ borrowed = Cardinality(UNION {lent[t] : t \in Borrower})
    /\ poolAlive => /\ Cardinality(ToSet(stack)) = Len(stack) /\ ToSet(stack) \cap Out = {}
                    /\ made = Len(stack) + Cardinality(Out)
                    /\ made <= MaxSize \/ made <= initialSize

\* Does not hold: the pool outlives what it lent.  The deleter of acquire
\* keeps a bare pointer to the pool, and the destructor does not wait.
OutlivesLoans == poolAlive \/ \A t \in Borrower : lent[t] = {}
=============================================================================
