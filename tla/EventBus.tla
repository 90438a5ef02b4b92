------------------------------ MODULE EventBus ------------------------------
(***************************************************************************)
(* event::EventBus (include/chwell/event/event_bus.h): handlers subscribe  *)
(* to a type of event with a priority, publish calls them one by one in    *)
(* the caller's thread.                                                    *)
(*                                                                         *)
(* publish collects pointers to the handlers under mutex_ and calls them   *)
(* after the unlock, so a handler may itself publish, subscribe and        *)
(* unsubscribe, and other threads may do so between two calls.  A handler  *)
(* that returns and one that throws a std::exception are the same step.    *)
(* Calling a handler that was freed since it was collected is undefined:   *)
(* here the process may abort, go on as if the handler were there, or call *)
(* a handler that was subscribed since and has its memory.                 *)
(***************************************************************************)
EXTENDS Integers, FiniteSets, SequencesExt

CONSTANTS
    Publisher,  \* threads that use the bus
    EventType,
    Priority,   \* a set of integers
    MaxId,      \* bound of the model: ids next_id_ may give out
    MaxDepth    \* bound of the model: publications nested in one thread

BusAssumption == Priority \subseteq Int /\ MaxId \in Nat /\ MaxDepth \in Nat

VARIABLES
    subscribers,    \* subscribers_: per type the ids, in the order of the vector
    nextId,         \* next_id_
    about,          \* history: type and priority of every id given out
    gone,           \* history: ids unsubscribed or cleared
    publishing,     \* per thread the stack of its publications, the innermost last
    aborted         \* undefined behaviour ended the process

vars == <<subscribers, nextId, about, gone, publishing, aborted>>

Init ==
    /\ subscribers = [y \in EventType |-> <<>>]
    /\ nextId = 1
    /\ about = <<>>
    /\ gone = {}
    /\ publishing = [t \in Publisher |-> <<>>]
    /\ aborted = FALSE

Top(t) == Last(publishing[t])
InHandler(t) == publishing[t] # <<>> /\ Top(t).called # 0

\* A thread calls the bus from outside, or from the handler it is in.
MayCall(t) == ~aborted /\ (publishing[t] = <<>> \/ InHandler(t))

SetTop(t, f) == publishing' = [publishing EXCEPT ![t] = Append(Front(@), f)]

-----------------------------------------------------------------------------
\* std::sort: by priority, the largest first, equal ones in any order.
Sorted(ids, prio) ==
    {s \in SetToSeqs(ids) : \A i, j \in DOMAIN s : i < j => prio[s[i]].priority >= prio[s[j]].priority}

\* Mutant of subscribe: the new handler stays at the end of the vector.
subscribeUnsorted(t, y, p) ==
    /\ MayCall(t) /\ nextId <= MaxId
    /\ nextId' = nextId + 1
    /\ about' = Append(about, [type |-> y, priority |-> p])
    /\ subscribers' = [subscribers EXCEPT ![y] = Append(@, nextId)]
    /\ UNCHANGED <<gone, publishing, aborted>>

subscribe(t, y, p) ==
    /\ MayCall(t) /\ nextId <= MaxId
    /\ nextId' = nextId + 1
    /\ about' = Append(about, [type |-> y, priority |-> p])
    /\ \E s \in Sorted(ToSet(subscribers[y]) \cup {nextId}, about') :
           subscribers' = [subscribers EXCEPT ![y] = s]
    /\ UNCHANGED <<gone, publishing, aborted>>

\* The id is searched in the vectors of all types; what is found is erased.
unsubscribe(t, id) ==
    /\ MayCall(t) /\ id < nextId
    /\ subscribers' = [y \in EventType |-> RemoveFirst(subscribers[y], id)]
    /\ gone' = gone \cup {id}
    /\ UNCHANGED <<nextId, about, publishing, aborted>>

clear(t) ==
    /\ MayCall(t)
    /\ subscribers' = [y \in EventType |-> <<>>]
    /\ gone' = 1..(nextId - 1)
    /\ UNCHANGED <<nextId, about, publishing, aborted>>

\* publish: the handlers are collected; an event may come cancelled already.
publish(t, y) ==
    /\ MayCall(t) /\ Len(publishing[t]) < MaxDepth
    /\ \E c \in BOOLEAN :
           publishing' = [publishing EXCEPT ![t] = Append(@,
               [type |-> y, rest |-> subscribers[y], called |-> 0, cancelled |-> c, before |-> gone])]
    /\ UNCHANGED <<subscribers, nextId, about, gone, aborted>>

\* What is called through the collected pointer to handler id.
Behind(id) ==
    {id} \cup (IF id \in gone THEN {other \in 1..(nextId - 1) : other > id /\ other \notin gone} ELSE {})

\* The next handler is called.
Invoke(t) ==
    /\ ~aborted /\ publishing[t] # <<>> /\ Top(t).called = 0
    /\ ~Top(t).cancelled /\ Top(t).rest # <<>>
    /\ \/ /\ \E id \in Behind(Head(Top(t).rest)) : SetTop(t, [Top(t) EXCEPT !.called = id])
          /\ UNCHANGED aborted
       \/ Head(Top(t).rest) \in gone /\ aborted' = TRUE /\ UNCHANGED publishing
    /\ UNCHANGED <<subscribers, nextId, about, gone>>

\* The handler returns or throws a std::exception; it may have cancelled the event.
HandlerEnds(t) ==
    /\ ~aborted /\ InHandler(t)
    /\ \E c \in {Top(t).cancelled, TRUE} :
           SetTop(t, [Top(t) EXCEPT !.called = 0, !.rest = Tail(@), !.cancelled = c])
    /\ UNCHANGED <<subscribers, nextId, about, gone, aborted>>

\* The handler throws something else, which leaves publish: the handlers that
\* are left are not called. Whoever called publish catches it.
HandlerThrows(t) ==
    /\ ~aborted /\ InHandler(t)
    /\ publishing' = [publishing EXCEPT ![t] = Front(@)]
    /\ UNCHANGED <<subscribers, nextId, about, gone, aborted>>

PublishReturns(t) ==
    /\ ~aborted /\ publishing[t] # <<>> /\ Top(t).called = 0
    /\ Top(t).cancelled \/ Top(t).rest = <<>>
    /\ publishing' = [publishing EXCEPT ![t] = Front(@)]
    /\ UNCHANGED <<subscribers, nextId, about, gone, aborted>>

Next ==
    \E t \in Publisher :
        \/ \E y \in EventType, p \in Priority : subscribe(t, y, p)
        \/ \E id \in 1..MaxId : unsubscribe(t, id)
        \/ clear(t)
        \/ \E y \in EventType : publish(t, y)
        \/ Invoke(t) \/ HandlerEnds(t) \/ HandlerThrows(t) \/ PublishReturns(t)

Spec == Init /\ [][Next]_vars

-----------------------------------------------------------------------------
TypeOK ==
    /\ \A y \in EventType : ToSet(subscribers[y]) \subseteq 1..(nextId - 1)
    /\ nextId \in 1..(MaxId + 1) /\ Len(about) = nextId - 1
    /\ gone \subseteq 1..(nextId - 1)
    /\ \A t \in Publisher : Len(publishing[t]) \in 0..MaxDepth
    /\ aborted \in BOOLEAN

\* What a publication still has to call are handlers of its own type, each
\* once, the higher priority first, and none that had been unsubscribed when
\* it began, whatever was subscribed and unsubscribed meanwhile from handlers
\* and other threads.
CallsInOrder ==
    \A t \in Publisher, i \in 1..MaxDepth :
        i <= Len(publishing[t]) =>
            LET f == publishing[t][i]
            IN  /\ f.rest \in Sorted(ToSet(f.rest), about)
                /\ \A id \in ToSet(f.rest) : about[id].type = f.type /\ id \notin f.before

\* Does not hold: publish calls the handlers it collected, which exist.  One
\* that another thread, or an earlier handler of the same event, unsubscribed
\* after the pointers were collected is called through freed memory, where
\* there may be a handler of another type by now.
CalledAlive ==
    /\ ~aborted
    /\ \A t \in Publisher : InHandler(t) => Top(t).called = Head(Top(t).rest)
=============================================================================
