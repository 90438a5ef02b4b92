----------------------------- MODULE Discovery -----------------------------
(***************************************************************************)
(* discovery::MemoryServiceDiscovery                                       *)
(* (include/chwell/discovery/service_discovery.h,                          *)
(* src/discovery/service_discovery.cpp) and the cluster::Node objects that *)
(* keep themselves registered in it (src/cluster/node.cpp).                *)
(*                                                                         *)
(* Actors: a heartbeat thread per started Node, whoever calls start and    *)
(* stop, clients that register an instance and send no heartbeats          *)
(* (Silent), the cleanup thread, and the clock.  Each method of the        *)
(* discovery is one critical section of mutex_, in which the listeners are *)
(* called too.                                                             *)
(*                                                                         *)
(* The time stamps of the code are only compared with the present, so an   *)
(* instance carries its age: the time since its heartbeat_time.  Ages and  *)
(* waiting times stop at the first value that has expired.                 *)
(***************************************************************************)
EXTENDS Naturals

CONSTANTS
    Node,           \* instance ids that are Node objects
    Silent,         \* instance ids registered by other clients
    Service,        \* service ids
    serviceOf,      \* node_type_ of a node, service_id of a client's instance
    Interval,       \* heartbeat_interval_seconds_
    Timeout,        \* heartbeat_timeout_ms_
    SweepInterval,  \* cleanup_interval_ms_
    Listeners,      \* listeners that are added: a subset of {"plain", "reentrant"}
    Punctuality     \* BOOLEAN or one of its values: whether threads run on time

VARIABLES
    instances,  \* instances_: the age of every registered instance
    index,      \* service_index_: per service with instances, their ids
    listeners,  \* listeners_: the kinds of listener of each service
    phase,      \* where the Node object and its heartbeat thread are
    waited,     \* how long the heartbeat thread has been in wait_for
    sweeper,    \* where the cleanup thread is
    sweepWaited,\* how long it has been in wait_for
    punctual,   \* heartbeat and cleanup threads run when their time has come
    mutexHeld   \* a listener that calls the discovery waits for mutex_ for ever

vars == <<instances, index, listeners, phase, waited, sweeper, sweepWaited, punctual, mutexHeld>>
tableVars == <<instances, index, listeners, mutexHeld>>
nodeVars == <<phase, waited>>
sweepVars == <<sweeper, sweepWaited>>

Instance == Node \cup Silent

\* A node sends heartbeats more often than the directory forgets it (10 s and
\* 30 s where the code is not told otherwise).
DiscoveryAssumption ==
    /\ Node \cap Silent = {} /\ serviceOf \in [Instance -> Service]
    /\ Interval \in Nat /\ Timeout \in Nat /\ SweepInterval \in Nat
    /\ Interval <= Timeout
    /\ Punctuality \subseteq BOOLEAN

Init ==
    /\ instances = <<>> /\ index = <<>>
    /\ listeners = [s \in Service |-> {}]
    /\ phase = [n \in Node |-> "off"] /\ waited = [n \in Node |-> 0]
    /\ sweeper = "waiting" /\ sweepWaited = 0
    /\ punctual \in Punctuality
    /\ mutexHeld = FALSE

Without(f, S) == [x \in DOMAIN f \ S |-> f[x]]

-----------------------------------------------------------------------------
\* register_service: refused when the id is known; the listeners of the
\* service are called with mutex_ held.
register_service(i) ==
    LET s == serviceOf[i]
    IN  /\ ~mutexHeld
        /\ IF i \in DOMAIN instances
           THEN UNCHANGED <<instances, index, mutexHeld>>
           ELSE /\ instances' = [x \in DOMAIN instances \cup {i} |-> IF x = i THEN 0 ELSE instances[x]]
                /\ index' = [x \in DOMAIN index \cup {s} |->
                                (IF x \in DOMAIN index THEN index[x] ELSE {}) \cup (IF x = s THEN {i} ELSE {})]
                /\ mutexHeld' = ("reentrant" \in listeners[s])
        /\ UNCHANGED listeners

\* Mutant of Erase: the index keeps a service that has no instance left.
EraseKeepingService(S) ==
    /\ instances' = Without(instances, S)
    /\ index' = [s \in DOMAIN index |-> index[s] \ S]

\* Erasing from instances_ and service_index_, as deregister_service and the
\* cleanup do; a service without instances leaves the index.
Erase(S) ==
    /\ instances' = Without(instances, S)
    /\ index' = [s \in {x \in DOMAIN index : index[x] \ S # {}} |-> index[s] \ S]

deregister_service(i) == ~mutexHeld /\ Erase({i}) /\ UNCHANGED <<listeners, mutexHeld>>

heartbeat(i) ==
    /\ ~mutexHeld
    /\ i \in DOMAIN instances
    /\ instances' = [instances EXCEPT ![i] = 0]
    /\ UNCHANGED <<index, listeners, mutexHeld>>

add_listener(s, kind) ==
    /\ ~mutexHeld
    /\ listeners' = [listeners EXCEPT ![s] = @ \cup {kind}]
    /\ UNCHANGED <<instances, index, mutexHeld, nodeVars, sweepVars, punctual>>

remove_listener(s) ==
    /\ ~mutexHeld
    /\ listeners' = [listeners EXCEPT ![s] = {}]
    /\ UNCHANGED <<instances, index, mutexHeld, nodeVars, sweepVars, punctual>>

\* discover_services skips ids that instances_ does not have.
discover_services(s) == IF s \in DOMAIN index THEN index[s] \cap DOMAIN instances ELSE {}

get_all_services == DOMAIN index

-----------------------------------------------------------------------------
\* The cleanup thread: wait_for ends when the interval is over or
\* cleanup_running_ is false.
SweepWakes ==
    /\ sweeper = "waiting" /\ sweepWaited >= SweepInterval
    /\ sweeper' = "sweeping"
    /\ UNCHANGED <<tableVars, nodeVars, sweepWaited, punctual>>

Expired == {i \in DOMAIN instances : instances[i] > Timeout}

cleanup_expired_instances ==
    /\ sweeper \in {"sweeping", "stopping sweep"} /\ ~mutexHeld
    /\ Erase(Expired)
    /\ sweeper' = IF sweeper = "sweeping" THEN "waiting" ELSE "exited"
    /\ sweepWaited' = 0
    /\ UNCHANGED <<listeners, mutexHeld, nodeVars, punctual>>

\* The destructor, once the nodes are off as the header asks: it clears
\* cleanup_running_, notifies and joins.
stop_cleanup_thread ==
    /\ \A n \in Node : phase[n] = "off"
    /\ sweeper \in {"waiting", "sweeping"}
    /\ sweeper' = IF sweeper = "waiting" THEN "exited" ELSE "stopping sweep"
    /\ UNCHANGED <<tableVars, nodeVars, sweepWaited, punctual>>

-----------------------------------------------------------------------------
\* Node::start registers and starts the heartbeat thread, or fails.
start(n) ==
    /\ phase[n] = "off" /\ sweeper \in {"waiting", "sweeping"}
    /\ register_service(n)
    /\ IF n \in DOMAIN instances
       THEN UNCHANGED nodeVars
       ELSE phase' = [phase EXCEPT ![n] = "waiting"] /\ waited' = [waited EXCEPT ![n] = 0]
    /\ UNCHANGED <<sweepVars, punctual>>

\* heartbeat_loop: the wait is over and running_ is still true.
BeatWakes(n) ==
    /\ phase[n] = "waiting" /\ waited[n] >= Interval
    /\ phase' = [phase EXCEPT ![n] = "beating"]
    /\ UNCHANGED <<tableVars, waited, sweepVars, punctual>>

\* From the heartbeat the thread goes back to wait_for, or leaves the loop when
\* stop has cleared running_ meanwhile.
BackToWait(n, from, fromStopping) ==
    /\ phase[n] \in {from, fromStopping}
    /\ phase' = [phase EXCEPT ![n] = IF phase[n] = from THEN "waiting" ELSE "joined"]
    /\ waited' = [waited EXCEPT ![n] = 0]

Beat(n) ==
    /\ heartbeat(n)
    /\ BackToWait(n, "beating", "stopping beat")
    /\ UNCHANGED <<sweepVars, punctual>>

\* Mutant of BeatFails: an expired instance is not registered again.
BeatFailsOnly(n) ==
    /\ ~mutexHeld /\ n \notin DOMAIN instances
    /\ BackToWait(n, "beating", "stopping beat")
    /\ UNCHANGED <<tableVars, sweepVars, punctual>>

\* The instance has expired: the node will register again.
BeatFails(n) ==
    /\ ~mutexHeld /\ n \notin DOMAIN instances
    /\ phase[n] \in {"beating", "stopping beat"}
    /\ phase' = [phase EXCEPT ![n] = IF @ = "beating" THEN "again" ELSE "stopping again"]
    /\ UNCHANGED <<tableVars, waited, sweepVars, punctual>>

RegisterAgain(n) ==
    /\ register_service(n)
    /\ BackToWait(n, "again", "stopping again")
    /\ UNCHANGED <<sweepVars, punctual>>

\* Node::stop clears running_ and notifies.  A thread in wait_for wakes (one
\* that misses the notify wakes at its time-out); one past the test finishes
\* its heartbeat first.
stop(n) ==
    /\ phase[n] \in {"waiting", "beating", "again"}
    /\ phase' = [phase EXCEPT ![n] = CASE @ = "waiting" -> "joined"
                                      [] @ = "beating" -> "stopping beat"
                                      [] @ = "again"   -> "stopping again"]
    /\ UNCHANGED <<tableVars, waited, sweepVars, punctual>>

\* After the join, stop deregisters.
StopReturns(n) ==
    /\ phase[n] = "joined"
    /\ deregister_service(n)
    /\ phase' = [phase EXCEPT ![n] = "off"]
    /\ UNCHANGED <<waited, sweepVars, punctual>>

-----------------------------------------------------------------------------
SilentRegisters(i) == register_service(i) /\ UNCHANGED <<nodeVars, sweepVars, punctual>>
SilentLeaves(i) == i \in DOMAIN instances /\ deregister_service(i) /\ UNCHANGED <<nodeVars, sweepVars, punctual>>

UpTo(x, limit) == IF x < limit THEN x + 1 ELSE x

\* A unit of time passes; punctual threads are not left behind by it.
Tick ==
    /\ punctual => /\ \A n \in Node : phase[n] \in {"off", "joined"} \/ (phase[n] = "waiting" /\ waited[n] < Interval)
                   /\ sweeper \in {"exited"} \/ (sweeper = "waiting" /\ sweepWaited < SweepInterval)
    /\ instances' = [i \in DOMAIN instances |-> UpTo(instances[i], Timeout + 1)]
    /\ waited' = [n \in Node |-> UpTo(waited[n], Interval)]
    /\ sweepWaited' = UpTo(sweepWaited, SweepInterval)
    /\ UNCHANGED <<index, listeners, phase, sweeper, punctual, mutexHeld>>

BeatStep(n) == BeatWakes(n) \/ Beat(n) \/ BeatFails(n) \/ RegisterAgain(n) \/ StopReturns(n)
SweepStep == SweepWakes \/ cleanup_expired_instances

Next ==
    \/ \E n \in Node : start(n) \/ BeatStep(n) \/ stop(n)
    \/ \E i \in Silent : SilentRegisters(i) \/ SilentLeaves(i)
    \/ \E s \in Service : remove_listener(s) \/ \E kind \in Listeners : add_listener(s, kind)
    \/ SweepStep \/ stop_cleanup_thread
    \/ Tick

Fairness == WF_vars(Tick) /\ WF_vars(SweepStep) /\ \A n \in Node : WF_vars(BeatStep(n))

Spec == Init /\ [][Next]_vars /\ Fairness

-----------------------------------------------------------------------------
TypeOK ==
    /\ DOMAIN instances \subseteq Instance /\ \A i \in DOMAIN instances : instances[i] \in 0..(Timeout + 1)
    /\ DOMAIN index \subseteq Service /\ \A s \in DOMAIN index : index[s] \subseteq Instance
    /\ waited \in [Node -> 0..Interval] /\ sweepWaited \in 0..SweepInterval
    /\ sweeper \in {"waiting", "sweeping", "stopping sweep", "exited"}
    /\ mutexHeld \in BOOLEAN

\* The index lists exactly the registered instances under their service, and a
\* service exactly while it has one.  A node whose stop has returned is not
\* registered, although its heartbeat thread may be registering it again at
\* that moment; a running node with punctual threads always is.
DirectoryExact ==
    /\ \A s \in Service : discover_services(s) = {i \in DOMAIN instances : serviceOf[i] = s}
    /\ get_all_services = {serviceOf[i] : i \in DOMAIN instances}
    /\ \A n \in Node : phase[n] = "off" => n \notin DOMAIN instances
    /\ \A n \in Node : punctual /\ phase[n] \in {"waiting", "beating"} => n \in DOMAIN instances

\* A node that keeps running is registered again and again, also when late
\* heartbeats let it expire, and what sends no heartbeat is forgotten in the
\* end as long as the cleanup thread runs.
MembershipSettles ==
    /\ \A n \in Node : []<>(n \in DOMAIN instances \/ phase[n] \notin {"waiting", "beating", "again"})
    /\ \A i \in Silent : []<>(i \notin DOMAIN instances \/ instances[i] <= Timeout \/ sweeper = "exited")

\* Does not hold with reentrant listeners: register_service returns.  The
\* listener is called with mutex_ held and waits for it.
RegisterReturns == ~mutexHeld
=============================================================================
