---------------------------- MODULE Coordination ----------------------------
(***************************************************************************)
(* What processes coordinate with, side by side: DistributedLock, the      *)
(* directory of Discovery (D) and the store behind RedisClient (RS), with  *)
(* their constants and variables.                                          *)
(***************************************************************************)
EXTENDS DistributedLock

CONSTANTS
    Node, Silent, Service, serviceOf, Interval, Timeout, SweepInterval, Listeners, Punctuality,  \* of Discovery
    Key, Field, Value, Score, MaxLen                                                             \* of RedisStore

VARIABLES
    instances, index, listeners, phase, waited, sweeper, sweepWaited, onTime, mutexHeld,
    data, expires, hashes, lists, sets, zsets

discoveryVars == <<instances, index, listeners, phase, waited, sweeper, sweepWaited, onTime, mutexHeld>>
storeVars == <<data, expires, hashes, lists, sets, zsets>>

D == INSTANCE Discovery WITH punctual <- onTime
RS == INSTANCE RedisStore

ASSUME CoordinationAssumption == D!DiscoveryAssumption /\ RS!StoreAssumption

\* Index, instances and nodes agree: service_discovery.cpp's two maps, and
\* start(), stop() and heartbeat_loop of node.cpp.
DirectoryExact == D!TypeOK /\ D!DirectoryExact

\* RedisStore: the six containers of the store agree about every key.
StoreConsistent == RS!TypeOK /\ RS!StoreConsistent
=============================================================================
