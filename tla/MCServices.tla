----------------------------- MODULE MCServices -----------------------------
(***************************************************************************)
(* TLC instance of the components a service is assembled from, Services.   *)
(*                                                                         *)
(* They share no state, so a behaviour is one of any of them: subject says *)
(* whose, and the others stay in an initial state.                         *)
(***************************************************************************)
EXTENDS Services, TLC

VARIABLES
    subject     \* the component that runs

Hashes == 1 :> {1, 4} @@ 2 :> {2, 6} @@ 3 :> {3, 5}

ServiceOf == 1 :> "game" @@ 2 :> "game" @@ 3 :> "chat"

allVars == <<subject, vars, breakerVars, limiterVars, balancerVars, registryVars, busVars, objectVars, bufferVars>>

\* The configuration of a component that does not run is fixed.
ServicesInit ==
    /\ subject \in {"pool", "breaker", "limiter", "balancer", "registry", "bus", "objects", "buffers"}
    /\ Init /\ CB!Init /\ RL!Init /\ LB!Init /\ NR!Init /\ EB!Init /\ OP!Init /\ BP!Init
    /\ subject = "pool" \/ faults = {}
    /\ subject = "breaker" \/ strategy = "count"
    /\ subject = "limiter" \/ limiter = "token"
    /\ subject = "balancer" \/ balancer = "round"
    /\ subject = "objects" \/ initialSize = 0

Pool ==
    /\ subject = "pool" /\ Next
    /\ UNCHANGED <<subject, breakerVars, limiterVars, balancerVars, registryVars, busVars, objectVars, bufferVars>>
Breaker ==
    /\ subject = "breaker" /\ CB!Next
    /\ UNCHANGED <<subject, vars, limiterVars, balancerVars, registryVars, busVars, objectVars, bufferVars>>
Limiter ==
    /\ subject = "limiter" /\ RL!Next
    /\ UNCHANGED <<subject, vars, breakerVars, balancerVars, registryVars, busVars, objectVars, bufferVars>>
Balancer ==
    /\ subject = "balancer" /\ LB!Next
    /\ UNCHANGED <<subject, vars, breakerVars, limiterVars, registryVars, busVars, objectVars, bufferVars>>
Registry ==
    /\ subject = "registry" /\ NR!Next
    /\ UNCHANGED <<subject, vars, breakerVars, limiterVars, balancerVars, busVars, objectVars, bufferVars>>
Bus ==
    /\ subject = "bus" /\ EB!Next
    /\ UNCHANGED <<subject, vars, breakerVars, limiterVars, balancerVars, registryVars, objectVars, bufferVars>>
Objects ==
    /\ subject = "objects" /\ OP!Next
    /\ UNCHANGED <<subject, vars, breakerVars, limiterVars, balancerVars, registryVars, busVars, bufferVars>>
Buffers ==
    /\ subject = "buffers" /\ BP!Next
    /\ UNCHANGED <<subject, vars, breakerVars, limiterVars, balancerVars, registryVars, busVars, objectVars>>

\* Where a bound of a model stops a component, that is no deadlock of the code.
Rest == subject \notin {"pool", "breaker"} /\ UNCHANGED allVars

ServicesNext == Pool \/ Breaker \/ Limiter \/ Balancer \/ Registry \/ Bus \/ Objects \/ Buffers \/ Rest

ServicesSpec == ServicesInit /\ [][ServicesNext]_allVars

\* Threads are interchangeable; no property of this run is a liveness property.
Symmetry == Permutations(Caller)
=============================================================================
