--------------------------- MODULE MCCoordination ---------------------------
(***************************************************************************)
(* TLC instance of what processes coordinate with: Coordination            *)
(* (DistributedLock, Discovery and the store behind RedisClient).          *)
(*                                                                         *)
(* They share no state (DistributedLock has its one key of the store): a   *)
(* behaviour is one of any of them, subject says whose, and the others     *)
(* stay in an initial state.                                               *)
(***************************************************************************)
EXTENDS Coordination, TLC

VARIABLE subject    \* the component that runs

Typed == [i \in {"node1", "node2", "client"} |-> IF i = "node2" THEN "logic" ELSE "gateway"]

allVars == <<subject, vars, storeVars, discoveryVars>>

\* The configuration of a component that does not run is fixed.
CoordinationInit ==
    /\ subject \in {"lock", "store", "discovery"}
    /\ Init /\ RS!Init /\ D!Init
    /\ subject = "lock" \/ (server /\ punctual)
    /\ subject = "discovery" \/ onTime

Locking == subject = "lock" /\ Next /\ UNCHANGED <<subject, storeVars, discoveryVars>>
Storing == subject = "store" /\ RS!Next /\ UNCHANGED <<subject, vars, discoveryVars>>
Directory == subject = "discovery" /\ D!Next /\ UNCHANGED <<subject, vars, storeVars>>

CoordinationNext == Locking \/ Storing \/ Directory

\* The fairness of DistributedLock and of Discovery, in the behaviours that are theirs.
CoordinationFairness ==
    /\ \A l \in Lock : WF_vars(subject = "lock" /\ UserStep(l)) /\ WF_vars(subject = "lock" /\ RenewStep(l))
    /\ WF_vars(subject = "lock" /\ KeyExpires)
    /\ WF_discoveryVars(subject = "discovery" /\ D!Tick) /\ WF_discoveryVars(subject = "discovery" /\ D!SweepStep)
    /\ \A n \in Node : WF_discoveryVars(subject = "discovery" /\ D!BeatStep(n))

CoordinationSpec == CoordinationInit /\ [][CoordinationNext]_allVars /\ CoordinationFairness

-----------------------------------------------------------------------------
\* The property that Coordination does not state.

\* Discovery: running nodes are listed in the end, silent ones are not.
MembershipSettles == D!MembershipSettles
=============================================================================
