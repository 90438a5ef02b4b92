----------------------------- MODULE MCCluster ------------------------------
(***************************************************************************)
(* TLC instance of what a request passes through: RpcClient, Framing and   *)
(* Gateway, as Cluster puts them side by side.                             *)
(*                                                                         *)
(* Each is checked against an environment that does all its peers can do,  *)
(* so they share no state: a behaviour is one of any of them, subject says *)
(* whose, and the others stay in an initial state.                         *)
(***************************************************************************)
EXTENDS Cluster, TLC

VARIABLE subject    \* the component that runs

allVars == <<subject, vars, serverVars, gatewayVars>>

\* The configuration of a component that does not run is fixed.
ClusterInit ==
    /\ subject \in {"client", "server", "gateway"}
    /\ Init /\ FR!Init /\ GW!Init
    /\ subject = "server" \/ server = "rpc"
    /\ subject = "gateway" \/ ioThreads = 2

Calling == subject = "client" /\ Next /\ UNCHANGED <<subject, serverVars, gatewayVars>>
Serving == subject = "server" /\ FR!Next /\ UNCHANGED <<subject, vars, gatewayVars>>
Forwarding == subject = "gateway" /\ GW!Next /\ UNCHANGED <<subject, vars, serverVars>>

\* Where a bound of a model stops a component, that is no deadlock of the code.
Rest == subject # "client" /\ UNCHANGED allVars

ClusterNext == Calling \/ Serving \/ Forwarding \/ Rest

\* The fairness of RpcClient in its own behaviours, and that of the gateway,
\* none of whose fair actions is enabled in an initial state.
ClusterFairness ==
    /\ \A r \in Req : WF_vars(subject = "client" /\ CallStep(r)) /\ WF_vars(subject = "client" /\ DeadlinePasses(r))
    /\ WF_vars(subject = "client" /\ IoStep) /\ WF_vars(subject = "client" /\ CleanerStep)
    /\ WF_vars(subject = "client" /\ OwnerStep)
    /\ GW!Fairness

ClusterSpec == ClusterInit /\ [][ClusterNext]_allVars /\ ClusterFairness

-----------------------------------------------------------------------------
\* Gateway: with a thread for every connection a request is answered or refused; only a backend
\* that ends its connection loses one.
ReplyReturns == GW!ReplyReturns
=============================================================================
