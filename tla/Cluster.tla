------------------------------- MODULE Cluster ------------------------------
(***************************************************************************)
(* What a request passes through, side by side: RpcClient, the parsing and *)
(* dispatch of Framing (FR) at a server, and the Gateway (GW), these two   *)
(* with their constants and variables.                                     *)
(***************************************************************************)
EXTENDS RpcClient

CONSTANTS Client, Threads, MaxRequest, MaxDeath

VARIABLES ioThreads, queue, readLoop, closed, client_to_backend, backend_to_client, request, asked, ended, stopped

gatewayVars == <<ioThreads, queue, readLoop, closed, client_to_backend, backend_to_client, request, asked, ended,
                 stopped>>

GW == INSTANCE Gateway WITH loop <- readLoop

CONSTANTS Servers, Method, Sizes, LenMod, CompactAt, MaxSent, MaxLink

VARIABLES server, methods, sent, stream, arrived, buffer, head, stage, messages, handled, misread, conns

serverVars == <<server, methods, sent, stream, arrived, buffer, head, stage, messages, handled, misread, conns>>

FR == INSTANCE Framing

ASSUME ClusterAssumption == GW!GatewayAssumption /\ FR!FramingAssumption

\* The two maps of the gateway and the open connections agree
\* (gateway_forwarder.cpp).
ForwardMapsAgree == GW!TypeOK /\ GW!ForwardMapsAgree

\* Framing: each request is handled once, whole and in order (parser.cpp, rpc_server.cpp).
EveryRequestOnce == FR!TypeOK /\ FR!EveryRequestOnce
=============================================================================
