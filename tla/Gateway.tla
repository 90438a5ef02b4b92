------------------------------ MODULE Gateway -------------------------------
(***************************************************************************)
(* GatewayForwarderComponent (src/src/gateway/gateway_forwarder.cpp) on    *)
(* the Service it runs in: TcpServer accepts a client and posts its read   *)
(* loop to the IoService, whose threads each run one loop from the first   *)
(* byte to the close of the connection. A client's first message opens a   *)
(* connection to the backend, whose read loop is posted to the same        *)
(* threads; answers come back through that loop. Backend processes and the *)
(* sockets are the environment. A client has one request at a time; one    *)
(* that died with a backend connection is "lost": nobody tells the client, *)
(* which may ask again when it has waited long enough.                     *)
(***************************************************************************)
EXTENDS Naturals, Sequences, FiniteSets

CONSTANTS
    Client,
    Threads,        \* the numbers of IoService threads (worker_threads)
    MaxRequest,     \* requests per client
    MaxDeath        \* backend connections that die by themselves, per client

VARIABLES
    ioThreads,
    queue,          \* IoService::queue_: the posted read loops
    loop,           \* loop[x]: where the read loop of connection x is
    closed,         \* the connections whose closed_ is set
    client_to_backend, backend_to_client,
    request,        \* request[c]: where c's request is
    asked,          \* requests c has sent
    ended,          \* the peers that closed their end
    stopped         \* Service::stop was called

gatewayVars == <<ioThreads, queue, loop, closed, client_to_backend, backend_to_client, request, asked, ended, stopped>>

None == <<>>
Backend == Client \X (1..MaxDeath + 1)
Connection == Client \cup Backend

\* Connections are pointers: those to clients and to backends are different.
GatewayAssumption ==
    /\ Client \cap Backend = {} /\ None \notin Client
    /\ Threads \subseteq Nat /\ MaxRequest \in Nat /\ MaxDeath \in Nat

TypeOK ==
    /\ ioThreads \in Threads
    /\ queue \in Seq(Connection)
    /\ loop \in [Connection -> {"none", "queued", "reading", "over"}]
    /\ closed \subseteq Connection /\ ended \subseteq Connection
    /\ client_to_backend \in [Client -> Backend \cup {None}]
    /\ backend_to_client \in [Backend -> Client \cup {None}]
    /\ \A c \in Client : request[c].at \in {"client", "socket", "found", "backend", "reply", "lost"}
    /\ asked \in [Client -> 0..MaxRequest] /\ stopped \in BOOLEAN

Init ==
    /\ ioThreads \in Threads
    /\ queue = <<>> /\ loop = [x \in Connection |-> "none"] /\ closed = {}
    /\ client_to_backend = [c \in Client |-> None] /\ backend_to_client = [b \in Backend |-> None]
    /\ request = [c \in Client |-> [at |-> "client", by |-> None]]
    /\ asked = [c \in Client |-> 0] /\ ended = {} /\ stopped = FALSE

Reading == {x \in Connection : loop[x] = "reading"}
Moved(c, at, by) == request' = [request EXCEPT ![c] = [at |-> at, by |-> by]]
maps == <<client_to_backend, backend_to_client>>

-----------------------------------------------------------------------------
\* TcpServer::accept_loop: conn->start is posted.
accept(c) ==
    /\ loop[c] = "none" /\ ~stopped
    /\ loop' = [loop EXCEPT ![c] = "queued"] /\ queue' = Append(queue, c)
    /\ UNCHANGED <<ioThreads, closed, maps, request, asked, ended, stopped>>

\* IoService::run on a thread that has no loop to run.
run ==
    /\ queue # <<>> /\ Cardinality(Reading) < ioThreads /\ ~stopped
    /\ loop' = [loop EXCEPT ![Head(queue)] = "reading"] /\ queue' = Tail(queue)
    /\ UNCHANGED <<ioThreads, closed, maps, request, asked, ended, stopped>>

\* Service::stop: no connection is accepted and no loop started any more; running loops go on.
stop ==
    /\ ~stopped /\ stopped' = TRUE
    /\ UNCHANGED <<ioThreads, queue, loop, closed, maps, request, asked, ended>>

ClientAsks(c) ==
    /\ c \notin ended /\ loop[c] \in {"queued", "reading"} /\ request[c].at \in {"client", "lost"}
    /\ asked[c] < MaxRequest
    /\ Moved(c, "socket", None) /\ asked' = [asked EXCEPT ![c] = @ + 1]
    /\ UNCHANGED <<ioThreads, queue, loop, closed, maps, ended, stopped>>

\* forward, in the client's read loop: the backend is looked up ...
ForwardFound(c) ==
    /\ loop[c] = "reading" /\ request[c].at = "socket" /\ client_to_backend[c] # None
    /\ Moved(c, "found", client_to_backend[c])
    /\ UNCHANGED <<ioThreads, queue, loop, closed, maps, asked, ended, stopped>>

\* A plausible bug: the read loop of the backend connection is not started.
connect_without_loop(c, b) ==
    /\ loop[c] = "reading" /\ request[c].at = "socket" /\ client_to_backend[c] = None
    /\ loop[b] = "none" /\ \A d \in Backend : d[1] = c /\ d[2] < b[2] => loop[d] # "none"
    /\ client_to_backend' = [client_to_backend EXCEPT ![c] = b]
    /\ backend_to_client' = [backend_to_client EXCEPT ![b] = c]
    /\ loop' = [loop EXCEPT ![b] = "queued"]
    /\ Moved(c, "found", b)
    /\ UNCHANGED <<ioThreads, queue, closed, asked, ended, stopped>>

\* ... or connected to: both maps, then the loop is posted ...
connect_backend(c, b) ==
    /\ loop[c] = "reading" /\ request[c].at = "socket" /\ client_to_backend[c] = None
    /\ loop[b] = "none" /\ \A d \in Backend : d[1] = c /\ d[2] < b[2] => loop[d] # "none"
    /\ client_to_backend' = [client_to_backend EXCEPT ![c] = b]
    /\ backend_to_client' = [backend_to_client EXCEPT ![b] = c]
    /\ loop' = [loop EXCEPT ![b] = "queued"] /\ queue' = Append(queue, b)
    /\ Moved(c, "found", b)
    /\ UNCHANGED <<ioThreads, closed, asked, ended, stopped>>

\* ... or not: the client is told "backend unavailable".
ConnectFails(c) ==
    /\ loop[c] = "reading" /\ request[c].at = "socket" /\ client_to_backend[c] = None
    /\ Moved(c, "client", None)
    /\ UNCHANGED <<ioThreads, queue, loop, closed, maps, asked, ended, stopped>>

\* backend->send: a connection that was closed meanwhile drops the message without a word.
ForwardSend(c) ==
    /\ request[c].at = "found"
    /\ Moved(c, IF request[c].by \in closed \cup ended THEN "lost" ELSE "backend", request[c].by)
    /\ UNCHANGED <<ioThreads, queue, loop, closed, maps, asked, ended, stopped>>

-----------------------------------------------------------------------------
\* The backend process answers, or closes its end.
BackendAnswers(c) ==
    /\ request[c].at = "backend" /\ request[c].by \notin ended
    /\ Moved(c, "reply", request[c].by)
    /\ UNCHANGED <<ioThreads, queue, loop, closed, maps, asked, ended, stopped>>

PeerEnds(x) ==
    /\ x \notin ended /\ loop[x] # "none"
    /\ x \in Backend => x[2] <= MaxDeath
    /\ ended' = ended \cup {x}
    /\ UNCHANGED <<ioThreads, queue, loop, closed, maps, request, asked, stopped>>

\* on_backend_message, in the backend's read loop.
on_backend_message(c) ==
    /\ request[c].at = "reply" /\ loop[request[c].by] = "reading" /\ request[c].by \notin closed
    /\ backend_to_client[request[c].by] = c
    /\ Moved(c, "client", None)
    /\ UNCHANGED <<ioThreads, queue, loop, closed, maps, asked, ended, stopped>>

\* A plausible bug: only the entry keyed by the backend is erased.
on_backend_close_half(b) ==
    /\ backend_to_client' = [backend_to_client EXCEPT ![b] = None]
    /\ UNCHANGED client_to_backend

on_backend_close(b) ==
    /\ backend_to_client' = [backend_to_client EXCEPT ![b] = None]
    /\ client_to_backend' = [c \in Client |-> IF backend_to_client[b] = c THEN None ELSE client_to_backend[c]]

\* A read loop ends when the peer closed its end or close() was called; a request in its hands is
\* lost, for on_backend_close sends the client nothing.
BackendLoopEnds(b) ==
    /\ loop[b] = "reading" /\ b \in closed \cup ended
    /\ loop' = [loop EXCEPT ![b] = "over"] /\ closed' = closed \cup {b}
    /\ on_backend_close(b)
    /\ request' = [c \in Client |-> IF request[c].by = b /\ request[c].at \in {"backend", "reply"}
                                    THEN [at |-> "lost", by |-> b] ELSE request[c]]
    /\ UNCHANGED <<ioThreads, queue, asked, ended, stopped>>

\* on_disconnect: the maps forget the client, its backend connection is closed.
ClientLoopEnds(c) ==
    /\ loop[c] = "reading" /\ c \in ended /\ request[c].at \notin {"socket", "found"}
    /\ loop' = [loop EXCEPT ![c] = "over"]
    /\ closed' = closed \cup {c} \cup ({client_to_backend[c]} \ {None})
    /\ backend_to_client' = [b \in Backend |-> IF client_to_backend[c] = b THEN None ELSE backend_to_client[b]]
    /\ client_to_backend' = [client_to_backend EXCEPT ![c] = None]
    /\ UNCHANGED <<ioThreads, queue, request, asked, ended, stopped>>

Forwarding(c) ==
    ForwardFound(c) \/ (\E b \in {c} \X (1..MaxDeath + 1) : connect_backend(c, b)) \/ ForwardSend(c)

Next ==
    \/ run \/ stop
    \/ \E c \in Client : accept(c) \/ ClientAsks(c) \/ ForwardFound(c) \/ ConnectFails(c) \/ ForwardSend(c)
                         \/ BackendAnswers(c) \/ on_backend_message(c) \/ ClientLoopEnds(c)
    \/ \E c \in Client : \E b \in {c} \X (1..MaxDeath + 1) : connect_backend(c, b)
    \/ \E x \in Connection : PeerEnds(x)
    \/ \E b \in Backend : BackendLoopEnds(b)

\* The threads of the IoService run, and the backend process answers what it gets.
Fairness ==
    /\ WF_gatewayVars(run)
    /\ \A c \in Client : /\ WF_gatewayVars(Forwarding(c)) /\ WF_gatewayVars(BackendAnswers(c))
                         /\ WF_gatewayVars(on_backend_message(c)) /\ WF_gatewayVars(ClientLoopEnds(c))
    /\ \A b \in Backend : WF_gatewayVars(BackendLoopEnds(b))

Spec == Init /\ [][Next]_gatewayVars /\ Fairness

-----------------------------------------------------------------------------
(***************************************************************************)
(* The two maps of the gateway are each other's inverse, a client whose    *)
(* disconnect was handled is in neither, and a backend connection no       *)
(* client owns is closed: none is left open for a client that is gone.     *)
(***************************************************************************)
ForwardMapsAgree ==
    /\ \A c \in Client, b \in Backend : client_to_backend[c] = b <=> backend_to_client[b] = c
    /\ \A c \in Client : loop[c] = "over" => client_to_backend[c] = None
    /\ \A b \in Backend : loop[b] \in {"queued", "reading"} /\ backend_to_client[b] = None => b \in closed

Enough == ioThreads >= Cardinality(Client) * (MaxDeath + 2)

\* c knows what became of its request, or nobody is left to tell or to be told.
Settled(c) == request[c].at = "client" \/ c \in ended \/ stopped

(***************************************************************************)
(* With a thread for every connection, a request that reaches the gateway  *)
(* is answered or refused, unless the client leaves or the service stops.  *)
(* It is lost on the way only if the backend itself ended the connection:  *)
(* the gateway loses none by its own doing.                                *)
(***************************************************************************)
ReplyReturns ==
    \A c \in Client : (Enough /\ request[c].at = "socket")
                          ~> (Settled(c) \/ (request[c].at = "lost" /\ request[c].by \in ended))

(***************************************************************************)
(* Does not hold: a client whose request was lost is told. Neither         *)
(* on_backend_close nor a send on a closed connection answers the client.  *)
(***************************************************************************)
LossIsTold == \A c \in Client : (Enough /\ request[c].at = "socket") ~> Settled(c)

(***************************************************************************)
(* Does not hold: that much whatever the number of threads. The loop of a  *)
(* backend connection waits in the queue while the loops of the clients    *)
(* have all the threads.                                                   *)
(***************************************************************************)
ReplyReturnsAnyway ==
    \A c \in Client : request[c].at = "socket"
                          ~> (Settled(c) \/ (request[c].at = "lost" /\ request[c].by \in ended))

(***************************************************************************)
(* Does not hold: after stop() the read loops end. Service::stop closes no *)
(* connection, so the threads stay in the reads of connected clients.      *)
(***************************************************************************)
LoopsEnd == stopped ~> Reading = {}
=============================================================================
