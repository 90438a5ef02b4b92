--------------------------- MODULE ClusterProofs ----------------------------
(***************************************************************************)
(* What a request passes through on its way, proved for every value of the *)
(* constants.                                                              *)
(*                                                                         *)
(* RpcClient, for every set of requests and any number of connections: the *)
(* callback of a request is called exactly once, whichever of the four     *)
(* threads that race for it calls it.                                      *)
(*                                                                         *)
(* Gateway (the instance GW), for every set of clients and any number of   *)
(* threads, requests and dying backends: the two maps stay each other's    *)
(* inverse, and no backend connection is left open for a client that is    *)
(* gone.                                                                   *)
(*                                                                         *)
(* Framing (the instance FR, at the end), for every set of commands and    *)
(* sizes, any width of the length field and any way to cut the stream:     *)
(* each request that fits is handled once, in order and under its own id.  *)
(***************************************************************************)
EXTENDS Cluster, Sequences, FiniteSetTheorems, SequenceTheorems, TLAPS

\* A request waits for its answer in one of four places.
Held(r) == r \in pending \/ r \in failing \/ r \in dropping \/ r \in sweeping

\* What one thread has taken no other can take.
Apart ==
    /\ pending \cap failing = {} /\ pending \cap dropping = {}
    /\ pending \cap sweeping = {} /\ failing \cap dropping = {}
    /\ failing \cap sweeping = {} /\ dropping \cap sweeping = {}

\* A request that waits was registered and not answered; one that does not wait
\* is not registered yet, or was answered once.
Accounted ==
    \A r \in Req :
        /\ Held(r) => cpc[r] \in {"registered", "done"} /\ answers[r] = 0
        /\ ~Held(r) => answers[r] = IF cpc[r] \in {"registered", "done"} THEN 1 ELSE 0

\* The single thread of the IoService is in one read loop, and a connection that
\* was not made has none: on_disconnect finds the list of the last one empty.
OneLoop ==
    /\ \A g, h \in Gen : loop[g] \in {"reading", "failing"} /\ loop[h] \in {"reading", "failing"}
                            => g = h
    /\ \A g \in Gen : g > made => loop[g] = "none"
    /\ failing # {} => \E g \in Gen : loop[g] = "failing"

\* The list of disconnect is empty outside disconnect.
OneOwner == dropping # {} => owner = "dropping"

IInv == TypeOK /\ Apart /\ Accounted /\ OneLoop /\ OneOwner

-----------------------------------------------------------------------------
\* A client that was never connected.
LEMMA InitSound == Init => IInv
<1> SUFFICES ASSUME Init PROVE IInv
  OBVIOUS
<1>1. cleaning \in BOOLEAN /\ garbled \in BOOLEAN /\ aborted \in BOOLEAN
  BY DEF Init
<1>2. TypeOK
  BY <1>1, RpcAssumption DEF Init, TypeOK, Gen
<1>3. QED
  BY <1>2 DEF Init, IInv, Apart, Accounted, Held, OneLoop, OneOwner

\* Every step keeps the types.
LEMMA TypeStep == TypeOK /\ [Next]_vars => TypeOK'
<1> SUFFICES ASSUME TypeOK, [Next]_vars PROVE TypeOK'
  OBVIOUS
<1> USE RpcAssumption DEF TypeOK, Gen, Answer, connVars, placeVars, threadVars
<1>1. CASE connect
  <2>1. made + 1 \in Gen
    BY <1>1 DEF connect
  <2>2. cleaning' \in BOOLEAN /\ aborted' \in BOOLEAN
    BY <1>1 DEF connect
  <2>3. QED  BY <1>1, <2>1, <2>2 DEF connect
<1>2. CASE StopCleaner
  <2>1. cleaning' \in BOOLEAN
    BY <1>2 DEF StopCleaner
  <2>2. QED  BY <1>2, <2>1 DEF StopCleaner
<1>3. CASE JoinCleaner \/ CloseConnection \/ SwapPending \/ Disconnected
  <2>1. CASE JoinCleaner
    BY <2>1 DEF JoinCleaner
  <2>2. CASE CloseConnection
    BY <2>2 DEF CloseConnection
  <2>3. CASE SwapPending
    BY <2>3 DEF SwapPending
  <2>4. CASE Disconnected
    BY <2>4 DEF Disconnected
  <2>5. QED  BY <1>3, <2>1, <2>2, <2>3, <2>4
<1>4. ASSUME NEW r \in Req, DropOne(r) \/ CallRefused(r) PROVE TypeOK'
  <2>1. CASE DropOne(r)
    BY <2>1 DEF DropOne
  <2>2. CASE CallRefused(r)
    BY <2>2 DEF CallRefused
  <2>3. QED  BY <1>4, <2>1, <2>2
<1>5. ASSUME NEW r \in Req, CallChecked(r) \/ CallRegister(r) \/ DeadlinePasses(r)
      PROVE  TypeOK'
  BY <1>5 DEF CallChecked, CallRegister, DeadlinePasses
<1>6. ASSUME NEW r \in Req, CallSend(r) PROVE TypeOK'
  <2>1. aborted' \in BOOLEAN
    BY <1>6 DEF CallSend
  <2>2. QED  BY <1>6, <2>1 DEF CallSend
<1>7. ASSUME NEW r \in Req, SyncReturn(r) PROVE TypeOK'
  BY <1>7 DEF SyncReturn
<1>8. ASSUME NEW g \in Gen, StartLoop(g) \/ ResetConnection(g) \/ PeerCloses(g)
      PROVE  TypeOK'
  <2>1. CASE StartLoop(g)
    BY <2>1 DEF StartLoop
  <2>2. CASE ResetConnection(g)
    BY <2>2 DEF ResetConnection
  <2>3. CASE PeerCloses(g)
    BY <2>3 DEF PeerCloses
  <2>4. QED  BY <1>8, <2>1, <2>2, <2>3
<1>9. ASSUME NEW g \in Gen, NEW partial \in BOOLEAN, on_disconnect(g, partial)
      PROVE  TypeOK'
  <2>1. garbled' \in BOOLEAN
    BY <1>9 DEF on_disconnect
  <2>2. QED  BY <1>9, <2>1 DEF on_disconnect
<1>10. ASSUME NEW r \in Req, FailOne(r) PROVE TypeOK'
  BY <1>10 DEF FailOne
<1>11. ASSUME NEW g \in Gen, NEW r \in Req, on_message(g, r) PROVE TypeOK'
  BY <1>11 DEF on_message
<1>12. CASE Sweep \/ CleanerEnds
  BY <1>12 DEF Sweep, CleanerEnds
<1>13. ASSUME NEW r \in Req, TimeoutOne(r) PROVE TypeOK'
  BY <1>13 DEF TimeoutOne
<1>14. CASE UNCHANGED vars
  BY <1>14 DEF vars
<1> QED
  BY <1>1, <1>2, <1>3, <1>4, <1>5, <1>6, <1>7, <1>8, <1>9, <1>10, <1>11,
     <1>12, <1>13, <1>14
  DEF Next, OwnerStep, CallStep, IoStep, CleanerStep, Finished

-----------------------------------------------------------------------------
\* One read loop at a time, and lists that are empty when a thread fills them.
LEMMA LoopStep == IInv /\ [Next]_vars => (OneLoop /\ OneOwner)'
<1> DEFINE Goal == (OneLoop /\ OneOwner)'
<1> SUFFICES ASSUME IInv, [Next]_vars PROVE Goal
  OBVIOUS
<1> USE RpcAssumption DEF IInv, TypeOK, OneLoop, OneOwner, Gen, connVars, placeVars, threadVars
<1>1. CASE connect
  BY <1>1 DEF connect
<1>2. CASE StopCleaner \/ JoinCleaner \/ CloseConnection \/ SwapPending \/ Disconnected
  BY <1>2 DEF StopCleaner, JoinCleaner, CloseConnection, SwapPending, Disconnected
<1>3. ASSUME NEW r \in Req,
             \/ DropOne(r) \/ CallRefused(r) \/ CallChecked(r) \/ CallRegister(r)
             \/ CallSend(r) \/ SyncReturn(r) \/ DeadlinePasses(r) \/ TimeoutOne(r)
      PROVE  Goal
  BY <1>3 DEF DropOne, CallRefused, CallChecked, CallRegister, CallSend, SyncReturn,
              DeadlinePasses, TimeoutOne
<1>4. ASSUME NEW r \in Req, FailOne(r) PROVE Goal
  BY <1>4 DEF FailOne
<1>5. ASSUME NEW g \in Gen, StartLoop(g) PROVE Goal
  BY <1>5 DEF StartLoop
<1>6. ASSUME NEW g \in Gen, ResetConnection(g) PROVE Goal
  BY <1>6 DEF ResetConnection
<1>7. ASSUME NEW g \in Gen, PeerCloses(g) PROVE Goal
  BY <1>7 DEF PeerCloses
<1>8. ASSUME NEW g \in Gen, NEW partial \in BOOLEAN, on_disconnect(g, partial)
      PROVE  Goal
  BY <1>8 DEF on_disconnect
<1>9. ASSUME NEW g \in Gen, NEW r \in Req, on_message(g, r) PROVE Goal
  BY <1>9 DEF on_message
<1>10. CASE Sweep \/ CleanerEnds
  BY <1>10 DEF Sweep, CleanerEnds
<1>11. CASE UNCHANGED vars
  BY <1>11 DEF vars
<1> QED
  BY <1>1, <1>2, <1>3, <1>4, <1>5, <1>6, <1>7, <1>8, <1>9, <1>10, <1>11
  DEF Next, OwnerStep, CallStep, IoStep, CleanerStep, Finished

\* Each step moves a request to a list of one thread, or answers it and takes it
\* out of its place.
LEMMA PlaceStep == IInv /\ [Next]_vars => (Apart /\ Accounted)'
<1> DEFINE Goal == (Apart /\ Accounted)'
<1> SUFFICES ASSUME IInv, [Next]_vars PROVE Goal
  OBVIOUS
<1> USE DEF IInv, TypeOK, Apart, Accounted, Held, Answer, connVars, placeVars, threadVars
<1>1. CASE \/ connect \/ StopCleaner \/ JoinCleaner \/ CloseConnection \/ Disconnected
           \/ CleanerEnds
  BY <1>1 DEF connect, StopCleaner, JoinCleaner, CloseConnection, Disconnected, CleanerEnds
<1>2. CASE SwapPending
  <2>1. dropping = {}
    BY <1>2 DEF SwapPending, OneOwner
  <2>2. QED  BY <1>2, <2>1 DEF SwapPending
<1>3. ASSUME NEW r \in Req, DropOne(r) \/ FailOne(r) \/ TimeoutOne(r)
      PROVE  Goal
  BY <1>3 DEF DropOne, FailOne, TimeoutOne
<1>4. ASSUME NEW r \in Req, CallRefused(r) \/ CallChecked(r) PROVE Goal
  BY <1>4 DEF CallRefused, CallChecked
<1>5. ASSUME NEW r \in Req, CallRegister(r) PROVE Goal
  BY <1>5 DEF CallRegister
<1>6. ASSUME NEW r \in Req, CallSend(r) PROVE Goal
  BY <1>6 DEF CallSend
<1>7. ASSUME NEW r \in Req, SyncReturn(r) \/ DeadlinePasses(r) PROVE Goal
  BY <1>7 DEF SyncReturn, DeadlinePasses
<1>8. ASSUME NEW g \in Gen, StartLoop(g) \/ ResetConnection(g) \/ PeerCloses(g)
      PROVE  Goal
  BY <1>8 DEF StartLoop, ResetConnection, PeerCloses
<1>9. ASSUME NEW g \in Gen, NEW partial \in BOOLEAN, on_disconnect(g, partial)
      PROVE  Goal
  <2>1. failing = {}
    BY <1>9 DEF on_disconnect, OneLoop
  <2>2. QED  BY <1>9, <2>1 DEF on_disconnect
<1>10. ASSUME NEW g \in Gen, NEW r \in Req, on_message(g, r) PROVE Goal
  BY <1>10 DEF on_message
<1>11. CASE Sweep
  BY <1>11 DEF Sweep
<1>12. CASE UNCHANGED vars
  BY <1>12 DEF vars
<1> QED
  BY <1>1, <1>2, <1>3, <1>4, <1>5, <1>6, <1>7, <1>8, <1>9, <1>10, <1>11, <1>12
  DEF Next, OwnerStep, CallStep, IoStep, CleanerStep, Finished

\* IInv holds in every reachable state.
THEOREM Inductive == Spec => []IInv
<1>1. IInv /\ [Next]_vars => IInv'
  BY TypeStep, LoopStep, PlaceStep DEF IInv
<1> QED  BY InitSound, <1>1, PTL DEF Spec

-----------------------------------------------------------------------------
\* Places that are apart hold a request at most once between them.
LEMMA PlacesCounted ==
  ASSUME Apart, NEW r
  PROVE  Cardinality({p \in {"pending", "failing", "dropping", "sweeping"} :
                \/ p = "pending" /\ r \in pending
                \/ p = "failing" /\ r \in failing
                \/ p = "dropping" /\ r \in dropping
                \/ p = "sweeping" /\ r \in sweeping})
         = IF Held(r) THEN 1 ELSE 0
<1> DEFINE P == {p \in {"pending", "failing", "dropping", "sweeping"} :
                \/ p = "pending" /\ r \in pending
                \/ p = "failing" /\ r \in failing
                \/ p = "dropping" /\ r \in dropping
                \/ p = "sweeping" /\ r \in sweeping}
<1>1. CASE ~Held(r)
  <2>1. P = {}
    BY <1>1 DEF Held
  <2>2. QED  BY <1>1, <2>1, FS_EmptySet
<1>2. CASE Held(r)
  <2>1. PICK q : P = {q}
    <3>1. CASE r \in pending
      <4>1. P = {"pending"}
        BY <3>1 DEF Apart
      <4>2. QED  BY <4>1
    <3>2. CASE r \in failing
      <4>1. P = {"failing"}
        BY <3>2 DEF Apart
      <4>2. QED  BY <4>1
    <3>3. CASE r \in dropping
      <4>1. P = {"dropping"}
        BY <3>3 DEF Apart
      <4>2. QED  BY <4>1
    <3>4. CASE r \in sweeping
      <4>1. P = {"sweeping"}
        BY <3>4 DEF Apart
      <4>2. QED  BY <4>1
    <3>5. QED  BY <1>2, <3>1, <3>2, <3>3, <3>4 DEF Held
  <2>2. Cardinality({q}) = 1
    BY FS_Singleton
  <2>3. QED  BY <1>2, <2>1, <2>2
<1> QED  BY <1>1, <1>2

\* A callback is called exactly once: a response, a time-out, a lost connection
\* and a disconnect that race for a request cannot share it, and none loses it.
THEOREM CalledOnce == Spec => []CallsSound
<1>1. IInv => CallsSound
  <2> SUFFICES ASSUME IInv PROVE AnsweredOnce
    BY DEF IInv, CallsSound
  <2> SUFFICES ASSUME NEW r \in Req
               PROVE  answers[r] + (IF Held(r) THEN 1 ELSE 0)
                        = IF cpc[r] \in {"registered", "done"} THEN 1 ELSE 0
    BY PlacesCounted DEF IInv, AnsweredOnce
  <2>1. answers[r] \in Nat
    BY DEF IInv, TypeOK
  <2>2. QED  BY <2>1 DEF IInv, Accounted
<1> QED  BY Inductive, <1>1, PTL

\* An answer is final: no step takes one back or gives a second one.
AnswersKept ==
    \A r \in Req : answers'[r] = answers[r] \/ (answers[r] = 0 /\ answers'[r] = 1)

\* A step calls one callback or none.
LEMMA AnswerStep ==
  ASSUME [Next]_vars
  PROVE  answers' = answers \/ \E r \in Req : Answer(r)
BY DEF connVars, placeVars, threadVars, vars, Next, connect, StopCleaner, OwnerStep,
       JoinCleaner, CloseConnection, SwapPending, DropOne, Disconnected, CallRefused,
       CallChecked, CallStep, CallRegister, CallSend, SyncReturn, DeadlinePasses,
       IoStep, StartLoop, ResetConnection, on_disconnect, FailOne, on_message,
       PeerCloses, CleanerStep, Sweep, TimeoutOne, CleanerEnds, Finished

\* Whichever thread answers, it answers a request that had no answer.
THEOREM AnswersFinal == Spec => [][AnswersKept]_vars
<1>1. ASSUME IInv, IInv', [Next]_vars PROVE [AnswersKept]_vars
  <2> SUFFICES ASSUME NEW r \in Req
               PROVE  answers'[r] = answers[r] \/ (answers[r] = 0 /\ answers'[r] = 1)
    BY DEF AnswersKept
  <2>1. answers \in [Req -> Nat] /\ answers[r] \in {0, 1} /\ answers'[r] \in {0, 1}
    BY <1>1 DEF IInv, TypeOK, Accounted
  <2>2. answers'[r] = answers[r] \/ answers'[r] = answers[r] + 1
    <3>1. answers' = answers \/ \E q \in Req : Answer(q)
      BY <1>1, AnswerStep
    <3>2. QED  BY <2>1, <3>1 DEF Answer
  <2>3. QED  BY <2>1, <2>2
<1> QED  BY Inductive, <1>1, PTL DEF Spec

-----------------------------------------------------------------------------
(* Gateway.                                                                *)

\* A loop is posted once, and waits in the queue until a thread takes it.
QueueHoldsPosted ==
    /\ \A i \in 1..Len(queue) : readLoop[queue[i]] = "queued"
    /\ \A i, j \in 1..Len(queue) : queue[i] = queue[j] => i = j

\* backend_to_client names only connections whose loop was posted and has not
\* ended: a fresh one can be entered, an ended one is gone.
MappedIsOpen ==
    \A b \in GW!Backend : readLoop[b] \in {"none", "over"} => backend_to_client[b] = GW!None

\* The record of the request each client is waiting for.
RequestTyped ==
    request \in [Client -> [at : {"client", "socket", "found", "backend", "reply", "lost"},
                            by : GW!Backend \cup {GW!None}]]

GatewayInv == GW!TypeOK /\ RequestTyped /\ GW!ForwardMapsAgree /\ QueueHoldsPosted /\ MappedIsOpen

-----------------------------------------------------------------------------
\* No backend connection is a client, nor the absence of one.
LEMMA ConnectionsApart ==
  ASSUME GW!GatewayAssumption
  PROVE  /\ \A c \in Client : c # GW!None /\ c \notin GW!Backend /\ c \in GW!Connection
         /\ \A b \in GW!Backend : b # GW!None /\ b \notin Client /\ b \in GW!Connection
<1>1. ASSUME NEW b \in GW!Backend PROVE b # GW!None
  <2>1. PICK c \in Client, n \in 1..MaxDeath + 1 : b = <<c, n>>
    BY DEF GW!Backend
  <2>2. QED  BY <2>1 DEF GW!None
<1>2. QED  BY <1>1 DEF GW!GatewayAssumption, GW!Connection

\* A gateway that has accepted nobody.
LEMMA GatewayInit == ASSUME GW!GatewayAssumption PROVE GW!Init => GatewayInv
<1> SUFFICES ASSUME GW!Init PROVE GatewayInv
  OBVIOUS
<1>1. queue \in Seq(GW!Connection) /\ Len(queue) = 0
  BY DEF GW!Init
<1>2. stopped \in BOOLEAN
  BY DEF GW!Init
<1>3. RequestTyped
  BY DEF GW!Init, RequestTyped
<1>4. GW!TypeOK
  BY <1>1, <1>2, GW!GatewayAssumption DEF GW!Init, GW!TypeOK, GW!GatewayAssumption
<1>5. GW!ForwardMapsAgree
  BY ConnectionsApart, GW!GatewayAssumption DEF GW!Init, GW!ForwardMapsAgree, GW!Connection
<1>6. QueueHoldsPosted /\ MappedIsOpen
  BY <1>1 DEF GW!Init, QueueHoldsPosted, MappedIsOpen
<1> QED  BY <1>3, <1>4, <1>5, <1>6 DEF GatewayInv

\* Every step keeps the types.
LEMMA GatewayTyped ==
  ASSUME GW!GatewayAssumption
  PROVE  GW!TypeOK /\ RequestTyped /\ [GW!Next]_(GW!gatewayVars) => GW!TypeOK' /\ RequestTyped'
<1> SUFFICES ASSUME GW!TypeOK, RequestTyped, [GW!Next]_(GW!gatewayVars)
             PROVE  GW!TypeOK' /\ RequestTyped'
  OBVIOUS
<1> USE GW!GatewayAssumption, ConnectionsApart DEF GW!TypeOK, RequestTyped, GW!Moved, GW!maps
<1>1. ASSUME NEW c \in Client, GW!accept(c) PROVE GW!TypeOK' /\ RequestTyped'
  <2>1. queue' \in Seq(GW!Connection)
    BY <1>1 DEF GW!accept
  <2>2. QED  BY <1>1, <2>1 DEF GW!accept
<1>2. CASE GW!run
  <2>1. Head(queue) \in GW!Connection /\ queue' \in Seq(GW!Connection)
    BY <1>2 DEF GW!run
  <2>2. QED  BY <1>2, <2>1 DEF GW!run
<1>3. CASE GW!stop
  <2>1. stopped' \in BOOLEAN
    BY <1>3 DEF GW!stop
  <2>2. QED  BY <1>3, <2>1 DEF GW!stop
<1>4. ASSUME NEW c \in Client, GW!ClientAsks(c) PROVE GW!TypeOK' /\ RequestTyped'
  <2>1. asked' \in [Client -> 0..MaxRequest]
    BY <1>4 DEF GW!ClientAsks, GW!GatewayAssumption
  <2>2. QED  BY <1>4, <2>1 DEF GW!ClientAsks
<1>5. ASSUME NEW c \in Client, NEW b \in GW!Backend, GW!connect_backend(c, b)
      PROVE  GW!TypeOK' /\ RequestTyped'
  <2>1. queue' \in Seq(GW!Connection)
    BY <1>5 DEF GW!connect_backend
  <2>2. QED  BY <1>5, <2>1 DEF GW!connect_backend
<1>6. ASSUME NEW c \in Client, GW!ForwardFound(c) PROVE GW!TypeOK' /\ RequestTyped'
  BY <1>6 DEF GW!ForwardFound
<1>7. ASSUME NEW c \in Client, GW!ForwardSend(c) PROVE GW!TypeOK' /\ RequestTyped'
  <2>1. request[c].by \in GW!Backend \cup {GW!None}
    OBVIOUS
  <2>2. PICK at \in {"lost", "backend"} : request' = [request EXCEPT ![c] = [at |-> at, by |-> request[c].by]]
    <3>1. CASE request[c].by \in closed \cup ended
      <4>1. request' = [request EXCEPT ![c] = [at |-> "lost", by |-> request[c].by]]
        BY <1>7, <3>1 DEF GW!ForwardSend
      <4>2. QED  BY <4>1
    <3>2. CASE request[c].by \notin closed \cup ended
      <4>1. request' = [request EXCEPT ![c] = [at |-> "backend", by |-> request[c].by]]
        BY <1>7, <3>2 DEF GW!ForwardSend
      <4>2. QED  BY <4>1
    <3>3. QED  BY <3>1, <3>2
  <2>3. RequestTyped'
    BY <2>1, <2>2
  <2>4. UNCHANGED <<ioThreads, queue, readLoop, closed, GW!maps, asked, ended, stopped>>
    BY <1>7 DEF GW!ForwardSend
  <2>5. QED  BY <2>3, <2>4
<1>8. ASSUME NEW c \in Client, GW!BackendAnswers(c) PROVE GW!TypeOK' /\ RequestTyped'
  BY <1>8 DEF GW!BackendAnswers
<1>9. ASSUME NEW c \in Client, GW!ConnectFails(c) \/ GW!on_backend_message(c)
      PROVE  GW!TypeOK' /\ RequestTyped'
  <2>1. CASE GW!ConnectFails(c)
    BY <2>1 DEF GW!ConnectFails
  <2>2. CASE GW!on_backend_message(c)
    BY <2>2 DEF GW!on_backend_message
  <2>3. QED  BY <1>9, <2>1, <2>2
<1>10. ASSUME NEW c \in Client, GW!ClientLoopEnds(c) PROVE GW!TypeOK' /\ RequestTyped'
  BY <1>10 DEF GW!ClientLoopEnds
<1>11. ASSUME NEW x \in GW!Connection, GW!PeerEnds(x) PROVE GW!TypeOK' /\ RequestTyped'
  BY <1>11 DEF GW!PeerEnds
<1>12. ASSUME NEW b \in GW!Backend, GW!BackendLoopEnds(b) PROVE GW!TypeOK' /\ RequestTyped'
  BY <1>12 DEF GW!BackendLoopEnds, GW!on_backend_close
<1>13. CASE UNCHANGED GW!gatewayVars
  BY <1>13 DEF GW!gatewayVars
<1>14. \A c \in Client : {c} \X (1..MaxDeath + 1) \subseteq GW!Backend
  BY DEF GW!Backend
<1> QED
  BY <1>1, <1>2, <1>3, <1>4, <1>5, <1>6, <1>7, <1>8, <1>9, <1>10, <1>11, <1>12,
     <1>13, <1>14
  DEF GW!Next

-----------------------------------------------------------------------------
\* A posted loop is queued once.
LEMMA QueueStep ==
  ASSUME GW!GatewayAssumption
  PROVE  GatewayInv /\ [GW!Next]_(GW!gatewayVars) => QueueHoldsPosted'
<1> SUFFICES ASSUME GatewayInv, [GW!Next]_(GW!gatewayVars) PROVE QueueHoldsPosted'
  OBVIOUS
<1>0. /\ queue \in Seq(GW!Connection) /\ Len(queue) \in Nat
      /\ readLoop \in [GW!Connection -> {"none", "queued", "reading", "over"}]
      /\ \A i \in 1..Len(queue) : queue[i] \in GW!Connection /\ readLoop[queue[i]] = "queued"
      /\ \A i, j \in 1..Len(queue) : queue[i] = queue[j] => i = j
  BY DEF GatewayInv, GW!TypeOK, QueueHoldsPosted
<1>1. ASSUME NEW x \in GW!Connection, readLoop[x] = "none", queue' = Append(queue, x),
             readLoop' = [readLoop EXCEPT ![x] = "queued"]
      PROVE  QueueHoldsPosted'
  <2>1. /\ Len(queue') = Len(queue) + 1
        /\ \A i \in 1..Len(queue) : queue'[i] = queue[i]
        /\ queue'[Len(queue) + 1] = x
    BY <1>0, <1>1
  <2>2. \A i \in 1..Len(queue) : queue[i] # x
    BY <1>0, <1>1
  <2>3. QED  BY <1>0, <1>1, <2>1, <2>2 DEF QueueHoldsPosted
<1>2. CASE GW!run
  <2>1. /\ Len(queue) \in Nat \ {0}
        /\ Len(queue') = Len(queue) - 1
        /\ \A i \in 1..Len(queue') : queue'[i] = queue[i + 1]
        /\ Head(queue) = queue[1]
        /\ readLoop' = [readLoop EXCEPT ![queue[1]] = "reading"]
    BY <1>0, <1>2 DEF GW!run
  <2>2. \A i \in 1..Len(queue') : i + 1 \in 1..Len(queue) /\ queue[i + 1] # queue[1]
    BY <1>0, <2>1
  <2>3. ASSUME NEW i \in 1..Len(queue') PROVE readLoop'[queue'[i]] = "queued"
    <3>1. queue'[i] = queue[i + 1] /\ i + 1 \in 1..Len(queue) /\ queue[i + 1] # queue[1]
      BY <2>1, <2>2
    <3>2. queue[i + 1] \in GW!Connection /\ readLoop[queue[i + 1]] = "queued"
      BY <1>0, <3>1
    <3>3. QED  BY <1>0, <2>1, <3>1, <3>2
  <2>4. ASSUME NEW i \in 1..Len(queue'), NEW j \in 1..Len(queue'), queue'[i] = queue'[j] PROVE i = j
    <3>1. queue[i + 1] = queue[j + 1] /\ i + 1 \in 1..Len(queue) /\ j + 1 \in 1..Len(queue)
      BY <2>1, <2>2, <2>4
    <3>2. i + 1 = j + 1
      BY <1>0, <3>1
    <3>3. QED  BY <2>1, <3>2
  <2>5. QED  BY <2>3, <2>4 DEF QueueHoldsPosted
<1>3. ASSUME NEW x \in GW!Connection, readLoop[x] = "reading",
             readLoop' = [readLoop EXCEPT ![x] = "over"], queue' = queue
      PROVE  QueueHoldsPosted'
  BY <1>0, <1>3 DEF QueueHoldsPosted
<1>4. ASSUME UNCHANGED <<queue, readLoop>> PROVE QueueHoldsPosted'
  BY <1>0, <1>4 DEF QueueHoldsPosted
<1>5. ASSUME NEW c \in Client, NEW b \in {c} \X (1..MaxDeath + 1), GW!connect_backend(c, b)
      PROVE  QueueHoldsPosted'
  <2>1. b \in GW!Connection
    BY DEF GW!Connection, GW!Backend
  <2>2. QED  BY <1>1, <1>5, <2>1 DEF GW!connect_backend
<1>6. ASSUME NEW c \in Client, GW!accept(c) \/ GW!ClientLoopEnds(c) PROVE QueueHoldsPosted'
  BY <1>1, <1>3, <1>6 DEF GW!accept, GW!ClientLoopEnds, GW!Connection
<1>7. ASSUME NEW b \in GW!Backend, GW!BackendLoopEnds(b) PROVE QueueHoldsPosted'
  BY <1>3, <1>7 DEF GW!BackendLoopEnds, GW!Connection
<1> QED
  BY <1>2, <1>4, <1>5, <1>6, <1>7
  DEF GW!Next, GW!gatewayVars, GW!stop, GW!ClientAsks, GW!ForwardFound, GW!ConnectFails, GW!ForwardSend,
      GW!BackendAnswers, GW!on_backend_message, GW!PeerEnds

\* The maps change together, and a connection is closed with the entry it loses.
LEMMA MapsStep ==
  ASSUME GW!GatewayAssumption
  PROVE  GatewayInv /\ [GW!Next]_(GW!gatewayVars) => (GW!ForwardMapsAgree /\ MappedIsOpen)'
<1> DEFINE Goal == (GW!ForwardMapsAgree /\ MappedIsOpen)'
<1> SUFFICES ASSUME GatewayInv, [GW!Next]_(GW!gatewayVars) PROVE Goal
  OBVIOUS
<1> USE GW!GatewayAssumption, ConnectionsApart
    DEF GatewayInv, GW!TypeOK, GW!ForwardMapsAgree, MappedIsOpen, GW!maps
<1>1. ASSUME NEW c \in Client, GW!accept(c) PROVE Goal
  BY <1>1 DEF GW!accept
<1>2. CASE GW!run
  <2>1. Head(queue) \in GW!Connection /\ readLoop[Head(queue)] = "queued"
    <3>1. Len(queue) \in Nat \ {0} /\ Head(queue) = queue[1]
      BY <1>2 DEF GW!run
    <3>2. QED  BY <3>1 DEF QueueHoldsPosted
  <2>2. readLoop' = [readLoop EXCEPT ![Head(queue)] = "reading"] /\ UNCHANGED <<GW!maps, closed>>
    BY <1>2 DEF GW!run
  <2>3. QED  BY <2>1, <2>2
<1>3. ASSUME NEW c \in Client, NEW b \in GW!Backend, GW!connect_backend(c, b) PROVE Goal
  <2>1. /\ backend_to_client[b] = GW!None /\ client_to_backend[c] = GW!None
        /\ readLoop[b] = "none" /\ readLoop[c] = "reading"
        /\ client_to_backend' = [client_to_backend EXCEPT ![c] = b]
        /\ backend_to_client' = [backend_to_client EXCEPT ![b] = c]
        /\ readLoop' = [readLoop EXCEPT ![b] = "queued"]
        /\ closed' = closed
    BY <1>3 DEF GW!connect_backend
  <2>2. /\ \A d \in Client : client_to_backend[d] # b
        /\ \A d \in GW!Backend : backend_to_client[d] # c
    BY <2>1
  <2>3. QED  BY <2>1, <2>2
<1>4. ASSUME NEW b \in GW!Backend, GW!BackendLoopEnds(b) PROVE Goal
  <2>1. /\ readLoop' = [readLoop EXCEPT ![b] = "over"] /\ closed' = closed \cup {b}
        /\ backend_to_client' = [backend_to_client EXCEPT ![b] = GW!None]
        /\ client_to_backend' = [c \in Client |->
                IF backend_to_client[b] = c THEN GW!None ELSE client_to_backend[c]]
    BY <1>4 DEF GW!BackendLoopEnds, GW!on_backend_close
  <2>2. QED  BY <2>1
<1>5. ASSUME NEW c \in Client, GW!ClientLoopEnds(c) PROVE Goal
  <2>1. /\ readLoop' = [readLoop EXCEPT ![c] = "over"]
        /\ closed' = closed \cup {c} \cup ({client_to_backend[c]} \ {GW!None})
        /\ backend_to_client' = [b \in GW!Backend |->
                IF client_to_backend[c] = b THEN GW!None ELSE backend_to_client[b]]
        /\ client_to_backend' = [client_to_backend EXCEPT ![c] = GW!None]
    BY <1>5 DEF GW!ClientLoopEnds
  <2>2. QED  BY <2>1
<1>6. ASSUME UNCHANGED <<readLoop, closed, GW!maps>> PROVE Goal
  BY <1>6
<1>7. \A c \in Client : {c} \X (1..MaxDeath + 1) \subseteq GW!Backend
  BY DEF GW!Backend
<1> QED
  BY <1>1, <1>2, <1>3, <1>4, <1>5, <1>6, <1>7
  DEF GW!Next, GW!gatewayVars, GW!stop, GW!ClientAsks, GW!ForwardFound, GW!ConnectFails, GW!ForwardSend,
      GW!BackendAnswers, GW!on_backend_message, GW!PeerEnds

-----------------------------------------------------------------------------
\* For any number of clients, threads and dying backends: the maps of the
\* gateway agree, and an orphaned backend connection is closed.
THEOREM MapsAgree == GW!Spec => []ForwardMapsAgree
<1>1. GW!Init => GatewayInv
  BY GatewayInit, ClusterAssumption
<1>2. GatewayInv /\ [GW!Next]_(GW!gatewayVars) => GatewayInv'
  BY GatewayTyped, QueueStep, MapsStep, ClusterAssumption DEF GatewayInv
<1>3. GatewayInv => ForwardMapsAgree
  BY DEF GatewayInv, ForwardMapsAgree
<1> QED  BY <1>1, <1>2, <1>3, PTL DEF GW!Spec

-----------------------------------------------------------------------------
\* Where the message before the i-th ends, and with it where the i-th begins.
End(i) == IF i = 0 THEN 0 ELSE sent[i].end

\* The bodies that were sent fit the length field.
Fits == \A i \in DOMAIN sent : sent[i].size < LenMod

\* The stream is the messages one after the other, in their order.
StreamInOrder ==
    /\ End(Len(sent)) = Len(stream)
    /\ \A i \in DOMAIN sent :
        /\ sent[i].end = End(i - 1) + 2 + sent[i].size
        /\ sent[i].end <= Len(stream)
        /\ stream[End(i - 1) + 1] = [unit |-> "cmd", val |-> sent[i].cmd]
        /\ stream[End(i - 1) + 2] = [unit |-> "len", val |-> sent[i].size % LenMod]
        /\ sent[i].size # 0 => stream[End(i - 1) + 3] = [unit |-> "body", val |-> sent[i].id]
        /\ sent[i].size = 0 => sent[i].id = 0
    /\ \A i, j \in DOMAIN sent : i < j => sent[i].end < sent[j].end

\* The buffer is the last part of what has arrived.
BufferIsSuffix ==
    /\ Len(buffer) <= arrived
    /\ \A k \in DOMAIN buffer : buffer[k] = stream[arrived - Len(buffer) + k]

\* The messages that were parsed so far.
Parsed == Len(handled) + Len(messages)

\* The parser stands at the end of a message, and what it has read are the messages before.
ReadsMessages ==
    /\ ~misread
    /\ Parsed <= Len(sent)
    /\ arrived - Len(buffer) + head = End(Parsed)
    /\ \A i \in DOMAIN handled : handled[i].id = sent[i].id
    /\ \A i \in DOMAIN messages : messages[i].id = sent[Len(handled) + i].id
    /\ stage # "feed" /\ Parsed < Len(sent) => arrived < End(Parsed + 1)

FrameInv ==
    /\ FR!TypeOK /\ StreamInOrder /\ BufferIsSuffix
    /\ stage = "wait" => messages = <<>>
    /\ Fits => ReadsMessages

-----------------------------------------------------------------------------
\* What serialize makes of a message: a header and a body as long as it says.
LEMMA Serialized ==
  ASSUME FR!FramingAssumption,
         NEW m \in [cmd : Method, size : Nat, id : Nat, end : Nat]
  PROVE  /\ FR!serialize(m) \in Seq(FR!Unit)
         /\ Len(FR!serialize(m)) = 2 + m.size
         /\ FR!serialize(m)[1] = [unit |-> "cmd", val |-> m.cmd]
         /\ FR!serialize(m)[2] = [unit |-> "len", val |-> m.size % LenMod]
         /\ m.size # 0 => FR!serialize(m)[3] = [unit |-> "body", val |-> m.id]
<1> DEFINE U(k) == IF k = 1 THEN [unit |-> "cmd", val |-> m.cmd]
                   ELSE IF k = 2 THEN [unit |-> "len", val |-> m.size % LenMod]
                   ELSE [unit |-> "body", val |-> IF k = 3 THEN m.id ELSE 0]
<1>0. PICK n \in Nat : n = 2 + m.size
  OBVIOUS
<1>1. FR!serialize(m) = [k \in 1..n |-> U(k)]
  BY <1>0 DEF FR!serialize
<1>2. ASSUME NEW k \in 1..n PROVE U(k) \in FR!Unit
  <2>1. m.size % LenMod \in Nat
    BY DEF FR!FramingAssumption
  <2>2. QED  BY <2>1 DEF FR!Unit
<1>3. FR!serialize(m) \in Seq(FR!Unit) /\ Len(FR!serialize(m)) = n
  <2> HIDE DEF U
  <2> QED  BY <1>1, <1>2
<1>4. 1 \in 1..n /\ 2 \in 1..n /\ (m.size # 0 => 3 \in 1..n)
  BY <1>0
<1>5. ASSUME NEW k \in 1..n PROVE FR!serialize(m)[k] = U(k)
  BY <1>1
<1> QED  BY <1>0, <1>3, <1>4, <1>5

\* What the loop of feed reads at its position.
LEMMA UnitAt ==
  ASSUME FR!TypeOK, FR!Whole
  PROVE  /\ FR!body_len \in Nat
         /\ buffer[head + 1].val \in Method
         /\ head + 2 + FR!body_len \in 0..Len(buffer)
         /\ FR!body_len # 0 => buffer[head + 3].val \in Nat \cup Method
<1>1. head + 1 \in 1..Len(buffer) /\ head + 2 \in 1..Len(buffer)
  BY DEF FR!TypeOK, FR!Whole, FR!Avail
<1>2. buffer[head + 1] \in FR!Unit /\ buffer[head + 2] \in FR!Unit
  BY <1>1 DEF FR!TypeOK
<1>3. buffer[head + 1].unit = "cmd" /\ buffer[head + 2].unit = "len"
  BY DEF FR!Whole, FR!Misaligned
<1>4. FR!body_len \in Nat /\ buffer[head + 1].val \in Method
  BY <1>2, <1>3 DEF FR!Unit, FR!body_len
<1>5. head + 2 + FR!body_len \in 0..Len(buffer)
  BY <1>4 DEF FR!TypeOK, FR!Whole, FR!Avail
<1>6. ASSUME FR!body_len # 0 PROVE buffer[head + 3].val \in Nat \cup Method
  <2>1. head + 3 \in 1..Len(buffer)
    BY <1>4, <1>5, <1>6 DEF FR!TypeOK
  <2>2. buffer[head + 3] \in FR!Unit
    BY <2>1 DEF FR!TypeOK
  <2>3. QED  BY <2>2 DEF FR!Unit
<1> QED  BY <1>4, <1>5, <1>6

\* The types of Framing are kept by every step.
LEMMA FramingTyped == FR!FramingAssumption /\ FR!TypeOK /\ [FR!Next]_(FR!framingVars) => FR!TypeOK'
<1> SUFFICES ASSUME FR!FramingAssumption, FR!TypeOK, [FR!Next]_(FR!framingVars) PROVE FR!TypeOK'
  OBVIOUS
<1> USE DEF FR!TypeOK
<1>1. ASSUME NEW c \in Method, NEW n \in Sizes, FR!Send(c, n) PROVE FR!TypeOK'
  <2>1. n \in Nat
    BY DEF FR!FramingAssumption
  <2>2. PICK m \in [cmd : Method, size : Nat, id : Nat, end : Nat] :
            sent' = Append(sent, m) /\ stream' = stream \o FR!serialize(m)
    <3> DEFINE m == [cmd |-> c, size |-> n, id |-> IF n = 0 THEN 0 ELSE Len(sent) + 1,
                     end |-> Len(stream) + 2 + n]
    <3>1. m \in [cmd : Method, size : Nat, id : Nat, end : Nat]
      BY <2>1
    <3>2. sent' = Append(sent, m) /\ stream' = stream \o FR!serialize(m)
      BY <1>1 DEF FR!Send
    <3>3. QED  BY <3>1, <3>2
  <2>3. FR!serialize(m) \in Seq(FR!Unit)
    BY Serialized
  <2>4. stream' \in Seq(FR!Unit) /\ Len(stream') = Len(stream) + Len(FR!serialize(m))
    BY <2>2, <2>3, ConcatProperties
  <2>5. arrived' \in 0..Len(stream')
    BY <1>1, <2>3, <2>4 DEF FR!Send
  <2>6. sent' \in Seq([cmd : Method, size : Nat, id : Nat, end : Nat]) /\ Len(sent') <= MaxSent
    BY <1>1, <2>2 DEF FR!Send, FR!FramingAssumption
  <2>7. QED  BY <1>1, <2>4, <2>5, <2>6 DEF FR!Send
<1>2. ASSUME NEW c \in Method, FR!register_method(c) \/ FR!unregister_method(c) PROVE FR!TypeOK'
  BY <1>2 DEF FR!register_method, FR!unregister_method
<1>3. ASSUME NEW n \in 1..(Len(stream) - arrived), FR!on_message(n) PROVE FR!TypeOK'
  <2>1. arrived + n \in 0..Len(stream) /\ arrived + 1 \in 1..(Len(stream) + 1)
    BY DEF FR!TypeOK
  <2>2. SubSeq(stream, arrived + 1, arrived + n) \in Seq(FR!Unit)
    <3>1. \A k \in (arrived + 1)..(arrived + n) : stream[k] \in FR!Unit
      BY <2>1
    <3>2. QED  BY <2>1, <3>1, SubSeqProperties
  <2>3. buffer' \in Seq(FR!Unit) /\ Len(buffer') = Len(buffer) + Len(SubSeq(stream, arrived + 1, arrived + n))
    BY <1>3, <2>2, ConcatProperties DEF FR!on_message
  <2>4. head' \in 0..Len(buffer')
    BY <1>3, <2>2, <2>3 DEF FR!on_message
  <2>5. QED  BY <1>3, <2>1, <2>3, <2>4 DEF FR!on_message
<1>4. ASSUME FR!feed PROVE FR!TypeOK'
  <2>1. /\ FR!body_len \in Nat
        /\ buffer[head + 1].val \in Method
        /\ head + 2 + FR!body_len \in 0..Len(buffer)
        /\ FR!body_len # 0 => buffer[head + 3].val \in Nat \cup Method
    <3> USE DEF FR!feed
    <3> HIDE DEF FR!TypeOK
    <3> QED  BY <1>4, UnitAt
  <2>2. PICK m \in [cmd : Method, id : Nat \cup Method] : messages' = Append(messages, m)
    <3> DEFINE m == [cmd |-> buffer[head + 1].val,
                     id |-> IF FR!body_len = 0 THEN 0 ELSE buffer[head + 3].val]
    <3>1. m \in [cmd : Method, id : Nat \cup Method]
      BY <2>1
    <3>2. messages' = Append(messages, m)
      BY <1>4 DEF FR!feed
    <3>3. QED  BY <3>1, <3>2
  <2>3. head' \in 0..Len(buffer')
    BY <1>4, <2>1 DEF FR!feed
  <2>4. messages' \in Seq([cmd : Method, id : Nat \cup Method])
    BY <2>2, AppendProperties
  <2>5. QED  BY <1>4, <2>3, <2>4 DEF FR!feed
<1>5. ASSUME FR!feed_ends PROVE FR!TypeOK'
  <2>1. FR!Misaligned \in BOOLEAN
    BY DEF FR!Misaligned
  <2>2. misread' \in BOOLEAN
    BY <1>5, <2>1 DEF FR!feed_ends
  <2>3. buffer' \in Seq(FR!Unit) /\ head' \in 0..Len(buffer')
    <3>1. SubSeq(buffer, head + 1, Len(buffer)) \in Seq(FR!Unit)
      BY SubSeqProperties
    <3>2. CASE server = "router" /\ head >= CompactAt /\ 2 * head >= Len(buffer)
      <4>1. buffer' = SubSeq(buffer, head + 1, Len(buffer)) /\ head' = 0
        BY <1>5, <3>2 DEF FR!feed_ends, FR!compact_prefix
      <4>2. QED  BY <3>1, <4>1
    <3>3. CASE ~(server = "router" /\ head >= CompactAt /\ 2 * head >= Len(buffer))
      <4>1. buffer' = buffer /\ head' = head
        BY <1>5, <3>3 DEF FR!feed_ends, FR!compact_prefix
      <4>2. QED  BY <4>1
    <3>4. QED  BY <3>2, <3>3
  <2>4. QED  BY <1>5, <2>2, <2>3 DEF FR!feed_ends
<1>6. ASSUME FR!dispatch PROVE FR!TypeOK'
  <2>1. PICK s \in FR!Reply(Head(messages)) : handled' = Append(handled, [id |-> Head(messages).id, said |-> s])
    BY <1>6 DEF FR!dispatch
  <2>2. s \in {"answer", "exception", "unknown"}
    BY DEF FR!Reply
  <2>3. Head(messages) \in [cmd : Method, id : Nat \cup Method]
    BY <1>6, HeadTailProperties DEF FR!dispatch
  <2>4. messages' \in Seq([cmd : Method, id : Nat \cup Method])
    BY <1>6, HeadTailProperties DEF FR!dispatch
  <2>5. handled' \in Seq([id : Nat \cup Method, said : {"answer", "exception", "unknown"}])
    BY <2>1, <2>2, <2>3
  <2>6. QED  BY <1>6, <2>4, <2>5 DEF FR!dispatch
<1>7. ASSUME FR!Routed PROVE FR!TypeOK'
  BY <1>7 DEF FR!Routed
<1>8. ASSUME FR!EraseConsumed PROVE FR!TypeOK'
  <2>1. SubSeq(buffer, head + 1, Len(buffer)) \in Seq(FR!Unit)
    BY SubSeqProperties
  <2>2. buffer' \in Seq(FR!Unit) /\ head' \in 0..Len(buffer')
    BY <1>8, <2>1 DEF FR!EraseConsumed
  <2>3. QED  BY <1>8, <2>2 DEF FR!EraseConsumed
<1>9. ASSUME FR!on_disconnect PROVE FR!TypeOK'
  <2>1. conns' \in 1..MaxLink
    BY <1>9 DEF FR!on_disconnect, FR!FramingAssumption
  <2>2. ASSUME NEW S PROVE <<>> \in Seq(S) /\ Len(<<>>) = 0
    OBVIOUS
  <2>3. Len(<<>>) <= MaxSent /\ 0 \in 0..Len(<<>>)
    BY <2>2 DEF FR!FramingAssumption
  <2>4. sent' \in Seq([cmd : Method, size : Nat, id : Nat, end : Nat]) /\ Len(sent') <= MaxSent
    BY <1>9, <2>2, <2>3 DEF FR!on_disconnect
  <2>5. stream' \in Seq(FR!Unit) /\ arrived' \in 0..Len(stream') /\ buffer' \in Seq(FR!Unit) /\ head' \in 0..Len(buffer')
    BY <1>9, <2>2, <2>3 DEF FR!on_disconnect
  <2>6. handled' \in Seq([id : Nat \cup Method, said : {"answer", "exception", "unknown"}])
    BY <1>9, <2>2 DEF FR!on_disconnect
  <2>7. QED  BY <1>9, <2>1, <2>4, <2>5, <2>6 DEF FR!on_disconnect
<1>10. ASSUME UNCHANGED FR!framingVars PROVE FR!TypeOK'
  BY <1>10 DEF FR!framingVars
<1> QED  BY <1>1, <1>2, <1>3, <1>4, <1>5, <1>6, <1>7, <1>8, <1>9, <1>10 DEF FR!Next

-----------------------------------------------------------------------------
\* A message is appended whole to the stream, and those before stay where they are.
LEMMA SendExtends ==
  ASSUME FR!FramingAssumption, FR!TypeOK, NEW c \in Method, NEW n \in Sizes, FR!Send(c, n)
  PROVE  /\ n \in Nat
         /\ Len(sent') = Len(sent) + 1
         /\ \A i \in DOMAIN sent : sent'[i] = sent[i]
         /\ sent'[Len(sent) + 1].size = n
         /\ sent'[Len(sent) + 1].end = Len(stream) + 2 + n
         /\ n = 0 => sent'[Len(sent) + 1].id = 0
         /\ Len(stream') = Len(stream) + 2 + n
         /\ \A k \in DOMAIN stream : stream'[k] = stream[k]
         /\ stream'[Len(stream) + 1] = [unit |-> "cmd", val |-> sent'[Len(sent) + 1].cmd]
         /\ stream'[Len(stream) + 2] = [unit |-> "len", val |-> n % LenMod]
         /\ n # 0 => stream'[Len(stream) + 3] = [unit |-> "body", val |-> sent'[Len(sent) + 1].id]
<1> DEFINE M == [cmd : Method, size : Nat, id : Nat, end : Nat]
<1>0. /\ sent \in Seq(M) /\ stream \in Seq(FR!Unit)
      /\ Len(sent) \in Nat /\ Len(stream) \in Nat
      /\ DOMAIN sent = 1..Len(sent) /\ DOMAIN stream = 1..Len(stream)
  BY DEF FR!TypeOK
<1>1. n \in Nat
  BY DEF FR!FramingAssumption
<1>2. PICK m \in M :
        /\ sent' = Append(sent, m) /\ stream' = stream \o FR!serialize(m)
        /\ m.size = n /\ m.end = Len(stream) + 2 + n /\ (n = 0 => m.id = 0)
  <2> DEFINE m == [cmd |-> c, size |-> n, id |-> IF n = 0 THEN 0 ELSE Len(sent) + 1, end |-> Len(stream) + 2 + n]
  <2>1. m \in M
    BY <1>0, <1>1
  <2>2. sent' = Append(sent, m) /\ stream' = stream \o FR!serialize(m)
    BY DEF FR!Send
  <2>3. m.size = n /\ m.end = Len(stream) + 2 + n /\ (n = 0 => m.id = 0)
    OBVIOUS
  <2> HIDE DEF m
  <2>4. QED  BY <2>1, <2>2, <2>3
<1>3. Len(sent') = Len(sent) + 1 /\ (\A i \in DOMAIN sent : sent'[i] = sent[i]) /\ sent'[Len(sent) + 1] = m
  <2> HIDE DEF M
  <2> QED  BY <1>0, <1>2, AppendProperties
<1>4. PICK s \in Seq(FR!Unit) :
        /\ s = FR!serialize(m) /\ Len(s) = 2 + n
        /\ s[1] = [unit |-> "cmd", val |-> m.cmd] /\ s[2] = [unit |-> "len", val |-> n % LenMod]
        /\ n # 0 => s[3] = [unit |-> "body", val |-> m.id]
  BY <1>2, Serialized
<1>5. /\ Len(stream') = Len(stream) + 2 + n
      /\ \A k \in 1..(Len(stream) + 2 + n) :
            stream'[k] = IF k <= Len(stream) THEN stream[k] ELSE s[k - Len(stream)]
  <2>1. Len(stream) + Len(s) = Len(stream) + 2 + n
    BY <1>0, <1>1, <1>4
  <2>2. QED  BY <1>0, <1>2, <1>4, <2>1, ConcatProperties
<1>6. \A k \in DOMAIN stream : stream'[k] = stream[k]
  BY <1>0, <1>1, <1>5
<1>7. stream'[Len(stream) + 1] = s[1] /\ stream'[Len(stream) + 2] = s[2] /\ (n # 0 => stream'[Len(stream) + 3] = s[3])
  BY <1>0, <1>1, <1>5
<1> QED  BY <1>1, <1>2, <1>3, <1>4, <1>5, <1>6, <1>7

\* Steps other than those of the client leave the stream alone.
LEMMA StreamKept ==
  ASSUME [FR!Next]_(FR!framingVars), ~FR!on_disconnect,
         \A c \in Method, n \in Sizes : ~FR!Send(c, n)
  PROVE  sent' = sent /\ stream' = stream
BY DEF FR!Next, FR!framingVars, FR!register_method, FR!unregister_method, FR!on_message, FR!feed, FR!feed_ends,
       FR!dispatch, FR!Routed, FR!EraseConsumed

LEMMA StreamStep ==
  ASSUME FR!FramingAssumption, FR!TypeOK, StreamInOrder, [FR!Next]_(FR!framingVars)
  PROVE  StreamInOrder'
<1>1. ASSUME NEW c \in Method, NEW n \in Sizes, FR!Send(c, n) PROVE StreamInOrder'
  <2>1. PICK L \in Nat : L = Len(sent)
    BY DEF FR!TypeOK
  <2>2. PICK K \in Nat : K = Len(stream)
    BY DEF FR!TypeOK
  <2>3. /\ n \in Nat /\ Len(sent') = L + 1
        /\ \A i \in DOMAIN sent : sent'[i] = sent[i]
        /\ sent'[L + 1].size = n /\ sent'[L + 1].end = K + 2 + n /\ (n = 0 => sent'[L + 1].id = 0)
        /\ Len(stream') = K + 2 + n
        /\ \A k \in DOMAIN stream : stream'[k] = stream[k]
        /\ stream'[K + 1] = [unit |-> "cmd", val |-> sent'[L + 1].cmd]
        /\ stream'[K + 2] = [unit |-> "len", val |-> n % LenMod]
        /\ n # 0 => stream'[K + 3] = [unit |-> "body", val |-> sent'[L + 1].id]
    BY <1>1, <2>1, <2>2, SendExtends
  <2>a. DOMAIN sent = 1..L /\ DOMAIN stream = 1..K /\ \A i \in 1..L : sent[i].size \in Nat /\ sent[i].end \in Nat
    <3>1. DOMAIN sent = 1..L /\ DOMAIN stream = 1..K
      BY <2>1, <2>2 DEF FR!TypeOK
    <3>2. ASSUME NEW i \in 1..L PROVE sent[i].size \in Nat /\ sent[i].end \in Nat
      <4>1. sent[i] \in [cmd : Method, size : Nat, id : Nat, end : Nat]
        <5>1. sent \in Seq([cmd : Method, size : Nat, id : Nat, end : Nat])
          BY DEF FR!TypeOK
        <5>2. QED  BY <2>1, <5>1, ElementOfSeq
      <4>2. QED  BY <4>1
    <3>3. QED  BY <3>1, <3>2
  <2>b. DOMAIN sent' = 1..(L + 1)
    <3>1. FR!TypeOK'
      BY <1>1, FramingTyped DEF FR!Next
    <3>2. QED  BY <2>3, <3>1 DEF FR!TypeOK
  <2>4. \A i \in 0..L : End(i)' = End(i) /\ End(i) \in Nat
    BY <2>3, <2>a DEF End
  <2>5. End(L) = K /\ End(L + 1)' = K + 2 + n
    BY <2>1, <2>2, <2>3, <2>a DEF StreamInOrder, End
  <2>6. ASSUME NEW i \in 1..L
        PROVE  /\ sent'[i].end = End(i - 1)' + 2 + sent'[i].size
               /\ sent'[i].end <= K
               /\ stream'[End(i - 1)' + 1] = [unit |-> "cmd", val |-> sent'[i].cmd]
               /\ stream'[End(i - 1)' + 2] = [unit |-> "len", val |-> sent'[i].size % LenMod]
               /\ sent'[i].size # 0 => stream'[End(i - 1)' + 3] = [unit |-> "body", val |-> sent'[i].id]
               /\ sent'[i].size = 0 => sent'[i].id = 0
    <3>1. i - 1 \in 0..L /\ i \in DOMAIN sent /\ sent'[i] = sent[i]
      <4>1. i - 1 \in 0..L
        OBVIOUS
      <4>2. i \in DOMAIN sent
        BY <2>a
      <4>3. sent'[i] = sent[i]
        BY <2>3, <4>2
      <4>4. QED  BY <4>1, <4>2, <4>3
    <3>2. PICK b \in Nat : b = End(i - 1) /\ b = End(i - 1)'
      BY <2>4, <3>1
    <3>3. PICK z \in Nat : z = sent[i].size
      BY <2>a
    <3>4. /\ sent[i].end = b + 2 + z /\ sent[i].end <= K
          /\ stream[b + 1] = [unit |-> "cmd", val |-> sent[i].cmd]
          /\ stream[b + 2] = [unit |-> "len", val |-> z % LenMod]
          /\ z # 0 => stream[b + 3] = [unit |-> "body", val |-> sent[i].id]
          /\ z = 0 => sent[i].id = 0
      BY <2>2, <3>1, <3>2, <3>3 DEF StreamInOrder
    <3>5. b + 1 \in 1..K /\ b + 2 \in 1..K /\ (z # 0 => b + 3 \in 1..K)
      BY <3>4
    <3>6. stream'[b + 1] = stream[b + 1] /\ stream'[b + 2] = stream[b + 2] /\ (z # 0 => stream'[b + 3] = stream[b + 3])
      BY <2>3, <2>a, <3>5
    <3>7. QED  BY <3>1, <3>2, <3>3, <3>4, <3>6
  <2>7. /\ sent'[L + 1].end = End(L + 1 - 1)' + 2 + sent'[L + 1].size
        /\ sent'[L + 1].end <= Len(stream')
        /\ stream'[End(L + 1 - 1)' + 1] = [unit |-> "cmd", val |-> sent'[L + 1].cmd]
        /\ stream'[End(L + 1 - 1)' + 2] = [unit |-> "len", val |-> sent'[L + 1].size % LenMod]
        /\ sent'[L + 1].size # 0 => stream'[End(L + 1 - 1)' + 3] = [unit |-> "body", val |-> sent'[L + 1].id]
        /\ sent'[L + 1].size = 0 => sent'[L + 1].id = 0
    <3>1. L + 1 - 1 = L /\ End(L)' = K
      BY <2>4, <2>5
    <3>2. QED  BY <2>3, <3>1
  <2>8. ASSUME NEW i \in 1..(L + 1), NEW j \in 1..(L + 1), i < j PROVE sent'[i].end < sent'[j].end
    <3>1. i \in 1..L
      BY <2>8
    <3>2. sent'[i].end \in Nat /\ sent'[i].end <= K
      BY <2>3, <2>6, <2>a, <3>1
    <3>3. CASE j = L + 1
      BY <2>3, <3>2, <3>3
    <3>4. CASE j \in 1..L
      <4>1. sent[i].end < sent[j].end
        BY <2>8, <2>a, <3>1, <3>4 DEF StreamInOrder
      <4>2. QED  BY <2>3, <2>a, <3>1, <3>4, <4>1
    <3>5. QED  BY <3>3, <3>4
  <2>9. \A i \in 1..L : sent'[i].end <= Len(stream')
    <3>1. ASSUME NEW i \in 1..L PROVE sent'[i].end <= Len(stream')
      <4>1. sent'[i].end <= K /\ sent'[i] = sent[i] /\ sent[i].end \in Nat
        BY <2>3, <2>6, <2>a
      <4>2. QED  BY <2>3, <4>1
    <3>2. QED  BY <3>1
  <2>10. End(Len(sent))' = Len(stream')
    BY <2>3, <2>5
  <2>11. ASSUME NEW i \in DOMAIN sent'
         PROVE  /\ sent'[i].end = End(i - 1)' + 2 + sent'[i].size
                /\ sent'[i].end <= Len(stream')
                /\ stream'[End(i - 1)' + 1] = [unit |-> "cmd", val |-> sent'[i].cmd]
                /\ stream'[End(i - 1)' + 2] = [unit |-> "len", val |-> sent'[i].size % LenMod]
                /\ sent'[i].size # 0 => stream'[End(i - 1)' + 3] = [unit |-> "body", val |-> sent'[i].id]
                /\ sent'[i].size = 0 => sent'[i].id = 0
    <3>1. i \in 1..L \/ i = L + 1
      BY <2>b
    <3>2. CASE i \in 1..L
      BY <2>6, <2>9, <3>2
    <3>3. CASE i = L + 1
      BY <2>7, <3>3
    <3>4. QED  BY <3>1, <3>2, <3>3
  <2>12. QED  BY <2>b, <2>8, <2>10, <2>11 DEF StreamInOrder
<1>2. ASSUME FR!on_disconnect PROVE StreamInOrder'
  <2>1. sent' = <<>> /\ stream' = <<>>
    BY <1>2 DEF FR!on_disconnect
  <2>2. QED  BY <2>1 DEF StreamInOrder, End
<1>3. ASSUME sent' = sent, stream' = stream PROVE StreamInOrder'
  BY <1>3 DEF StreamInOrder, End
<1> QED  BY <1>1, <1>2, <1>3, StreamKept

-----------------------------------------------------------------------------
\* What the types say of the sizes.
LEMMA FramingSizes ==
  ASSUME FR!TypeOK
  PROVE  /\ Len(buffer) \in Nat /\ head \in Nat /\ head <= Len(buffer) /\ DOMAIN buffer = 1..Len(buffer)
         /\ Len(stream) \in Nat /\ arrived \in Nat /\ arrived <= Len(stream) /\ DOMAIN stream = 1..Len(stream)
BY DEF FR!TypeOK

\* A buffer without the units that were read.
LEMMA ReadPartDropped ==
  ASSUME FR!TypeOK, BufferIsSuffix,
         buffer' = SubSeq(buffer, head + 1, Len(buffer)), arrived' = arrived, stream' = stream
  PROVE  Len(buffer') = Len(buffer) - head /\ BufferIsSuffix'
<1>1. PICK b \in Nat, h \in Nat, a \in Nat : b = Len(buffer) /\ h = head /\ a = arrived /\ h <= b
  BY FramingSizes
<1>2. DOMAIN buffer = 1..b /\ \A k \in 1..b : buffer[k] = stream[a - b + k]
  <2>1. DOMAIN buffer = 1..b
    BY <1>1, FramingSizes
  <2>2. QED  BY <1>1, <2>1 DEF BufferIsSuffix
<1>3. b <= a
  BY <1>1 DEF BufferIsSuffix
<1>4. \A k \in (h + 1)..b : buffer[k] \in FR!Unit
  <2>1. buffer \in Seq(FR!Unit)
    BY DEF FR!TypeOK
  <2>2. QED  BY <1>1, <2>1, ElementOfSeq
<1>5. PICK q : q = SubSeq(buffer, h + 1, b)
  OBVIOUS
<1>6. /\ q \in Seq(FR!Unit)
      /\ Len(q) = IF h + 1 <= b THEN b - (h + 1) + 1 ELSE 0
      /\ \A k \in 1..(b - (h + 1) + 1) : q[k] = buffer[(h + 1) + k - 1]
  <2>1. h + 1 \in Int /\ b \in Int
    BY <1>1
  <2> QED  BY <1>4, <1>5, <2>1, SubSeqProperties
<1>7. Len(q) = b - h
  BY <1>1, <1>6
<1>8. ASSUME NEW k \in 1..(b - h) PROVE q[k] = stream[a - (b - h) + k]
  <2>1. q[k] = buffer[(h + 1) + k - 1] /\ (h + 1) + k - 1 = h + k /\ h + k \in 1..b
    BY <1>1, <1>6
  <2>2. a - b + (h + k) = a - (b - h) + k
    BY <1>1
  <2>3. QED  BY <1>2, <2>1, <2>2
<1>9. buffer' = q /\ DOMAIN q = 1..(b - h)
  BY <1>1, <1>5, <1>6, <1>7
<1>10. b - h <= a
  BY <1>1, <1>3
<1>11. Len(buffer') = b - h /\ DOMAIN buffer' = 1..(b - h) /\ arrived' = a
  BY <1>1, <1>7, <1>9
<1>12. \A k \in DOMAIN buffer' : buffer'[k] = stream'[arrived' - Len(buffer') + k]
  BY <1>8, <1>9, <1>11
<1> QED  BY <1>1, <1>10, <1>11, <1>12 DEF BufferIsSuffix

LEMMA BufferStep ==
  ASSUME FR!FramingAssumption, FR!TypeOK, BufferIsSuffix, [FR!Next]_(FR!framingVars)
  PROVE  BufferIsSuffix'
<1>1. ASSUME NEW c \in Method, NEW n \in Sizes, FR!Send(c, n) PROVE BufferIsSuffix'
  <2>1. buffer' = buffer /\ arrived' = arrived
    BY <1>1 DEF FR!Send
  <2>2. \A k \in DOMAIN stream : stream'[k] = stream[k]
    BY <1>1, SendExtends
  <2>3. ASSUME NEW k \in DOMAIN buffer PROVE arrived - Len(buffer) + k \in DOMAIN stream
    BY DEF FR!TypeOK, BufferIsSuffix
  <2>4. QED  BY <2>1, <2>2, <2>3 DEF BufferIsSuffix
<1>2. ASSUME NEW n \in 1..(Len(stream) - arrived), FR!on_message(n) PROVE BufferIsSuffix'
  <2>1. PICK b \in Nat, a \in Nat, L \in Nat : b = Len(buffer) /\ a = arrived /\ L = Len(stream) /\ a <= L
    BY FramingSizes
  <2>2. buffer \in Seq(FR!Unit) /\ stream \in Seq(FR!Unit)
    BY DEF FR!TypeOK
  <2>3. n \in Nat /\ a + n <= L
    BY <2>1
  <2>4. PICK q : q = SubSeq(stream, a + 1, a + n)
    OBVIOUS
  <2>5. /\ q \in Seq(FR!Unit) /\ Len(q) = n
        /\ \A k \in 1..n : q[k] = stream[a + k]
    <3>1. PICK f \in Int, e \in Int : f = a + 1 /\ e = a + n
      BY <2>1, <2>3
    <3>2. \A k \in f..e : stream[k] \in FR!Unit
      BY <2>1, <2>2, <2>3, <3>1, ElementOfSeq
    <3>3. /\ q \in Seq(FR!Unit)
          /\ Len(q) = IF f <= e THEN e - f + 1 ELSE 0
          /\ \A k \in 1..(e - f + 1) : q[k] = stream[f + k - 1]
      BY <2>4, <3>1, <3>2, SubSeqProperties
    <3>4. f <= e /\ e - f + 1 = n /\ \A k \in 1..n : f + k - 1 = a + k
      BY <2>1, <2>3, <3>1
    <3>5. QED  BY <3>3, <3>4
  <2>7. buffer' = buffer \o q /\ arrived' = a + n /\ stream' = stream
    BY <1>2, <2>1, <2>4 DEF FR!on_message
  <2>8. /\ Len(buffer') = b + n /\ DOMAIN (buffer') = 1..(b + n)
        /\ \A k \in 1..(b + n) : buffer'[k] = IF k <= b THEN buffer[k] ELSE q[k - b]
    <3>1. /\ buffer' \in Seq(FR!Unit)
          /\ Len(buffer') = Len(buffer) + Len(q)
          /\ \A k \in 1..(Len(buffer) + Len(q)) :
                buffer'[k] = IF k <= Len(buffer) THEN buffer[k] ELSE q[k - Len(buffer)]
      BY <2>2, <2>5, <2>7, ConcatProperties
    <3>2. QED  BY <2>1, <2>3, <2>5, <3>1
  <2>9. ASSUME NEW k \in 1..(b + n) PROVE buffer'[k] = stream[(a + n) - (b + n) + k]
    <3>1. (a + n) - (b + n) + k = a - b + k
      BY <2>1, <2>3
    <3>2. CASE k <= b
      <4>1. k \in DOMAIN buffer /\ buffer'[k] = buffer[k]
        BY <2>1, <2>2, <2>8, <3>2
      <4>2. QED  BY <2>1, <3>1, <4>1 DEF BufferIsSuffix
    <3>3. CASE k > b
      <4>1. k - b \in 1..n /\ a + (k - b) = a - b + k
        BY <2>1, <2>3, <3>3
      <4>2. buffer'[k] = q[k - b]
        BY <2>1, <2>8, <3>3
      <4>3. QED  BY <2>5, <3>1, <4>1, <4>2
    <3>4. QED  BY <2>1, <2>3, <3>2, <3>3
  <2>10. b + n <= a + n
    BY <2>1, <2>3 DEF BufferIsSuffix
  <2>11. QED  BY <2>7, <2>8, <2>9, <2>10 DEF BufferIsSuffix
<1>3. ASSUME FR!feed_ends PROVE BufferIsSuffix'
  <2>1. arrived' = arrived /\ stream' = stream
    BY <1>3 DEF FR!feed_ends
  <2>2. buffer' = buffer \/ buffer' = SubSeq(buffer, head + 1, Len(buffer))
    BY <1>3 DEF FR!feed_ends, FR!compact_prefix
  <2>3. QED  BY <2>1, <2>2, ReadPartDropped DEF BufferIsSuffix
<1>4. ASSUME FR!EraseConsumed PROVE BufferIsSuffix'
  BY <1>4, ReadPartDropped DEF FR!EraseConsumed
<1>5. ASSUME FR!on_disconnect PROVE BufferIsSuffix'
  <2>1. buffer' = <<>> /\ arrived' = 0
    BY <1>5 DEF FR!on_disconnect
  <2>2. QED  BY <2>1 DEF BufferIsSuffix
<1>6. ASSUME UNCHANGED <<stream, arrived, buffer>> PROVE BufferIsSuffix'
  BY <1>6 DEF BufferIsSuffix
<1> QED
  BY <1>1, <1>2, <1>3, <1>4, <1>5, <1>6
  DEF FR!Next, FR!framingVars, FR!register_method, FR!unregister_method, FR!feed, FR!dispatch, FR!Routed

-----------------------------------------------------------------------------
\* A length that fits its field is the length.
LEMMA FittingLength ==
  ASSUME NEW n \in Nat, NEW d \in Nat \ {0}, n < d
  PROVE  n % d = n
OBVIOUS

\* What the types say of the messages.
LEMMA SentSizes ==
  ASSUME FR!TypeOK
  PROVE  /\ Len(sent) \in Nat /\ DOMAIN sent = 1..Len(sent)
         /\ \A i \in 1..Len(sent) : sent[i].size \in Nat /\ sent[i].end \in Nat
         /\ \A i \in 0..Len(sent) : End(i) \in Nat
         /\ Len(handled) \in Nat /\ Len(messages) \in Nat /\ Parsed \in Nat
         /\ DOMAIN handled = 1..Len(handled) /\ DOMAIN messages = 1..Len(messages)
<1>1. sent \in Seq([cmd : Method, size : Nat, id : Nat, end : Nat])
  BY DEF FR!TypeOK
<1>2. Len(sent) \in Nat /\ DOMAIN sent = 1..Len(sent)
  BY <1>1
<1>3. ASSUME NEW i \in 1..Len(sent) PROVE sent[i].size \in Nat /\ sent[i].end \in Nat
  <2>1. sent[i] \in [cmd : Method, size : Nat, id : Nat, end : Nat]
    BY <1>1, ElementOfSeq
  <2>2. QED  BY <2>1
<1>4. ASSUME NEW i \in 0..Len(sent) PROVE End(i) \in Nat
  BY <1>2, <1>3 DEF End
<1>5. Len(handled) \in Nat /\ Len(messages) \in Nat
  BY DEF FR!TypeOK
<1>6. DOMAIN handled = 1..Len(handled) /\ DOMAIN messages = 1..Len(messages)
  BY DEF FR!TypeOK
<1> QED  BY <1>2, <1>3, <1>4, <1>5, <1>6 DEF Parsed

\* Where the parser stands the next message begins: its header is read for what it is.
LEMMA NextHeader ==
  ASSUME FR!FramingAssumption, FR!TypeOK, StreamInOrder, BufferIsSuffix, Fits, ReadsMessages, FR!Avail >= 2
  PROVE  /\ Parsed < Len(sent)
         /\ ~FR!Misaligned
         /\ FR!body_len = sent[Parsed + 1].size
         /\ FR!body_len # 0 /\ FR!Avail >= 2 + FR!body_len => buffer[head + 3].val = sent[Parsed + 1].id
         /\ FR!body_len = 0 => sent[Parsed + 1].id = 0
         /\ End(Parsed + 1) = End(Parsed) + 2 + FR!body_len
<1>1. PICK b \in Nat, h \in Nat, a \in Nat, L \in Nat :
        b = Len(buffer) /\ h = head /\ a = arrived /\ L = Len(stream) /\ h <= b /\ a <= L
  BY FramingSizes
<1>2. PICK p \in Nat, S \in Nat : p = Parsed /\ S = Len(sent)
  BY SentSizes
<1>3. p <= S /\ a - b + h = End(p) /\ b <= a
  BY <1>1, <1>2 DEF ReadsMessages, BufferIsSuffix
<1>4. b - h >= 2
  BY <1>1 DEF FR!Avail
<1>5. PICK e \in Nat : e = End(p)
  BY <1>2, <1>3, SentSizes
<1>6. e + 2 <= L
  BY <1>1, <1>3, <1>4, <1>5
<1>7. p < S
  <2>1. SUFFICES ASSUME p = S PROVE FALSE
    BY <1>2, <1>3
  <2>2. e = L
    BY <1>1, <1>2, <1>5, <2>1 DEF StreamInOrder
  <2>3. QED  BY <1>1, <1>5, <1>6, <2>2
<1>8. PICK j \in 1..S : j = p + 1 /\ j - 1 = p
  BY <1>2, <1>7
<1>9. j \in DOMAIN sent
  BY <1>2, SentSizes
<1>10. PICK z \in Nat : z = sent[j].size
  BY <1>2, SentSizes
<1>11. /\ sent[j].end = e + 2 + z
       /\ stream[e + 1] = [unit |-> "cmd", val |-> sent[j].cmd]
       /\ stream[e + 2] = [unit |-> "len", val |-> z % LenMod]
       /\ z # 0 => stream[e + 3] = [unit |-> "body", val |-> sent[j].id]
       /\ z = 0 => sent[j].id = 0
  BY <1>5, <1>8, <1>9, <1>10 DEF StreamInOrder
<1>12. z % LenMod = z
  <2>1. z < LenMod
    BY <1>9, <1>10 DEF Fits
  <2>2. QED  BY <2>1, FittingLength DEF FR!FramingAssumption
<1>13. ASSUME NEW k \in 1..(b - h) PROVE buffer[h + k] = stream[e + k]
  <2>1. h + k \in DOMAIN buffer
    BY <1>1, FramingSizes
  <2>2. buffer[h + k] = stream[a - b + (h + k)]
    BY <1>1, <2>1 DEF BufferIsSuffix
  <2>3. a - b + (h + k) = e + k
    BY <1>1, <1>3, <1>5
  <2>4. QED  BY <2>2, <2>3
<1>14. buffer[h + 1] = stream[e + 1] /\ buffer[h + 2] = stream[e + 2]
  <2>1. 1 \in 1..(b - h) /\ 2 \in 1..(b - h)
    BY <1>1, <1>4
  <2>2. QED  BY <1>13, <2>1
<1>15. ~FR!Misaligned /\ FR!body_len = z
  BY <1>1, <1>11, <1>12, <1>14 DEF FR!Misaligned, FR!body_len
<1>16. ASSUME z # 0, FR!Avail >= 2 + z PROVE buffer[h + 3] = stream[e + 3]
  <2>1. 3 \in 1..(b - h)
    BY <1>1, <1>10, <1>16 DEF FR!Avail
  <2>2. QED  BY <1>13, <2>1
<1>17. End(p + 1) = e + 2 + z
  BY <1>2, <1>8, <1>11 DEF End
<1>18. z # 0 /\ FR!Avail >= 2 + z => buffer[head + 3].val = sent[j].id
  BY <1>1, <1>11, <1>16
<1> QED  BY <1>2, <1>5, <1>7, <1>8, <1>10, <1>11, <1>15, <1>17, <1>18

\* What is sent later does not disturb what was read before.
LEMMA SendReads ==
  ASSUME FR!FramingAssumption, FR!TypeOK, StreamInOrder, Fits => ReadsMessages, Fits',
         NEW c \in Method, NEW n \in Sizes, FR!Send(c, n)
  PROVE  ReadsMessages'
<1>1. UNCHANGED <<arrived, buffer, head, stage, messages, handled, misread>>
  BY DEF FR!Send
<1>2. PICK S \in Nat : S = Len(sent) /\ DOMAIN sent = 1..S
  BY SentSizes
<1>3. /\ n \in Nat /\ Len(sent') = S + 1
      /\ \A i \in 1..S : sent'[i] = sent[i]
      /\ sent'[S + 1].end = Len(stream) + 2 + n
  BY <1>2, SendExtends
<1>4. DOMAIN sent' = 1..(S + 1)
  <2>1. FR!TypeOK'
    BY FramingTyped DEF FR!Next
  <2>2. QED  BY <1>3, <2>1 DEF FR!TypeOK
<1>5. Fits
  BY <1>2, <1>3, <1>4 DEF Fits
<1>6. ReadsMessages
  BY <1>5
<1>7. PICK p \in Nat : p = Parsed /\ p = Parsed' /\ p <= S
  BY <1>1, <1>2, <1>6, SentSizes DEF Parsed, ReadsMessages
<1>8. \A i \in 0..S : End(i)' = End(i) /\ End(i) \in Nat
  BY <1>2, <1>3, SentSizes DEF End
<1>9. /\ ~misread' /\ Parsed' <= Len(sent')
      /\ arrived' - Len(buffer') + head' = End(Parsed)'
  BY <1>1, <1>3, <1>6, <1>7, <1>8 DEF ReadsMessages
<1>10. \A i \in DOMAIN handled' : handled'[i].id = sent'[i].id
  BY <1>1, <1>2, <1>3, <1>6, <1>7, SentSizes DEF ReadsMessages, Parsed
<1>11. \A i \in DOMAIN messages' : messages'[i].id = sent'[Len(handled') + i].id
  BY <1>1, <1>2, <1>3, <1>6, <1>7, SentSizes DEF ReadsMessages, Parsed
<1>12. ASSUME stage' # "feed", Parsed' < Len(sent') PROVE arrived' < End(Parsed + 1)'
  <2>1. CASE p < S
    <3>1. arrived < End(p + 1)
      BY <1>1, <1>2, <1>6, <1>7, <1>12, <2>1 DEF ReadsMessages
    <3>2. QED  BY <1>1, <1>7, <1>8, <2>1, <3>1
  <2>2. CASE p = S
    <3>1. End(p + 1)' = Len(stream) + 2 + n
      BY <1>2, <1>3, <2>2 DEF End
    <3>2. QED  BY <1>1, <1>3, <1>7, <3>1, FramingSizes
  <2>3. QED  BY <1>7, <2>1, <2>2
<1> QED  BY <1>9, <1>10, <1>11, <1>12 DEF ReadsMessages

\* A turn of the loop reads the next message.
LEMMA FeedReads ==
  ASSUME FR!FramingAssumption, FR!TypeOK, StreamInOrder, BufferIsSuffix, Fits, ReadsMessages, FR!feed
  PROVE  ReadsMessages'
<1>1. /\ UNCHANGED <<sent, arrived, buffer, handled, misread>> /\ stage' = "feed"
      /\ head' = head + 2 + FR!body_len /\ FR!Whole
  BY DEF FR!feed
<1>2. FR!Avail >= 2 /\ FR!Avail >= 2 + FR!body_len
  BY <1>1 DEF FR!Whole
<1>3. /\ Parsed < Len(sent)
      /\ FR!body_len # 0 => buffer[head + 3].val = sent[Parsed + 1].id
      /\ FR!body_len = 0 => sent[Parsed + 1].id = 0
      /\ End(Parsed + 1) = End(Parsed) + 2 + FR!body_len
  BY <1>2, NextHeader
<1>4. PICK m : messages' = Append(messages, m) /\ m.id = sent[Parsed + 1].id
  BY <1>3 DEF FR!feed
<1>5. PICK H \in Nat, M \in Nat : H = Len(handled) /\ M = Len(messages) /\ Parsed = H + M
  BY SentSizes DEF Parsed
<1>6. Len(messages') = M + 1 /\ (\A i \in 1..M : messages'[i] = messages[i]) /\ messages'[M + 1] = m
  <2>1. messages \in Seq([cmd : Method, id : Nat \cup Method])
    BY DEF FR!TypeOK
  <2>2. QED  BY <1>4, <1>5, <2>1
<1>7. DOMAIN messages' = 1..(M + 1)
  <2>1. FR!TypeOK'
    BY FramingTyped DEF FR!Next
  <2>2. QED  BY <1>6, <2>1 DEF FR!TypeOK
<1>8. Parsed' = Parsed + 1 /\ \A i : End(i)' = End(i)
  BY <1>1, <1>5, <1>6 DEF Parsed, End
<1>9. FR!body_len \in Nat
  BY <1>1, UnitAt
<1>10. /\ ~misread' /\ Parsed' <= Len(sent')
       /\ \A i \in DOMAIN handled' : handled'[i].id = sent'[i].id
  BY <1>1, <1>3, <1>5, <1>8, SentSizes DEF ReadsMessages
<1>11. arrived' - Len(buffer') + head' = End(Parsed)'
  <2>1. arrived - Len(buffer) + head = End(Parsed)
    BY DEF ReadsMessages
  <2>2. arrived - Len(buffer) + (head + 2 + FR!body_len) = End(Parsed) + 2 + FR!body_len
    BY <1>9, <2>1, FramingSizes
  <2>3. End(Parsed)' = End(Parsed + 1)
    BY <1>8
  <2>4. QED  BY <1>1, <1>3, <2>2, <2>3
<1>12. ASSUME NEW i \in DOMAIN messages' PROVE messages'[i].id = sent'[Len(handled') + i].id
  <2>1. CASE i \in 1..M
    BY <1>1, <1>5, <1>6, <2>1, SentSizes DEF ReadsMessages
  <2>2. CASE i = M + 1
    <3>1. H + i = Parsed + 1
      BY <1>5, <2>2
    <3>2. QED  BY <1>1, <1>4, <1>5, <1>6, <2>2, <3>1
  <2>3. QED  BY <1>7, <2>1, <2>2
<1> QED  BY <1>1, <1>10, <1>11, <1>12 DEF ReadsMessages

\* The loop ends when the next message is not whole, and compaction keeps the place.
LEMMA FeedEndReads ==
  ASSUME FR!FramingAssumption, FR!TypeOK, StreamInOrder, BufferIsSuffix, Fits, ReadsMessages, FR!feed_ends
  PROVE  ReadsMessages'
<1>1. UNCHANGED <<sent, stream, arrived, handled, messages>> /\ ~FR!Whole /\ misread' = FR!Misaligned
  BY DEF FR!feed_ends
<1>2. Parsed' = Parsed /\ \A i : End(i)' = End(i)
  BY <1>1 DEF Parsed, End
<1>3. ~misread'
  <2>1. CASE FR!Avail >= 2
    BY <1>1, <2>1, NextHeader
  <2>2. CASE ~(FR!Avail >= 2)
    BY <1>1, <2>2 DEF FR!Misaligned
  <2>3. QED  BY <2>1, <2>2
<1>4. arrived' - Len(buffer') + head' = End(Parsed)'
  <2>1. arrived - Len(buffer) + head = End(Parsed)
    BY DEF ReadsMessages
  <2>2. CASE server = "router" /\ head >= CompactAt /\ 2 * head >= Len(buffer)
    <3>1. buffer' = SubSeq(buffer, head + 1, Len(buffer)) /\ head' = 0
      BY <2>2 DEF FR!feed_ends, FR!compact_prefix
    <3>2. Len(buffer') = Len(buffer) - head
      BY <1>1, <3>1, ReadPartDropped
    <3>3. QED  BY <1>1, <1>2, <2>1, <3>1, <3>2, FramingSizes
  <2>3. CASE ~(server = "router" /\ head >= CompactAt /\ 2 * head >= Len(buffer))
    <3>1. buffer' = buffer /\ head' = head
      BY <2>3 DEF FR!feed_ends, FR!compact_prefix
    <3>2. QED  BY <1>1, <1>2, <2>1, <3>1
  <2>4. QED  BY <2>2, <2>3
<1>5. ASSUME Parsed < Len(sent) PROVE arrived < End(Parsed + 1)
  <2>1. PICK p \in Nat, j \in 1..Len(sent) : p = Parsed /\ j = p + 1 /\ j - 1 = p
    <3>1. PICK p \in Nat, n \in Nat : p = Parsed /\ n = Len(sent) /\ p < n
      BY <1>5, SentSizes
    <3>2. p + 1 \in 1..n /\ p + 1 - 1 = p
      BY <3>1
    <3>3. QED  BY <3>1, <3>2
  <2>2. PICK z \in Nat, e \in Nat : z = sent[j].size /\ e = End(p)
    BY <2>1, SentSizes
  <2>3. End(p + 1) = e + 2 + z
    <3>1. j \in DOMAIN sent
      BY <2>1, SentSizes
    <3>2. sent[j].end = End(j - 1) + 2 + sent[j].size
      BY <3>1 DEF StreamInOrder
    <3>3. End(p + 1) = sent[j].end
      BY <2>1 DEF End
    <3>4. QED  BY <2>1, <2>2, <3>2, <3>3
  <2>4. arrived = e + FR!Avail /\ FR!Avail \in Nat
    BY <2>1, <2>2, FramingSizes DEF ReadsMessages, FR!Avail
  <2>5. CASE FR!Avail >= 2
    <3>1. ~FR!Misaligned /\ FR!body_len = z
      BY <2>1, <2>2, <2>5, NextHeader
    <3>2. ~(FR!Avail >= 2 + z)
      BY <1>1, <2>5, <3>1 DEF FR!Whole
    <3>3. QED  BY <2>1, <2>2, <2>3, <2>4, <3>2
  <2>6. CASE ~(FR!Avail >= 2)
    BY <2>1, <2>2, <2>3, <2>4, <2>6
  <2>7. QED  BY <2>5, <2>6
<1>6. /\ Parsed' <= Len(sent')
      /\ \A i \in DOMAIN handled' : handled'[i].id = sent'[i].id
      /\ \A i \in DOMAIN messages' : messages'[i].id = sent'[Len(handled') + i].id
  BY <1>1, <1>2 DEF ReadsMessages
<1>7. Parsed' < Len(sent') => arrived' < End(Parsed + 1)'
  BY <1>1, <1>2, <1>5
<1> QED  BY <1>3, <1>4, <1>6, <1>7 DEF ReadsMessages

\* A message that is handled goes from one list to the other.
LEMMA DispatchReads ==
  ASSUME FR!FramingAssumption, FR!TypeOK, Fits, ReadsMessages, FR!dispatch
  PROVE  ReadsMessages'
<1>1. UNCHANGED <<sent, stream, arrived, buffer, head, stage, misread>> /\ messages # <<>> /\ messages' = Tail(messages)
  BY DEF FR!dispatch
<1>2. PICK r : handled' = Append(handled, r) /\ r.id = Head(messages).id
  BY DEF FR!dispatch
<1>3. PICK H \in Nat, M \in Nat : H = Len(handled) /\ M = Len(messages) /\ Parsed = H + M
  BY SentSizes DEF Parsed
<1>4. /\ M # 0 /\ Len(messages') = M - 1 /\ Head(messages) = messages[1]
      /\ \A i \in 1..(M - 1) : messages'[i] = messages[i + 1]
  <2>1. messages \in Seq([cmd : Method, id : Nat \cup Method])
    BY DEF FR!TypeOK
  <2>2. QED  BY <1>1, <1>3, <2>1, HeadTailProperties
<1>5. Len(handled') = H + 1 /\ (\A i \in 1..H : handled'[i] = handled[i]) /\ handled'[H + 1] = r
  <2>1. handled \in Seq([id : Nat \cup Method, said : {"answer", "exception", "unknown"}])
    BY DEF FR!TypeOK
  <2>2. QED  BY <1>2, <1>3, <2>1
<1>6. DOMAIN messages' = 1..(M - 1) /\ DOMAIN handled' = 1..(H + 1)
  <2>1. FR!TypeOK'
    BY FramingTyped DEF FR!Next
  <2>2. QED  BY <1>4, <1>5, <2>1 DEF FR!TypeOK
<1>7. Parsed' = Parsed /\ \A i : End(i)' = End(i)
  BY <1>1, <1>3, <1>4, <1>5 DEF Parsed, End
<1>8. \A i \in 1..M : messages[i].id = sent[H + i].id
  BY <1>3, SentSizes DEF ReadsMessages
<1>9. ASSUME NEW i \in DOMAIN handled' PROVE handled'[i].id = sent'[i].id
  <2>1. CASE i \in 1..H
    BY <1>1, <1>3, <1>5, <2>1, SentSizes DEF ReadsMessages
  <2>2. CASE i = H + 1
    <3>1. 1 \in 1..M
      BY <1>3, <1>4
    <3>2. messages[1].id = sent[H + 1].id
      BY <1>8, <3>1
    <3>3. QED  BY <1>1, <1>2, <1>4, <1>5, <2>2, <3>2
  <2>3. QED  BY <1>6, <2>1, <2>2
<1>10. ASSUME NEW i \in DOMAIN messages' PROVE messages'[i].id = sent'[Len(handled') + i].id
  <2>1. i \in 1..(M - 1) /\ i + 1 \in 1..M /\ H + (i + 1) = (H + 1) + i
    <3>1. i \in 1..(M - 1)
      BY <1>6
    <3>2. i + 1 \in 1..M
      BY <1>3, <3>1
    <3>3. H + (i + 1) = (H + 1) + i
      BY <1>3, <3>1
    <3>4. QED  BY <3>1, <3>2, <3>3
  <2>2. messages'[i].id = sent[H + (i + 1)].id
    BY <1>4, <1>8, <2>1
  <2>3. QED  BY <1>1, <1>5, <2>1, <2>2
<1>11. /\ ~misread' /\ Parsed' <= Len(sent')
       /\ arrived' - Len(buffer') + head' = End(Parsed)'
       /\ (stage' # "feed" /\ Parsed' < Len(sent') => arrived' < End(Parsed + 1)')
  BY <1>1, <1>7 DEF ReadsMessages
<1> QED  BY <1>9, <1>10, <1>11 DEF ReadsMessages

\* Every step keeps the parser at the end of a message.
LEMMA ReadsStep ==
  ASSUME FR!FramingAssumption, FrameInv, [FR!Next]_(FR!framingVars), Fits'
  PROVE  ReadsMessages'
<1> USE DEF FrameInv
<1>1. ASSUME NEW c \in Method, NEW n \in Sizes, FR!Send(c, n) PROVE ReadsMessages'
  BY <1>1, SendReads
<1>2. ASSUME FR!on_disconnect PROVE ReadsMessages'
  <2>1. /\ ~misread' /\ sent' = <<>> /\ handled' = <<>> /\ messages' = <<>>
        /\ arrived' = 0 /\ buffer' = <<>> /\ head' = 0
    BY <1>2 DEF FR!on_disconnect
  <2>2. Parsed' = 0 /\ End(Parsed)' = 0 /\ Len(sent') = 0
    BY <2>1 DEF Parsed, End
  <2>3. arrived' - Len(buffer') + head' = 0
    <3>1. Len(buffer') = 0
      BY <2>1
    <3>2. 0 - 0 + 0 = 0
      OBVIOUS
    <3>3. QED  BY <2>1, <3>1, <3>2
  <2>4. DOMAIN handled' = {} /\ DOMAIN messages' = {}
    BY <2>1
  <2>5. QED  BY <2>1, <2>2, <2>3, <2>4 DEF ReadsMessages
<1>3. ASSUME sent' = sent PROVE Fits /\ ReadsMessages
  BY <1>3 DEF Fits
<1>4. ASSUME NEW n \in 1..(Len(stream) - arrived), FR!on_message(n) PROVE ReadsMessages'
  <2>1. /\ UNCHANGED <<sent, stream, head, messages, handled, misread>> /\ stage' = "feed"
        /\ arrived' = arrived + n /\ buffer' = buffer \o SubSeq(stream, arrived + 1, arrived + n)
    BY <1>4 DEF FR!on_message
  <2>2. ReadsMessages
    BY <1>3, <2>1
  <2>3. Parsed' = Parsed /\ \A i : End(i)' = End(i)
    BY <2>1 DEF Parsed, End
  <2>4. PICK a \in Nat, b \in Nat, L \in Nat : a = arrived /\ b = Len(buffer) /\ L = Len(stream) /\ a <= L
    BY FramingSizes
  <2>5. Len(buffer') = b + n
    <3>1. PICK f \in Int, e \in Int : f = a + 1 /\ e = a + n /\ f <= e /\ e - f + 1 = n /\ f >= 1 /\ e <= L
      BY <2>4
    <3>2. buffer \in Seq(FR!Unit) /\ stream \in Seq(FR!Unit)
      BY DEF FR!TypeOK
    <3>3. \A k \in f..e : stream[k] \in FR!Unit
      BY <2>4, <3>1, <3>2, ElementOfSeq
    <3>4. SubSeq(stream, f, e) \in Seq(FR!Unit) /\ Len(SubSeq(stream, f, e)) = n
      BY <3>1, <3>3, SubSeqProperties
    <3>5. QED  BY <2>1, <2>4, <3>1, <3>2, <3>4, ConcatProperties
  <2>6. arrived' - Len(buffer') + head' = End(Parsed)'
    BY <2>1, <2>2, <2>3, <2>4, <2>5, FramingSizes DEF ReadsMessages
  <2>7. QED  BY <2>1, <2>2, <2>3, <2>6 DEF ReadsMessages
<1>5. ASSUME FR!feed PROVE ReadsMessages'
  BY <1>3, <1>5, FeedReads DEF FR!feed
<1>6. ASSUME FR!feed_ends PROVE ReadsMessages'
  BY <1>3, <1>6, FeedEndReads DEF FR!feed_ends
<1>7. ASSUME FR!dispatch PROVE ReadsMessages'
  BY <1>3, <1>7, DispatchReads DEF FR!dispatch
<1>8. ASSUME FR!EraseConsumed PROVE ReadsMessages'
  <2>1. /\ UNCHANGED <<sent, stream, arrived, messages, handled, misread>> /\ stage = "dispatch"
        /\ buffer' = SubSeq(buffer, head + 1, Len(buffer)) /\ head' = 0
    BY <1>8 DEF FR!EraseConsumed
  <2>2. ReadsMessages
    BY <1>3, <2>1
  <2>3. Parsed' = Parsed /\ \A i : End(i)' = End(i)
    BY <2>1 DEF Parsed, End
  <2>4. Len(buffer') = Len(buffer) - head
    BY <2>1, ReadPartDropped
  <2>5. arrived' - Len(buffer') + head' = End(Parsed)'
    BY <2>1, <2>2, <2>3, <2>4, FramingSizes DEF ReadsMessages
  <2>6. QED  BY <2>1, <2>2, <2>3, <2>5 DEF ReadsMessages
<1>9. ASSUME UNCHANGED <<sent, arrived, buffer, head, messages, handled, misread>>,
             stage' = stage \/ stage = "dispatch"
      PROVE  ReadsMessages'
  <2>1. Parsed' = Parsed /\ \A i : End(i)' = End(i)
    BY <1>9 DEF Parsed, End
  <2>2. QED  BY <1>3, <1>9, <2>1 DEF ReadsMessages
<1> HIDE DEF FrameInv
<1> QED
  BY <1>1, <1>2, <1>4, <1>5, <1>6, <1>7, <1>8, <1>9
  DEF FR!Next, FR!framingVars, FR!register_method, FR!unregister_method, FR!Routed

-----------------------------------------------------------------------------
\* For every set of methods and sizes, any length field and any way TCP cuts the
\* stream: router and RpcServer handle what was sent, each request once, in
\* order and under its own id, as soon as its last byte is there.
THEOREM RequestsHandledOnce == FR!Spec => []EveryRequestOnce
<1>1. FR!Init => FrameInv
  <2> SUFFICES ASSUME FR!Init PROVE FrameInv
    OBVIOUS
  <2>1. FR!TypeOK
    <3>1. ASSUME NEW S PROVE <<>> \in Seq(S) /\ Len(<<>>) = 0
      OBVIOUS
    <3>2. Len(<<>>) <= MaxSent /\ 0 \in 0..Len(<<>>) /\ 1 \in 1..MaxLink
      BY <3>1, ClusterAssumption DEF FR!FramingAssumption
    <3>3. QED  BY <3>1, <3>2 DEF FR!Init, FR!TypeOK
  <2>2. StreamInOrder /\ BufferIsSuffix
    BY DEF FR!Init, StreamInOrder, BufferIsSuffix, End
  <2>3. ReadsMessages
    <3>1. Len(<<>>) = 0 /\ DOMAIN <<>> = {}
      OBVIOUS
    <3>2. Parsed = 0 /\ End(Parsed) = 0
      <4>1. Len(handled) = 0 /\ Len(messages) = 0
        BY <3>1 DEF FR!Init
      <4>2. Parsed = 0
        BY <4>1 DEF Parsed
      <4>3. QED  BY <4>2 DEF End
    <3>c. arrived - Len(buffer) + head = 0
      <4>1. arrived = 0 /\ Len(buffer) = 0 /\ head = 0
        BY <3>1 DEF FR!Init
      <4>2. QED  BY <4>1
    <3>3. QED  BY <3>1, <3>2, <3>c DEF FR!Init, ReadsMessages
  <2>4. QED  BY <2>1, <2>2, <2>3 DEF FrameInv, FR!Init
<1>2. FrameInv /\ [FR!Next]_(FR!framingVars) => FrameInv'
  <2> SUFFICES ASSUME FrameInv, [FR!Next]_(FR!framingVars) PROVE FrameInv'
    OBVIOUS
  <2>1. FR!TypeOK' /\ StreamInOrder' /\ BufferIsSuffix'
    BY FramingTyped, StreamStep, BufferStep, ClusterAssumption DEF FrameInv
  <2>2. (Fits => ReadsMessages)'
    BY ReadsStep, ClusterAssumption
  <2>3. (stage = "wait" => messages = <<>>)'
    BY DEF FrameInv, FR!Next, FR!framingVars, FR!Send, FR!register_method, FR!unregister_method, FR!on_message,
           FR!feed, FR!feed_ends, FR!dispatch, FR!Routed, FR!EraseConsumed, FR!on_disconnect
  <2>4. QED  BY <2>1, <2>2, <2>3 DEF FrameInv
<1>3. FrameInv => EveryRequestOnce
  <2> SUFFICES ASSUME FrameInv, \A i \in DOMAIN sent : sent[i].size < LenMod
               PROVE  /\ ~misread /\ Len(handled) <= Len(sent)
                      /\ \A i \in DOMAIN handled : handled[i].id = sent[i].id
                      /\ stage = "wait" => \A i \in DOMAIN sent : i <= Len(handled) <=> sent[i].end <= arrived
    BY DEF EveryRequestOnce, FR!EveryRequestOnce, FrameInv
  <2>1. ReadsMessages /\ FR!TypeOK
    BY DEF FrameInv, Fits
  <2>2. ~misread /\ Len(handled) <= Len(sent) /\ \A i \in DOMAIN handled : handled[i].id = sent[i].id
    BY <2>1, SentSizes DEF ReadsMessages, Parsed
  <2>3. ASSUME stage = "wait", NEW i \in DOMAIN sent PROVE i <= Len(handled) <=> sent[i].end <= arrived
    <3>1. messages = <<>>
      BY <2>3 DEF FrameInv
    <3>2. PICK p \in Nat, S \in Nat : p = Parsed /\ p = Len(handled) /\ S = Len(sent) /\ p <= S /\ i \in 1..S
      <4>1. Len(messages) = 0
        BY <3>1
      <4>2. Parsed = Len(handled)
        BY <2>1, <4>1, SentSizes DEF Parsed
      <4>3. Parsed <= Len(sent)
        BY <2>1 DEF ReadsMessages
      <4>4. QED  BY <2>1, <4>2, <4>3, SentSizes
    <3>o. \A k, l \in 1..S : k < l => sent[k].end < sent[l].end
      BY <2>1, <3>2, SentSizes DEF FrameInv, StreamInOrder
    <3>3. ASSUME i <= p PROVE sent[i].end <= arrived
      <4>1. i = p \/ sent[i].end < sent[p].end
        BY <3>2, <3>3, <3>o
      <4>2. sent[p].end = End(p) /\ sent[i].end \in Nat /\ sent[p].end \in Nat
        BY <2>1, <3>2, <3>3, SentSizes DEF End
      <4>3. End(p) <= arrived
        BY <2>1, <3>2, FramingSizes DEF ReadsMessages, FrameInv, BufferIsSuffix
      <4>4. QED  BY <2>1, <4>1, <4>2, <4>3, FramingSizes
    <3>4. ASSUME i > p PROVE ~(sent[i].end <= arrived)
      <4>1. p + 1 \in 1..S /\ arrived < End(p + 1)
        BY <2>1, <2>3, <3>2, <3>4 DEF ReadsMessages
      <4>2. End(p + 1) = sent[p + 1].end
        BY <3>2 DEF End
      <4>3. i = p + 1 \/ sent[p + 1].end < sent[i].end
        BY <3>2, <3>4, <3>o, <4>1
      <4>4. sent[i].end \in Nat /\ sent[p + 1].end \in Nat
        BY <2>1, <3>2, <4>1, SentSizes
      <4>5. QED  BY <2>1, <4>1, <4>2, <4>3, <4>4, FramingSizes
    <3>5. QED  BY <3>2, <3>3, <3>4
  <2>4. QED  BY <2>2, <2>3
<1> QED  BY <1>1, <1>2, <1>3, PTL DEF FR!Spec
=============================================================================
