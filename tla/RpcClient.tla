----------------------------- MODULE RpcClient ------------------------------
(***************************************************************************)
(* rpc::RpcClient (include/chwell/rpc/rpc_client.h,                        *)
(* src/rpc/rpc_client.cpp): requests are entered in pending_requests_ and  *)
(* sent; their callbacks are called by the read loop of the connection     *)
(* (on_message, on_disconnect), by the cleanup thread (time-outs) or by    *)
(* disconnect().                                                           *)
(*                                                                         *)
(* Four kinds of threads interleave: callers, the owner that connects and  *)
(* disconnects, the single thread of the IoService, which runs one read    *)
(* loop at a time, and the cleanup thread.  Critical sections of           *)
(* requests_mutex_ are one action.  connection_ is a plain shared_ptr that *)
(* all of them touch without a lock: the model lets every access see the   *)
(* latest value, and calling through a null pointer sets aborted.          *)
(*                                                                         *)
(* A request is identified with its id: next_request_id_ has 32 bits and   *)
(* an id comes back long after the deadline of its request.  The circuit   *)
(* breaker counts failures (CircuitBreaker.tla has the concurrent one);    *)
(* here only the cleanup thread reports to it.                             *)
(***************************************************************************)
EXTENDS Naturals, FiniteSets

CONSTANTS
    Req,            \* requests, each called once
    SyncReq,        \* those made with call_sync
    MaxConn,        \* bound of the model: connections made by connect()
    Threshold,      \* failures that open the circuit breaker
    Limited,        \* a rate limiter is installed
    Reconnects      \* the owner calls connect() again after a lost connection,
                    \* or only after its own disconnect()

Gen == 1..MaxConn   \* connections, numbered; 0 is a null connection_

ASSUME RpcAssumption ==
    /\ SyncReq \subseteq Req
    /\ MaxConn \in Nat /\ Threshold \in Nat
    /\ Limited \in BOOLEAN /\ Reconnects \in BOOLEAN

VARIABLES
    current,    \* connection_
    made,       \* how many connections connect() has made
    up,         \* the connections whose socket is open at both ends
    loop,       \* the read loop of each connection
    cpc,        \* where each request is in call
    sentOn,     \* the connection a request was sent on, 0 before
    pending,    \* pending_requests_
    late,       \* the requests whose deadline has passed
    failing,    \* swapped out by on_disconnect, callbacks not yet called
    dropping,   \* swapped out by disconnect, callbacks not yet called
    sweeping,   \* taken out by cleanup_expired_requests, same
    answers,    \* history: how often the callback of a request was called
    cleaner,    \* cleanup_thread_: none, running, ended (joinable)
    cleaning,   \* cleanup_running_
    owner,      \* where the owner is in disconnect
    breaker,    \* failures reported to the circuit breaker
    garbled,    \* recv_buffer_ begins in the middle of a message
    returned,   \* calls of call_sync that have returned
    aborted     \* the program has crashed or called std::terminate

placeVars == <<pending, failing, dropping, sweeping>>
connVars  == <<current, made, up, loop>>
threadVars == <<cleaner, cleaning, owner>>
vars == <<connVars, placeVars, threadVars, cpc, sentOn, late, answers, breaker,
          garbled, returned, aborted>>

Init ==
    /\ current = 0 /\ made = 0 /\ up = {}
    /\ loop = [g \in Gen |-> "none"]
    /\ cpc = [r \in Req |-> "new"]
    /\ sentOn = [r \in Req |-> 0]
    /\ pending = {} /\ failing = {} /\ dropping = {} /\ sweeping = {}
    /\ late = {}
    /\ answers = [r \in Req |-> 0]
    /\ cleaner = "none" /\ cleaning = FALSE
    /\ owner = "idle"
    /\ breaker = 0
    /\ garbled = FALSE
    /\ returned = {}
    /\ aborted = FALSE

Answer(r) == answers' = [answers EXCEPT ![r] = @ + 1]

-----------------------------------------------------------------------------
\* connect(): a new connection_, its read loop posted to the IoService, and a
\* new cleanup thread.  Assigning to a joinable std::thread terminates.
connect ==
    /\ ~aborted
    /\ owner = "idle" /\ current = 0 /\ made < MaxConn
    /\ Reconnects \/ cleaner = "none"
    /\ made' = made + 1
    /\ current' = made + 1
    /\ up' = up \cup {made + 1}
    /\ loop' = [loop EXCEPT ![made + 1] = "posted"]
    /\ cleaning' = TRUE
    /\ \/ cleaner = "none" /\ cleaner' = "running" /\ UNCHANGED aborted
       \/ cleaner # "none" /\ aborted' = TRUE /\ UNCHANGED cleaner
    /\ UNCHANGED <<placeVars, owner, cpc, sentOn, late, answers, breaker, garbled, returned>>

\* disconnect(): stop and join the cleanup thread ...
StopCleaner ==
    /\ ~aborted
    /\ owner = "idle" /\ made > 0
    /\ owner' = "stopping"
    /\ cleaning' = FALSE
    /\ UNCHANGED <<connVars, placeVars, cleaner, cpc, sentOn, late, answers, breaker, garbled, returned, aborted>>

JoinCleaner ==
    /\ ~aborted
    /\ owner = "stopping"
    /\ cleaner # "running"
    /\ cleaner' = "none"
    /\ owner' = "closing"
    /\ UNCHANGED <<connVars, placeVars, cleaning, cpc, sentOn, late, answers, breaker, garbled, returned, aborted>>

\* ... close and reset connection_ ...
CloseConnection ==
    /\ ~aborted
    /\ owner = "closing"
    /\ up' = up \ {current}
    /\ current' = 0
    /\ owner' = "swapping"
    /\ UNCHANGED <<made, loop, placeVars, cleaner, cleaning, cpc, sentOn, late, answers, breaker, garbled, returned, aborted>>

\* Mutant of SwapPending: the requests are copied, not swapped out.
CopyPending ==
    /\ ~aborted
    /\ owner = "swapping"
    /\ dropping' = pending
    /\ owner' = "dropping"
    /\ UNCHANGED <<connVars, pending, failing, sweeping, cleaner, cleaning, cpc, sentOn, late, answers, breaker, garbled, returned, aborted>>

\* ... take every pending request ...
SwapPending ==
    /\ ~aborted
    /\ owner = "swapping"
    /\ dropping' = pending /\ pending' = {}
    /\ owner' = "dropping"
    /\ UNCHANGED <<connVars, failing, sweeping, cleaner, cleaning, cpc, sentOn, late, answers, breaker, garbled, returned, aborted>>

\* ... and call their callbacks.
DropOne(r) ==
    /\ ~aborted
    /\ r \in dropping
    /\ dropping' = dropping \ {r}
    /\ Answer(r)
    /\ UNCHANGED <<connVars, pending, failing, sweeping, threadVars, cpc, sentOn, late, breaker, garbled, returned, aborted>>

Disconnected ==
    /\ ~aborted
    /\ owner = "dropping" /\ dropping = {}
    /\ owner' = "idle"
    /\ UNCHANGED <<connVars, placeVars, cleaner, cleaning, cpc, sentOn, late, answers, breaker, garbled, returned, aborted>>

-----------------------------------------------------------------------------
\* call: not connected, breaker OPEN or over the rate: the callback is told so
\* at once.
CallRefused(r) ==
    /\ ~aborted
    /\ cpc[r] = "new"
    /\ current = 0 \/ breaker >= Threshold \/ Limited
    /\ cpc' = [cpc EXCEPT ![r] = "done"]
    /\ Answer(r)
    /\ UNCHANGED <<connVars, placeVars, threadVars, sentOn, late, breaker, garbled, returned, aborted>>

CallChecked(r) ==
    /\ ~aborted
    /\ cpc[r] = "new"
    /\ current # 0 /\ breaker < Threshold
    /\ cpc' = [cpc EXCEPT ![r] = "checked"]
    /\ UNCHANGED <<connVars, placeVars, threadVars, sentOn, late, answers, breaker, garbled, returned, aborted>>

\* call: the id and the entry in pending_requests_, before the send.
CallRegister(r) ==
    /\ ~aborted
    /\ cpc[r] = "checked"
    /\ cpc' = [cpc EXCEPT ![r] = "registered"]
    /\ pending' = pending \cup {r}
    /\ UNCHANGED <<connVars, failing, dropping, sweeping, threadVars, sentOn, late, answers, breaker, garbled, returned, aborted>>

\* call: connection_->send.  connection_ was tested three steps ago.
CallSend(r) ==
    /\ ~aborted
    /\ cpc[r] = "registered"
    /\ cpc' = [cpc EXCEPT ![r] = "done"]
    /\ \/ current # 0 /\ sentOn' = [sentOn EXCEPT ![r] = current] /\ UNCHANGED aborted
       \/ current = 0 /\ aborted' = TRUE /\ UNCHANGED sentOn
    /\ UNCHANGED <<connVars, placeVars, threadVars, late, answers, breaker, garbled, returned>>

\* call_sync returns: answered, or timeout_seconds + 1 seconds have passed, which may
\* be at once: the deadline of a request passes at any time after it was entered.
SyncReturn(r) ==
    /\ ~aborted
    /\ r \in SyncReq \ returned
    /\ cpc[r] = "done"
    /\ answers[r] > 0 \/ r \in late
    /\ returned' = returned \cup {r}
    /\ UNCHANGED <<connVars, placeVars, threadVars, cpc, sentOn, late, answers, breaker, garbled, aborted>>

-----------------------------------------------------------------------------
\* The IoService thread starts a posted read loop when it is in no other. The client's
\* IoService is run by one thread, as its tests do; on the threads of a Service two
\* loops could append to recv_buffer_ at once, a data race without defined outcome.
StartLoop(g) ==
    /\ ~aborted
    /\ loop[g] = "posted"
    /\ \A h \in Gen : loop[h] \notin {"reading", "failing"}
    /\ loop' = [loop EXCEPT ![g] = "reading"]
    /\ UNCHANGED <<current, made, up, placeVars, threadVars, cpc, sentOn, late, answers, breaker, garbled, returned, aborted>>

\* on_message: the response to r arrives.  It is dropped when r is no longer
\* pending, and not recognised behind a piece of an older connection's stream.
on_message(g, r) ==
    /\ ~aborted
    /\ loop[g] = "reading" /\ g \in up
    /\ sentOn[r] = g
    /\ ~garbled
    /\ r \in pending
    /\ pending' = pending \ {r}
    /\ Answer(r)
    /\ UNCHANGED <<connVars, failing, dropping, sweeping, threadVars, cpc, sentOn, late, breaker, garbled, returned, aborted>>

PeerCloses(g) ==
    /\ ~aborted
    /\ g \in up /\ loop[g] = "reading"
    /\ up' = up \ {g}
    /\ UNCHANGED <<current, made, loop, placeVars, threadVars, cpc, sentOn, late, answers, breaker, garbled, returned, aborted>>

\* The read loop ends, possibly in the middle of a message, and calls
\* on_disconnect, which takes every pending request, whatever its connection ...
on_disconnect(g, partial) ==
    /\ ~aborted
    /\ loop[g] = "reading" /\ g \notin up
    /\ loop' = [loop EXCEPT ![g] = "failing"]
    /\ failing' = pending /\ pending' = {}
    /\ garbled' = (garbled \/ partial)
    /\ UNCHANGED <<current, made, up, dropping, sweeping, threadVars, cpc, sentOn, late, answers, breaker, returned, aborted>>

\* ... calls the callbacks ...
FailOne(r) ==
    /\ ~aborted
    /\ r \in failing
    /\ failing' = failing \ {r}
    /\ Answer(r)
    /\ UNCHANGED <<connVars, pending, dropping, sweeping, threadVars, cpc, sentOn, late, breaker, garbled, returned, aborted>>

\* ... and resets connection_, whichever it is by then.
ResetConnection(g) ==
    /\ ~aborted
    /\ loop[g] = "failing" /\ failing = {}
    /\ loop' = [loop EXCEPT ![g] = "over"]
    /\ current' = 0
    /\ UNCHANGED <<made, up, placeVars, threadVars, cpc, sentOn, late, answers, breaker, garbled, returned, aborted>>

-----------------------------------------------------------------------------
DeadlinePasses(r) ==
    /\ ~aborted
    /\ r \in pending \ late
    /\ late' = late \cup {r}
    /\ UNCHANGED <<connVars, placeVars, threadVars, cpc, sentOn, answers, breaker, garbled, returned, aborted>>

\* Mutant of Sweep: only requests that were sent are looked at, so one whose
\* send came too late is never swept.
SweepSent ==
    /\ ~aborted
    /\ cleaner = "running" /\ cleaning
    /\ sweeping = {} /\ pending \cap late # {}
    /\ sweeping' = {r \in pending \cap late : sentOn[r] \in up}
    /\ pending' = pending \ {r \in pending \cap late : sentOn[r] \in up}
    /\ UNCHANGED <<connVars, failing, dropping, threadVars, cpc, sentOn, late, answers, breaker, garbled, returned, aborted>>

\* The cleanup thread takes the requests whose deadline has passed ...
Sweep ==
    /\ ~aborted
    /\ cleaner = "running" /\ cleaning
    /\ sweeping = {} /\ pending \cap late # {}
    /\ sweeping' = pending \cap late
    /\ pending' = pending \ late
    /\ UNCHANGED <<connVars, failing, dropping, threadVars, cpc, sentOn, late, answers, breaker, garbled, returned, aborted>>

\* Mutant of TimeoutOne: the failure is recorded without asking whether the
\* breaker is OPEN.
TimeoutOneWhenOpen(r) ==
    /\ ~aborted
    /\ r \in sweeping
    /\ sweeping' = sweeping \ {r}
    /\ breaker' = breaker + 1
    /\ Answer(r)
    /\ UNCHANGED <<connVars, pending, failing, dropping, threadVars, cpc, sentOn, late, garbled, returned, aborted>>

\* ... reports each to the circuit breaker, which takes no more reports once it
\* is OPEN, and calls its callback.
TimeoutOne(r) ==
    /\ ~aborted
    /\ r \in sweeping
    /\ sweeping' = sweeping \ {r}
    /\ breaker' = IF breaker >= Threshold THEN breaker ELSE breaker + 1
    /\ Answer(r)
    /\ UNCHANGED <<connVars, pending, failing, dropping, threadVars, cpc, sentOn, late, garbled, returned, aborted>>

CleanerEnds ==
    /\ ~aborted
    /\ cleaner = "running" /\ ~cleaning /\ sweeping = {}
    /\ cleaner' = "ended"
    /\ UNCHANGED <<connVars, placeVars, cleaning, owner, cpc, sentOn, late, answers, breaker, garbled, returned, aborted>>

\* Nothing left to do within the bounds, or the program is gone.
Finished ==
    /\ aborted \/ (made = MaxConn /\ \A r \in Req : cpc[r] = "done" /\ answers[r] > 0)
    /\ UNCHANGED vars

CallStep(r) == CallRegister(r) \/ CallSend(r) \/ SyncReturn(r)

IoStep ==
    \/ \E g \in Gen : StartLoop(g) \/ ResetConnection(g)
    \/ \E g \in Gen, partial \in BOOLEAN : on_disconnect(g, partial)
    \/ \E r \in Req : FailOne(r)

CleanerStep == Sweep \/ (\E r \in Req : TimeoutOne(r)) \/ CleanerEnds

OwnerStep ==
    JoinCleaner \/ CloseConnection \/ SwapPending \/ (\E r \in Req : DropOne(r)) \/ Disconnected

Next ==
    \/ connect \/ StopCleaner \/ OwnerStep
    \/ \E r \in Req : CallRefused(r) \/ CallChecked(r) \/ CallStep(r) \/ DeadlinePasses(r)
    \/ IoStep
    \/ \E g \in Gen, r \in Req : on_message(g, r)
    \/ \E g \in Gen : PeerCloses(g)
    \/ CleanerStep
    \/ Finished

Spec == Init /\ [][Next]_vars

\* Threads run and clocks advance.  Nobody has to connect, call or disconnect,
\* and the server need not answer.
Fairness ==
    /\ \A r \in Req : WF_vars(CallStep(r)) /\ WF_vars(DeadlinePasses(r))
    /\ WF_vars(IoStep) /\ WF_vars(CleanerStep) /\ WF_vars(OwnerStep)

FairSpec == Spec /\ Fairness
-----------------------------------------------------------------------------
TypeOK ==
    /\ current \in 0..MaxConn /\ made \in 0..MaxConn /\ up \subseteq Gen
    /\ loop \in [Gen -> {"none", "posted", "reading", "failing", "over"}]
    /\ cpc \in [Req -> {"new", "checked", "registered", "done"}]
    /\ sentOn \in [Req -> 0..MaxConn]
    /\ pending \subseteq Req /\ failing \subseteq Req /\ dropping \subseteq Req
    /\ sweeping \subseteq Req /\ late \subseteq Req /\ returned \subseteq SyncReq
    /\ answers \in [Req -> Nat]
    /\ cleaner \in {"none", "running", "ended"} /\ cleaning \in BOOLEAN
    /\ owner \in {"idle", "stopping", "closing", "swapping", "dropping"}
    /\ breaker \in 0..Threshold
    /\ garbled \in BOOLEAN /\ aborted \in BOOLEAN

\* A callback is called exactly once: from the moment the request is registered
\* it is in exactly one of pending_requests_ and the lists of the three threads
\* that may answer it, or it has been answered, once.  A response, a time-out,
\* a lost connection and a disconnect that race for it cannot share it.
AnsweredOnce ==
    \A r \in Req :
        answers[r]
          + Cardinality({p \in {"pending", "failing", "dropping", "sweeping"} :
                \/ p = "pending" /\ r \in pending
                \/ p = "failing" /\ r \in failing
                \/ p = "dropping" /\ r \in dropping
                \/ p = "sweeping" /\ r \in sweeping})
        = IF cpc[r] \in {"registered", "done"} THEN 1 ELSE 0

\* The same, with the types.
CallsSound == TypeOK /\ AnsweredOnce

\* Every request that was registered is answered in the end, by whichever
\* thread, also when it is registered after on_disconnect took the others.
EveryCallAnswered ==
    \A r \in Req : (cpc[r] = "registered") ~> (answers[r] = 1 \/ aborted)

-----------------------------------------------------------------------------
(* What the comments of the code say and the code does not do.             *)

\* rpc_client.h, call: ok = false means a time-out or a lost connection; a
\* lost connection fails the requests that were sent on it.
FailureHasCause ==
    \A g \in Gen : loop[g] = "failing" => \A r \in failing : sentOn[r] \in {0, g}

\* rpc_client.h, call: a call that meets a lost connection is told by
\* callback(false); a call and connect() never bring the program down.
NoAbort == ~aborted

\* rpc_client.h, call_sync: blocks until the response or the time-out; its
\* callback writes to the frame of the call and must not outlive it.
FrameAlive ==
    [][\A r \in returned : answers'[r] = answers[r]]_vars
=============================================================================
