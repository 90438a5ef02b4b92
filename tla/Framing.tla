------------------------------ MODULE Framing -------------------------------
(***************************************************************************)
(* From bytes to requests: protocol::serialize, protocol::Parser, and the  *)
(* two servers that read messages off a TCP stream,                        *)
(* ProtocolRouterComponent (src/src/service/protocol_router.cpp), which    *)
(* keeps a Parser per connection, and RpcServer                            *)
(* (src/src/rpc/rpc_server.cpp), which keeps the bytes and parses them     *)
(* anew. TCP hands the bytes over in chunks of any size.                   *)
(*                                                                         *)
(* The stream is cut into units: a header is the units cmd and len, a body *)
(* is as many units as it is long; the first unit of a body is the request *)
(* id. Lengths are kept modulo LenMod, 2^16 in the code.                   *)
(***************************************************************************)
EXTENDS Naturals, Sequences

CONSTANTS
    Servers,        \* the servers: "router", "rpc"
    Method,         \* the commands clients send
    Sizes,          \* the body sizes they send
    LenMod,         \* the values a length field can hold
    CompactAt,      \* 4096 in compact_prefix
    MaxSent,        \* messages per connection
    MaxLink         \* connections, one after the other, at the same address

VARIABLES
    server,         \* which server it is
    methods,        \* methods_ of the RpcServer, handlers_ of the router
    sent,           \* the messages sent on this connection, with their ends in the stream
    stream,         \* all the units of these messages
    arrived,        \* how many of them TCP has delivered
    buffer, head,   \* buffer_ and head_ of the Parser, or buffers_[conn] and what feed has read of it
    stage,          \* the read loop: waiting for bytes, in Parser::feed, calling handlers
    messages,       \* the result of feed, without those that were handled
    handled,        \* the responses of the handlers, in order
    misread,        \* a unit was read as something it is not
    conns           \* connections so far

framingVars == <<server, methods, sent, stream, arrived, buffer, head, stage, messages, handled, misread, conns>>

Unit == [unit : {"cmd"}, val : Method] \cup [unit : {"len", "body"}, val : Nat]

\* What the code's types and the configuration give.
FramingAssumption ==
    /\ Servers \subseteq {"router", "rpc"} /\ Sizes \subseteq Nat
    /\ LenMod \in Nat \ {0} /\ CompactAt \in Nat
    /\ MaxSent \in Nat /\ MaxLink \in Nat \ {0}

serialize(m) ==
    [k \in 1..(2 + m.size) |->
        IF k = 1 THEN [unit |-> "cmd", val |-> m.cmd]
        ELSE IF k = 2 THEN [unit |-> "len", val |-> m.size % LenMod]
        ELSE [unit |-> "body", val |-> IF k = 3 THEN m.id ELSE 0]]

TypeOK ==
    /\ server \in Servers /\ methods \subseteq Method
    /\ sent \in Seq([cmd : Method, size : Nat, id : Nat, end : Nat]) /\ Len(sent) <= MaxSent
    /\ stream \in Seq(Unit) /\ arrived \in 0..Len(stream)
    /\ buffer \in Seq(Unit) /\ head \in 0..Len(buffer)
    /\ stage \in {"wait", "feed", "dispatch"}
    /\ messages \in Seq([cmd : Method, id : Nat \cup Method])
    /\ handled \in Seq([id : Nat \cup Method, said : {"answer", "exception", "unknown"}])
    /\ misread \in BOOLEAN /\ conns \in 1..MaxLink

Init ==
    /\ server \in Servers /\ methods = Method
    /\ sent = <<>> /\ stream = <<>> /\ arrived = 0
    /\ buffer = <<>> /\ head = 0 /\ stage = "wait" /\ messages = <<>> /\ handled = <<>>
    /\ misread = FALSE /\ conns = 1

-----------------------------------------------------------------------------
\* The client: ids are 1, 2, ... in the order of the requests.
Send(c, n) ==
    /\ Len(sent) < MaxSent
    /\ LET m == [cmd |-> c, size |-> n, id |-> IF n = 0 THEN 0 ELSE Len(sent) + 1, end |-> Len(stream) + 2 + n]
       IN sent' = Append(sent, m) /\ stream' = stream \o serialize(m)
    /\ UNCHANGED <<server, methods, arrived, buffer, head, stage, messages, handled, misread, conns>>

register_method(c) ==
    /\ c \notin methods
    /\ methods' = methods \cup {c}
    /\ UNCHANGED <<server, sent, stream, arrived, buffer, head, stage, messages, handled, misread, conns>>

unregister_method(c) ==
    /\ server = "rpc" /\ c \in methods
    /\ methods' = methods \ {c}
    /\ UNCHANGED <<server, sent, stream, arrived, buffer, head, stage, messages, handled, misread, conns>>

-----------------------------------------------------------------------------
\* ProtocolRouterComponent::on_message and RpcServer::handle_message begin alike: n more units
\* are appended, here to those the Parser kept, there to those not erased, of which a copy goes
\* to a fresh Parser, whose head_ is 0.
on_message(n) ==
    /\ stage = "wait" /\ ~misread /\ n <= Len(stream) - arrived
    /\ buffer' = buffer \o SubSeq(stream, arrived + 1, arrived + n)
    /\ arrived' = arrived + n
    /\ stage' = "feed"
    /\ UNCHANGED <<server, methods, sent, stream, head, messages, handled, misread, conns>>

Avail == Len(buffer) - head
Misaligned == Avail >= 2 /\ (buffer[head + 1].unit # "cmd" \/ buffer[head + 2].unit # "len")
body_len == buffer[head + 2].val
Whole == Avail >= 2 /\ ~Misaligned /\ Avail >= 2 + body_len

\* A turn of the loop of Parser::feed that finds a whole message.
feed ==
    /\ stage = "feed" /\ Whole
    /\ messages' = Append(messages, [cmd |-> buffer[head + 1].val,
                                     id |-> IF body_len = 0 THEN 0 ELSE buffer[head + 3].val])
    /\ head' = head + 2 + body_len
    /\ UNCHANGED <<server, methods, sent, stream, arrived, buffer, stage, handled, misread, conns>>

\* A plausible bug: the parsed prefix is dropped and head_ still counts it.
compact_keeping_head(buf, h) ==
    IF h >= CompactAt /\ 2 * h >= Len(buf) THEN [buffer |-> SubSeq(buf, h + 1, Len(buf)), head |-> h]
    ELSE [buffer |-> buf, head |-> h]

compact_prefix(buf, h) ==
    IF h >= CompactAt /\ 2 * h >= Len(buf) THEN [buffer |-> SubSeq(buf, h + 1, Len(buf)), head |-> 0]
    ELSE [buffer |-> buf, head |-> h]

\* The turn that finds none ends the loop; the Parser that lives on compacts its buffer.
feed_ends ==
    /\ stage = "feed" /\ ~Whole
    /\ misread' = Misaligned
    /\ LET c == compact_prefix(buffer, head)
       IN IF server = "router" THEN buffer' = c.buffer /\ head' = c.head ELSE UNCHANGED <<buffer, head>>
    /\ stage' = "dispatch"
    /\ UNCHANGED <<server, methods, sent, stream, arrived, messages, handled, conns>>

\* What becomes of a request: the handler's response, which RpcServer makes of an exception too,
\* or that nobody registered the method; the id goes back.
Reply(m) ==
    IF m.cmd \notin methods THEN {"unknown"}
    ELSE {"answer"} \cup {s \in {"exception"} : server = "rpc"}

\* One message is looked up and handled.
dispatch ==
    /\ stage = "dispatch" /\ messages # <<>>
    /\ \E s \in Reply(Head(messages)) : handled' = Append(handled, [id |-> Head(messages).id, said |-> s])
    /\ messages' = Tail(messages)
    /\ UNCHANGED <<server, methods, sent, stream, arrived, buffer, head, stage, misread, conns>>

\* The router's loop ends.
Routed ==
    /\ stage = "dispatch" /\ messages = <<>> /\ server = "router"
    /\ stage' = "wait"
    /\ UNCHANGED <<server, methods, sent, stream, arrived, buffer, head, messages, handled, misread, conns>>

\* A plausible bug: the bytes of the messages that were handled are not erased.
EraseNothing ==
    /\ stage = "dispatch" /\ messages = <<>> /\ server = "rpc"
    /\ head' = 0
    /\ stage' = "wait"
    /\ UNCHANGED <<server, methods, sent, stream, arrived, buffer, messages, handled, misread, conns>>

\* The end of handle_message: what the messages took up is erased from buffers_[conn].
EraseConsumed ==
    /\ stage = "dispatch" /\ messages = <<>> /\ server = "rpc"
    /\ buffer' = SubSeq(buffer, head + 1, Len(buffer)) /\ head' = 0
    /\ stage' = "wait"
    /\ UNCHANGED <<server, methods, sent, stream, arrived, messages, handled, misread, conns>>

\* on_disconnect and handle_disconnect forget the bytes; they come from the read loop, after its
\* last message. The next connection may get the same address.
on_disconnect ==
    /\ stage = "wait" /\ conns < MaxLink
    /\ sent' = <<>> /\ stream' = <<>> /\ arrived' = 0 /\ buffer' = <<>> /\ head' = 0 /\ handled' = <<>>
    /\ conns' = conns + 1 /\ misread' = FALSE
    /\ UNCHANGED <<server, methods, stage, messages>>

Next ==
    \/ \E c \in Method : register_method(c) \/ unregister_method(c) \/ \E n \in Sizes : Send(c, n)
    \/ \E n \in 1..(Len(stream) - arrived) : on_message(n)
    \/ feed \/ feed_ends \/ dispatch \/ Routed \/ EraseConsumed
    \/ on_disconnect

Spec == Init /\ [][Next]_framingVars

-----------------------------------------------------------------------------
(***************************************************************************)
(* However the bytes are cut, a server reads no unit for what it is not,   *)
(* handles the requests in the order in which they were sent and answers   *)
(* each with its own id, and when it waits for bytes it has handled those  *)
(* whose last byte has arrived, as long as the bodies fit the length field *)
(***************************************************************************)
EveryRequestOnce ==
    (\A i \in DOMAIN sent : sent[i].size < LenMod) =>
        /\ ~misread
        /\ Len(handled) <= Len(sent)
        /\ \A i \in DOMAIN handled : handled[i].id = sent[i].id
        /\ stage = "wait" => \A i \in DOMAIN sent : i <= Len(handled) <=> sent[i].end <= arrived

(***************************************************************************)
(* Does not hold: every message sent can be read. serialize narrows the    *)
(* size of the body to 16 bits, so the bytes of a longer body are read as  *)
(* headers.                                                                *)
(***************************************************************************)
NeverGarbled == ~misread
=============================================================================
