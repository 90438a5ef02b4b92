----------------------------- MODULE StateSync -----------------------------
(***************************************************************************)
(* sync::StateSyncRoom and sync::StateSyncComponent                        *)
(* (include/chwell/sync/state_sync.h, src/sync/state_sync.cpp): entities   *)
(* have properties, updates replace them and are sent as diffs to the      *)
(* connections that subscribed to the entity.                              *)
(*                                                                         *)
(* A room is used in two ways.  The application may own one and call it    *)
(* directly (own); the component keeps a map of rooms and serves messages. *)
(* Every method of a room is one critical section, in which the callbacks  *)
(* that send diffs and snapshots run too.  A value is represented by the   *)
(* time stamp of the update that wrote it.                                 *)
(*                                                                         *)
(* No statement of the code enters anything into connections_, so          *)
(* get_room_id finds no room and the handlers of messages do nothing; they *)
(* are written here as in the code.                                        *)
(***************************************************************************)
EXTENDS Naturals, FiniteSets

CONSTANTS
    Conn, Entity, Prop,
    RoomId,     \* ids of rooms of the component
    Stamp,      \* time stamps of updates
    Hooks       \* callbacks the application sets on its room: a set of
                \* subsets of {"diff", "snapshot"}

VARIABLES
    own,        \* the application's room
    hooks,      \* the callbacks it has
    rooms,      \* rooms_ of the component
    joined,     \* connections_ of the component
    alive,      \* connections that are open
    views,      \* per connection what the diffs told it of entities it is subscribed to
    fresh,      \* history: what was updated while the connection was subscribed
    hung        \* a thread waits for the mutex it holds

vars == <<own, hooks, rooms, joined, alive, views, fresh, hung>>

Field == Entity \X Prop
NewRoom == [val |-> <<>>, stamp |-> <<>>, subs |-> [e \in Entity |-> {}], known |-> {}]

Init ==
    /\ own = NewRoom /\ hooks \in Hooks
    /\ rooms = <<>> /\ joined = <<>>
    /\ alive = Conn
    /\ views = [c \in Conn |-> <<>>] /\ fresh = [c \in Conn |-> {}]
    /\ hung = FALSE

With(f, x, v) == [y \in DOMAIN f \cup {x} |-> IF y = x THEN v ELSE f[y]]
DropEntity(f, e) == [x \in {y \in DOMAIN f : y[1] # e} |-> f[x]]

-----------------------------------------------------------------------------
\* What the methods of StateSyncRoom make of a room.  An update replaces value
\* and time stamp, whatever the time stamp was.
Updated(r, e, p, t) == [r EXCEPT !.val = With(@, <<e, p>>, t), !.stamp = With(@, e, t)]
Subscribed(r, e, c) == [r EXCEPT !.subs[e] = @ \cup {c}, !.known = @ \cup {c}]

\* Mutant of Unsubscribed: the connection is forgotten for all entities.
UnsubscribedEverywhere(r, e, c) == [r EXCEPT !.subs[e] = @ \ {c}, !.known = @ \ {c}]

\* connection_map_ keeps the connection.
Unsubscribed(r, e, c) == [r EXCEPT !.subs[e] = @ \ {c}]

\* Subscribers that connection_map_ resolves; send drops what is for a closed
\* connection.
Receivers(r, e) == r.subs[e] \cap r.known

send_state_diff(S, e, p, t) ==
    views' = [c \in Conn |-> IF c \in S \cap alive THEN With(views[c], <<e, p>>, t) ELSE views[c]]

-----------------------------------------------------------------------------
\* The application and its own room.
update_state(e, p, t) ==
    /\ ~hung
    /\ own' = Updated(own, e, p, t)
    /\ IF "diff" \in hooks THEN send_state_diff(Receivers(own, e), e, p, t) ELSE UNCHANGED views
    /\ fresh' = [c \in Conn |-> IF c \in own.subs[e] THEN fresh[c] \cup {<<e, p>>} ELSE fresh[c]]
    /\ UNCHANGED <<hooks, rooms, joined, alive, hung>>

\* subscribe holds mutex_ when it calls create_snapshot, which locks it again.
subscribe(e, c) ==
    /\ ~hung /\ c \in alive
    /\ own' = Subscribed(own, e, c)
    /\ hung' = ("snapshot" \in hooks)
    /\ UNCHANGED <<hooks, rooms, joined, alive, views, fresh>>

unsubscribe(e, c) ==
    /\ ~hung
    /\ own' = Unsubscribed(own, e, c)
    /\ views' = [views EXCEPT ![c] = DropEntity(@, e)]
    /\ fresh' = [fresh EXCEPT ![c] = {x \in @ : x[1] # e}]
    /\ UNCHANGED <<hooks, rooms, joined, alive, hung>>

-----------------------------------------------------------------------------
\* The component.
create_room(r) ==
    /\ r \notin DOMAIN rooms
    /\ rooms' = With(rooms, r, NewRoom)
    /\ UNCHANGED <<own, hooks, joined, alive, views, fresh, hung>>

destroy_room(r) ==
    /\ r \in DOMAIN rooms
    /\ rooms' = [x \in DOMAIN rooms \ {r} |-> rooms[x]]
    /\ UNCHANGED <<own, hooks, joined, alive, views, fresh, hung>>

\* The rooms S, at most one, are updated; its subscribers get the diff.
RoomUpdated(S, e, p, t) ==
    /\ rooms' = [r \in DOMAIN rooms |-> IF r \in S THEN Updated(rooms[r], e, p, t) ELSE rooms[r]]
    /\ send_state_diff(UNION {Receivers(rooms[r], e) : r \in S}, e, p, t)
    /\ UNCHANGED <<own, hooks, joined, alive, fresh, hung>>

\* update_state(room_id, update) of the component; without a room, nothing.
UpdateRoom(r, e, p, t) == RoomUpdated({r} \cap DOMAIN rooms, e, p, t)

\* get_room_id: the room of a connection as a set of at most one.
get_room_id(c) == IF c \in DOMAIN joined THEN {joined[c]} \cap DOMAIN rooms ELSE {}

\* A message of connection c is applied to the room of the connection.
handle_state_update(c, e, p, t) == c \in alive /\ RoomUpdated(get_room_id(c), e, p, t)

\* create_room sets the snapshot callback, so subscribe would lock mutex_ twice.
handle_state_subscribe(c, e) ==
    /\ c \in alive
    /\ rooms' = [r \in DOMAIN rooms |-> IF r \in get_room_id(c) THEN Subscribed(rooms[r], e, c) ELSE rooms[r]]
    /\ hung' = (hung \/ get_room_id(c) # {})
    /\ UNCHANGED <<own, hooks, joined, alive, views, fresh>>

handle_state_unsubscribe(c, e) ==
    /\ c \in alive
    /\ rooms' = [r \in DOMAIN rooms |-> IF r \in get_room_id(c) THEN Unsubscribed(rooms[r], e, c) ELSE rooms[r]]
    /\ UNCHANGED <<own, hooks, joined, alive, views, fresh, hung>>

\* The connection is forgotten by connections_ and stays subscribed.
on_disconnect(c) ==
    /\ c \in alive
    /\ alive' = alive \ {c}
    /\ joined' = [x \in DOMAIN joined \ {c} |-> joined[x]]
    /\ UNCHANGED <<own, hooks, rooms, views, fresh, hung>>

Next ==
    \/ \E e \in Entity, p \in Prop, t \in Stamp :
           \/ update_state(e, p, t)
           \/ \E r \in RoomId : UpdateRoom(r, e, p, t)
           \/ \E c \in Conn : handle_state_update(c, e, p, t)
    \/ \E e \in Entity, c \in Conn :
           \/ subscribe(e, c) \/ unsubscribe(e, c)
           \/ handle_state_subscribe(c, e) \/ handle_state_unsubscribe(c, e)
    \/ \E r \in RoomId : create_room(r) \/ destroy_room(r)
    \/ \E c \in Conn : on_disconnect(c)

Spec == Init /\ [][Next]_vars

-----------------------------------------------------------------------------
TypeOK ==
    /\ \A r \in {own} \cup {rooms[x] : x \in DOMAIN rooms} :
           /\ DOMAIN r.val \subseteq Field /\ DOMAIN r.stamp \subseteq Entity
           /\ r.subs \in [Entity -> SUBSET Conn] /\ r.known \subseteq Conn
    /\ DOMAIN joined \subseteq Conn /\ alive \subseteq Conn
    /\ \A c \in Conn : DOMAIN views[c] \subseteq Field
    /\ hung \in BOOLEAN

\* What an open connection was told of the entities it is subscribed to is what
\* the room has now, and it was told of every change since it subscribed,
\* whatever it and others subscribed and unsubscribed meanwhile.
SubscribersFollow ==
    "diff" \in hooks =>
        \A c \in alive :
            /\ fresh[c] = DOMAIN views[c]
            /\ \A x \in DOMAIN views[c] : views[c][x] = own.val[x]

\* Does not hold: "连接断开时自动取消订阅" (state_sync.h:355), a closed connection is
\* subscribed to nothing.
ClosedUnsubscribed == \A e \in Entity : own.subs[e] \subseteq alive

\* Does not hold when a snapshot callback is set: subscribe returns.
SubscribeReturns == ~hung

\* Does not hold: an entity never goes back to an older time stamp.
NewestWins == [][\A e \in DOMAIN own.stamp : own'.stamp[e] >= own.stamp[e]]_vars
=============================================================================
