----------------------------- MODULE FrameSync ------------------------------
(***************************************************************************)
(* sync::FrameSyncComponent and its FrameSyncRooms                         *)
(* (include/chwell/sync/frame_sync.h, src/sync/frame_sync.cpp): players in *)
(* rooms submit one input per frame, and the room moves to the next frame  *)
(* when every player's input is there.                                     *)
(*                                                                         *)
(* Handlers run on the read loop of their connection, the application's    *)
(* calls on any thread.  A critical section of the component's mutex_ is   *)
(* one action (a room's own mutex_ is only taken inside it), except where  *)
(* the code calls, inside the section, something that locks mutex_ again:  *)
(* there the section ends in a state in which mutex is still held.         *)
(*                                                                         *)
(* An input is its frame_id.  Getters, and the state and snapshot bytes,   *)
(* are left out.  get_all_inputs cannot be called on a room of the         *)
(* component: rooms_ is private and the component does not call it.        *)
(***************************************************************************)
EXTENDS Naturals, Sequences, FiniteSets

CONSTANTS
    Player, Room, Conn,
    App,            \* the application's thread
    Free,           \* nobody holds mutex_
    KeepSnapshots,  \* 10 in the code
    MaxFrame,       \* bound of the model: frame ids of inputs and snapshots
    MaxQueue,       \* bound of the model: inputs waiting in one queue
    AppDestroys,    \* the application calls destroy_room itself
    AppLeaves       \* the application calls leave_room itself

ASSUME FrameSyncAssumption ==
    /\ App \notin Conn /\ Free \notin Conn \cup {App}
    /\ KeepSnapshots \in Nat \ {0}
    /\ MaxFrame \in Nat /\ MaxQueue \in Nat
    /\ AppDestroys \in BOOLEAN /\ AppLeaves \in BOOLEAN

Frame == 0..MaxFrame
Thread == Conn \cup {App}
Member == Player \X Room    \* the arguments of a leave_room

VARIABLES
    rooms,      \* the keys of rooms_
    players,    \* per room, the keys of players_ with their connection
    inputs,     \* per room, player_inputs_: a queue for each of its keys
    frame,      \* per room, current_frame_
    snapshots,  \* per room, the keys of snapshots_
    info,       \* connections_: the player and room of each key
    mutex,      \* the thread that holds mutex_ between two actions
    pc,         \* where a thread is in handle_frame_input or broadcast
    input,      \* the frame id of the message being handled
    where,      \* the room id that get_room_id returned ("": none)
    open,       \* connections whose read loop has not ended
    late,       \* history: connections that were joined after their on_disconnect
    leaving,    \* members on_disconnect is about to call leave_room for
    dying       \* leave_room calls that are about to call destroy_room

roomVars == <<rooms, players, inputs, frame, snapshots>>
handlerVars == <<mutex, pc, input, where>>
connVars == <<open, late>>
leaveVars == <<leaving, dying>>
vars == <<roomVars, info, handlerVars, connVars, leaveVars>>

\* A function with no arguments: an empty std::unordered_map.
Empty == [k \in {} |-> 0]

Set(f, k, v) == [x \in DOMAIN f \cup {k} |-> IF x = k THEN v ELSE f[x]]

Erase(f, k) == [x \in DOMAIN f \ {k} |-> f[x]]

NoRoom == ""

Init ==
    /\ rooms = {}
    /\ players = [r \in Room |-> Empty]
    /\ inputs = [r \in Room |-> Empty]
    /\ frame = [r \in Room |-> 0]
    /\ snapshots = [r \in Room |-> {}]
    /\ info = Empty
    /\ mutex = Free
    /\ pc = [t \in Thread |-> "idle"]
    /\ input = [c \in Conn |-> 0] /\ where = [c \in Conn |-> NoRoom]
    /\ open = Conn /\ late = {}
    /\ leaving = {} /\ dying = {}

-----------------------------------------------------------------------------
\* create_room: a new room, unless there is one.
create_room(r) ==
    /\ mutex = Free
    /\ r \notin rooms
    /\ rooms' = rooms \cup {r}
    /\ players' = [players EXCEPT ![r] = Empty]
    /\ inputs' = [inputs EXCEPT ![r] = Empty]
    /\ frame' = [frame EXCEPT ![r] = 0]
    /\ snapshots' = [snapshots EXCEPT ![r] = {}]
    /\ UNCHANGED <<info, handlerVars, connVars, leaveVars>>

\* The room goes, with whoever is in it; connections_ is not touched.
RemoveRoom(r) ==
    /\ rooms' = rooms \ {r}
    /\ players' = [players EXCEPT ![r] = Empty]
    /\ inputs' = [inputs EXCEPT ![r] = Empty]
    /\ frame' = [frame EXCEPT ![r] = 0]
    /\ snapshots' = [snapshots EXCEPT ![r] = {}]

destroy_room(r) ==
    /\ AppDestroys
    /\ mutex = Free
    /\ r \in rooms
    /\ RemoveRoom(r)
    /\ UNCHANGED <<info, handlerVars, connVars, leaveVars>>

\* join_room and join_player: the player's connection is replaced and its queue
\* starts empty; a room that the connection was in before is not left.  Nothing
\* asks whether the connection is still there.
join_room(p, r, c) ==
    /\ mutex = Free
    /\ r \in rooms
    /\ players' = [players EXCEPT ![r] = Set(@, p, c)]
    /\ inputs' = [inputs EXCEPT ![r] = Set(@, p, <<>>)]
    /\ info' = Set(info, c, [player |-> p, room |-> r])
    /\ late' = late \cup ({c} \ open)
    /\ UNCHANGED <<rooms, frame, snapshots, handlerVars, open, leaveVars>>

\* Mutant of LeaveSection: the connections are not cleaned up and the player
\* stays in players_.
LeaveSectionOnlyQueue(p, r) ==
    /\ IF r \in rooms
       THEN /\ inputs' = [inputs EXCEPT ![r] = Erase(@, p)]
            /\ dying' = IF DOMAIN inputs[r] \ {p} = {} THEN dying \cup {<<p, r>>} ELSE dying
       ELSE UNCHANGED <<inputs, dying>>
    /\ UNCHANGED <<rooms, players, frame, snapshots, info, handlerVars, connVars>>

\* leave_room up to the unlock: the player leaves the room, all its connections
\* to that room are forgotten, and should_destroy is computed.
LeaveSection(p, r) ==
    /\ IF r \in rooms
       THEN /\ players' = [players EXCEPT ![r] = Erase(@, p)]
            /\ inputs' = [inputs EXCEPT ![r] = Erase(@, p)]
            /\ dying' = IF DOMAIN inputs[r] \ {p} = {} THEN dying \cup {<<p, r>>} ELSE dying
       ELSE UNCHANGED <<players, inputs, dying>>
    /\ info' = [c \in {d \in DOMAIN info : info[d] # [player |-> p, room |-> r]} |-> info[c]]
    /\ UNCHANGED <<rooms, frame, snapshots, handlerVars, connVars>>

\* The application's calls, for members and others, at most one at a time for
\* one pair.
leave_room(p, r) ==
    /\ AppLeaves
    /\ mutex = Free
    /\ <<p, r>> \notin dying
    /\ LeaveSection(p, r)
    /\ UNCHANGED leaving

\* leave_room after the unlock: destroy_room, whoever has joined meanwhile.
LeaveDestroys(p, r) ==
    /\ mutex = Free
    /\ <<p, r>> \in dying
    /\ dying' = dying \ {<<p, r>>}
    /\ RemoveRoom(r)
    /\ UNCHANGED <<info, handlerVars, connVars, leaving>>

\* Mutant of on_disconnect: the entry of the connection stays.
on_disconnectKeepingInfo(c) ==
    /\ mutex = Free
    /\ c \in open /\ pc[c] = "idle"
    /\ open' = open \ {c}
    /\ leaving' = IF c \in DOMAIN info
                  THEN leaving \cup {<<info[c].player, info[c].room>>} ELSE leaving
    /\ UNCHANGED <<roomVars, info, handlerVars, late, dying>>

\* on_disconnect: the connection is forgotten, and then leave_room is called for
\* the player it stood for.
on_disconnect(c) ==
    /\ mutex = Free
    /\ c \in open /\ pc[c] = "idle"
    /\ open' = open \ {c}
    /\ leaving' = IF c \in DOMAIN info
                  THEN leaving \cup {<<info[c].player, info[c].room>>} ELSE leaving
    /\ info' = Erase(info, c)
    /\ UNCHANGED <<roomVars, handlerVars, late, dying>>

LeaveOnDisconnect(p, r) ==
    /\ mutex = Free
    /\ <<p, r>> \in leaving
    /\ leaving' = leaving \ {<<p, r>>}
    /\ LeaveSection(p, r)

-----------------------------------------------------------------------------
\* The rooms submit_input may find: those of a connection of the player, as far
\* as they exist.  With several, the order of the hash map decides.
RoomsOf(p) == {info[c].room : c \in {d \in DOMAIN info : info[d].player = p}} \cap rooms

\* handle_frame_input: the message names a player and a frame; submit_input
\* queues the input in a room of that player, if there is one.  The queue is
\* made if the room has none for the player (operator[]).
submit_input(c, p, f) ==
    /\ mutex = Free
    /\ c \in open /\ pc[c] = "idle"
    /\ pc' = [pc EXCEPT ![c] = "submitted"]
    /\ input' = [input EXCEPT ![c] = f]
    /\ \/ RoomsOf(p) = {} /\ UNCHANGED inputs
       \/ \E r \in RoomsOf(p) :
            LET queue == IF p \in DOMAIN inputs[r] THEN inputs[r][p] ELSE <<>>
            IN  /\ Len(queue) < MaxQueue
                /\ inputs' = [inputs EXCEPT ![r] = Set(@, p, Append(queue, f))]
    /\ UNCHANGED <<rooms, players, frame, snapshots, info, mutex, where, connVars, leaveVars>>

\* ... then get_room_id of the connection, in a critical section of its own ...
get_room_id(c) ==
    /\ mutex = Free
    /\ pc[c] = "submitted"
    /\ IF c \in DOMAIN info
       THEN pc' = [pc EXCEPT ![c] = "located"] /\ where' = [where EXCEPT ![c] = info[c].room]
       ELSE pc' = [pc EXCEPT ![c] = "idle"] /\ UNCHANGED where
    /\ UNCHANGED <<roomVars, info, mutex, input, connVars, leaveVars>>

\* Mutant of all_inputs_ready: a player who has sent nothing is skipped.
all_inputs_readySkipping(r, f) ==
    \A p \in DOMAIN inputs[r] : inputs[r][p] # <<>> => Head(inputs[r][p]) = f

all_inputs_ready(r, f) ==
    \A p \in DOMAIN inputs[r] : inputs[r][p] # <<>> /\ Head(inputs[r][p]) = f

\* ... then the last section: is every input of this frame there?  If so the
\* room moves on and broadcast_frame_state is called, with mutex_ still locked.
CheckReady(c) ==
    /\ mutex = Free
    /\ pc[c] = "located"
    /\ where' = [where EXCEPT ![c] = NoRoom]
    /\ IF where[c] \in rooms /\ all_inputs_ready(where[c], input[c])
       THEN /\ frame' = [frame EXCEPT ![where[c]] = @ + 1]
            /\ pc' = [pc EXCEPT ![c] = "broadcasting"]
            /\ mutex' = c
       ELSE /\ pc' = [pc EXCEPT ![c] = "idle"]
            /\ UNCHANGED <<frame, mutex>>
    /\ UNCHANGED <<rooms, players, inputs, snapshots, info, input, connVars, leaveVars>>

\* The application calls broadcast_frame_state.
CallBroadcast ==
    /\ pc[App] = "idle"
    /\ pc' = [pc EXCEPT ![App] = "broadcasting"]
    /\ UNCHANGED <<roomVars, info, mutex, input, where, connVars, leaveVars>>

\* broadcast_frame_state: locks mutex_ (std::mutex, not recursive) for the
\* connections of the room, then sends; a handler that called it unlocks after.
broadcast_frame_state(t) ==
    /\ pc[t] = "broadcasting"
    /\ mutex = Free
    /\ pc' = [pc EXCEPT ![t] = "idle"]
    /\ UNCHANGED <<roomVars, info, mutex, input, where, connVars, leaveVars>>

\* Mutant of Trim: one snapshot too many is kept.
TrimLate(s) == IF Cardinality(s) <= KeepSnapshots + 1 THEN {s} ELSE {s \ {f} : f \in s}

\* What erase(begin()) leaves of an unordered_map that has grown past the limit.
Trim(s) == IF Cardinality(s) <= KeepSnapshots THEN {s} ELSE {s \ {f} : f \in s}

\* create_snapshot: any frame, in any order.
create_snapshot(r, f) ==
    /\ mutex = Free
    /\ r \in rooms
    /\ \E s \in Trim(snapshots[r] \cup {f}) : snapshots' = [snapshots EXCEPT ![r] = s]
    /\ UNCHANGED <<rooms, players, inputs, frame, info, handlerVars, connVars, leaveVars>>

LeaveStep(p, r) == LeaveDestroys(p, r) \/ LeaveOnDisconnect(p, r)

HandlerStep(c) == get_room_id(c) \/ CheckReady(c) \/ broadcast_frame_state(c)

Next ==
    \/ \E r \in Room : create_room(r) \/ destroy_room(r)
    \/ \E p \in Player, r \in Room : leave_room(p, r) \/ LeaveStep(p, r)
    \/ \E p \in Player, r \in Room, c \in Conn : join_room(p, r, c)
    \/ \E c \in Conn : on_disconnect(c) \/ HandlerStep(c)
    \/ \E c \in Conn, p \in Player, f \in Frame : submit_input(c, p, f)
    \/ \E r \in Room, f \in Frame : create_snapshot(r, f)
    \/ CallBroadcast \/ broadcast_frame_state(App)

Spec == Init /\ [][Next]_vars

\* A thread inside a call goes on.
Fairness ==
    /\ \A c \in Conn : WF_vars(HandlerStep(c))
    /\ \A m \in Member : WF_vars(LeaveStep(m[1], m[2]))
    /\ WF_vars(broadcast_frame_state(App))

FairSpec == Spec /\ Fairness
-----------------------------------------------------------------------------
TypeOK ==
    /\ rooms \subseteq Room
    /\ \A r \in Room :
        /\ DOMAIN players[r] \subseteq Player
        /\ \A p \in DOMAIN players[r] : players[r][p] \in Conn
        /\ DOMAIN inputs[r] \subseteq Player
        /\ \A p \in DOMAIN inputs[r] : inputs[r][p] \in Seq(Frame)
        /\ frame[r] \in Nat
        /\ snapshots[r] \subseteq Frame
        /\ Cardinality(snapshots[r]) <= KeepSnapshots
    /\ DOMAIN info \subseteq Conn
    /\ \A c \in DOMAIN info : info[c].player \in Player /\ info[c].room \in Room
    /\ mutex \in Conn \cup {Free}
    /\ pc \in [Thread -> {"idle", "submitted", "located", "broadcasting"}]
    /\ input \in [Conn -> Frame] /\ where \in [Conn -> Room \cup {NoRoom}]
    /\ open \subseteq Conn /\ late \subseteq Conn
    /\ leaving \subseteq Member /\ dying \subseteq Member

\* players_ and player_inputs_ of a room are two maps that join_player,
\* leave_player and submit_input keep by hand: everybody who is broadcast to is
\* waited for by all_inputs_ready.
QueuesCoverPlayers ==
    \A r \in Room : DOMAIN players[r] \subseteq DOMAIN inputs[r]

\* A room moves on only when every player it broadcasts to has an input at the
\* head of its queue, and all of them for the same frame (handle_frame_input).
AdvanceNeedsEveryPlayer ==
    [][\A r \in Room : frame'[r] > frame[r] =>
          /\ \A p \in DOMAIN players[r] : inputs[r][p] # <<>>
          /\ \A p, q \in DOMAIN players[r] : Head(inputs[r][p]) = Head(inputs[r][q])]_vars

\* connections_, whose keys are raw pointers, forgets a connection when its read
\* loop ends (on_disconnect): an entry is of an open connection or was made by a
\* join_room that came after the disconnect.
MappedByJoin == DOMAIN info \subseteq open \cup late

\* The maps a room and the component keep by hand agree after any interleaving
\* of joins, leaves, inputs and disconnects.
RoomMapsAgree == TypeOK /\ QueuesCoverPlayers /\ MappedByJoin

-----------------------------------------------------------------------------
(* What the comments of the code say and the code does not do.             *)

\* frame_sync.cpp, broadcast_frame_state: the locks are taken in an order that
\* avoids deadlock.  So a thread that broadcasts gets through.
BroadcastReturns ==
    \A t \in Thread : (pc[t] = "broadcasting") ~> (pc[t] = "idle")

\* frame_sync.h, connections_: the connection-to-room mapping is maintained; a
\* mapped connection's room exists and holds its player.
MappingMaintained ==
    \A c \in DOMAIN info :
        info[c].room \in rooms /\ info[c].player \in DOMAIN players[info[c].room]

\* frame_sync.h, on_disconnect: a connection that is gone is mapped no more.  A
\* join_room that is handled after it enters the pointer for good.
OnlyOpenMapped == DOMAIN info \subseteq open

\* frame_sync.h, on_disconnect: a connection that breaks leaves its room.  The
\* player who is back on a connection of its own does not.
OnlyBrokenLeave ==
    [][\A r \in Room : r \in rooms \cap rooms' =>
          \A p \in DOMAIN players[r] : players[r][p] \in open =>
              p \in DOMAIN players'[r]]_vars

\* frame_sync.h, create_snapshot: only the latest 10 snapshots are kept; what a
\* new one pushes out is older than what stays.
LatestSnapshotsKept ==
    [][\A r \in rooms \cap rooms' :
          \A f \in snapshots[r] \ snapshots'[r], g \in snapshots'[r] : f < g]_vars
=============================================================================
