-------------------------------- MODULE Game --------------------------------
(***************************************************************************)
(* The game components of a Service: SessionManager, LoginComponent,       *)
(* RoomComponent and PlayerMoveComponent (src/src/game/,                   *)
(* src/include/chwell/service/session_manager.h). Chat, heartbeats and the *)
(* broadcasts only send, to the connections of a room.                     *)
(*                                                                         *)
(* A connection's messages and its disconnect are handled by its own read  *)
(* loop, in order; the loops of two connections run on two threads, and    *)
(* the components' maps have no lock. Every access to one of them is a     *)
(* step, except that of a connection to its own entry in connections_map_, *)
(* which no other loop writes; what a data race inside one access can do   *)
(* beyond that is not modelled.                                            *)
(***************************************************************************)
EXTENDS Naturals, FiniteSets, Sequences

CONSTANTS
    Conn, PlayerId, RoomId,
    Where,          \* the positions players report
    Order           \* the components with an on_disconnect, as registered

VARIABLES
    sessions,       \* sessions_: connection -> player and room, NoSession when absent
    rooms,          \* rooms_: room -> its connections, NoRoom when absent
    connections_map,
    positions,      \* player_positions_: player -> position, NoWhere when absent
    step            \* what the read loop of a connection is doing

gameVars == <<sessions, rooms, connections_map, positions, step>>

NoSession == [player |-> "none", room |-> "none"]
NoRoom == {"absent"}
NoWhere == "unknown"

\* A read loop: what it does next, the room it joins and whether its pointer to
\* that room is one rooms_ has dropped, and the component of Order whose
\* on_disconnect runs (0: a message is handled).
Loop(do, room, at) == [do |-> do, room |-> room, lost |-> FALSE, at |-> at]
Reading == Loop("read", "none", 0)
Done == Loop("closed", "none", 0)

\* SessionManager and RoomComponent are registered; the values that stand for
\* what is absent are no player and no connection.
GameAssumption ==
    /\ Order \in Seq(STRING)
    /\ \E i, j \in 1..Len(Order) : Order[i] = "SessionManager" /\ Order[j] = "RoomComponent"
    /\ "none" \notin PlayerId /\ "absent" \notin Conn

Doing == {"read", "create", "insert", "record", "disconnect", "erase", "unmap", "sweep", "closed"}

TypeOK ==
    /\ sessions \in [Conn -> [player : PlayerId \cup {"none"}, room : RoomId \cup {"none"}]]
    /\ DOMAIN rooms = RoomId /\ \A r \in RoomId : rooms[r] = NoRoom \/ rooms[r] \subseteq Conn
    /\ connections_map \subseteq Conn
    /\ positions \in [PlayerId -> Where \cup {NoWhere}]
    /\ step \in [Conn -> [do : Doing, room : RoomId \cup {"none"}, lost : BOOLEAN, at : 0..Len(Order)]]
    /\ \A c \in Conn : step[c].do \in {"create", "insert", "record"} => step[c].room \in RoomId

Init ==
    /\ sessions = [c \in Conn |-> NoSession]
    /\ rooms = [r \in RoomId |-> NoRoom]
    /\ connections_map = {}
    /\ positions = [p \in PlayerId |-> NoWhere]
    /\ step = [c \in Conn |-> Reading]

LoggedIn(c) == sessions[c].player # "none"

\* The loops that hold a pointer to one of the rooms rs, which rooms_ drops.
Losing(rs) ==
    [c \in Conn |-> [step[c] EXCEPT !.lost = @ \/ (step[c].do = "insert" /\ step[c].room \in rs)]]

-----------------------------------------------------------------------------
\* A second login on a connection replaces the player and keeps the room.
handle_login(c, p) ==
    /\ step[c] = Reading
    /\ sessions' = [sessions EXCEPT ![c].player = p]
    /\ UNCHANGED <<rooms, connections_map, positions, step>>

\* SessionManager::logout, called by handlers of the application: the session
\* goes, whatever rooms the connection is in.
logout(c) ==
    /\ step[c] = Reading
    /\ sessions' = [sessions EXCEPT ![c] = NoSession]
    /\ UNCHANGED <<rooms, connections_map, positions, step>>

\* handle_join_room: the session is checked and the room looked up ...
JoinFind(c, r) ==
    /\ step[c] = Reading /\ LoggedIn(c)
    /\ step' = [step EXCEPT ![c] = Loop(IF rooms[r] = NoRoom THEN "create" ELSE "insert", r, 0)]
    /\ UNCHANGED <<sessions, rooms, connections_map, positions>>

\* ... one that was not there is created, in place of one that was made meanwhile ...
JoinCreate(c) ==
    /\ step[c].do = "create"
    /\ rooms' = [rooms EXCEPT ![step[c].room] = {}]
    /\ step' = [Losing({step[c].room}) EXCEPT ![c].do = "insert"]
    /\ UNCHANGED <<sessions, connections_map, positions>>

\* ... and the connection enters the room it points to, which rooms_ may have
\* dropped; then the session is told.
JoinInsert(c) ==
    /\ step[c].do = "insert"
    /\ rooms' = IF step[c].lost THEN rooms ELSE [rooms EXCEPT ![step[c].room] = @ \cup {c}]
    /\ connections_map' = connections_map \cup {c}
    /\ step' = [step EXCEPT ![c].do = "record"]
    /\ UNCHANGED <<sessions, positions>>

JoinRecord(c) ==
    /\ step[c].do = "record"
    /\ sessions' = [sessions EXCEPT ![c].room = step[c].room]
    /\ step' = [step EXCEPT ![c] = Reading]
    /\ UNCHANGED <<rooms, connections_map, positions>>

handle_player_move(c, w) ==
    /\ step[c] = Reading /\ LoggedIn(c)
    /\ positions' = [positions EXCEPT ![sessions[c].player] = w]
    /\ UNCHANGED <<sessions, rooms, connections_map, step>>

-----------------------------------------------------------------------------
\* The read loop ends: dispatch_disconnect goes through the components in Order.
ReadEnds(c) ==
    /\ step[c] = Reading
    /\ step' = [step EXCEPT ![c] = Loop("disconnect", "none", 1)]
    /\ UNCHANGED <<sessions, rooms, connections_map, positions>>

At(c, component) == step[c].do = "disconnect" /\ Order[step[c].at] = component

\* The next component, or the next message after a call by a handler.
Stepped(c) ==
    IF step[c].at = 0 THEN Reading
    ELSE IF step[c].at = Len(Order) THEN Done
    ELSE Loop("disconnect", "none", step[c].at + 1)

SessionGone(c) ==
    /\ At(c, "SessionManager")
    /\ sessions' = [sessions EXCEPT ![c] = NoSession]
    /\ step' = [step EXCEPT ![c] = Stepped(c)]
    /\ UNCHANGED <<rooms, connections_map, positions>>

\* RoomComponent::leave_room, called by on_disconnect or a handler of the
\* application: the session forgets its room ...
LeaveSession(c) ==
    /\ step[c] = Reading \/ At(c, "RoomComponent")
    /\ sessions' = [sessions EXCEPT ![c].room = "none"]
    /\ step' = [step EXCEPT ![c].do = "erase"]
    /\ UNCHANGED <<rooms, connections_map, positions>>

\* A plausible bug: the loop over rooms_ ends with the first room it finds the connection in.
leave_first_room(c, rs) ==
    LET mine == {r \in RoomId : rs[r] # NoRoom /\ c \in rs[r]}
    IN  [r \in RoomId |-> IF r \in mine /\ r = CHOOSE q \in mine : TRUE THEN rs[r] \ {c} ELSE rs[r]]

\* ... the connection is taken out of every room ...
leave_rooms(c, rs) == [r \in RoomId |-> IF rs[r] # NoRoom THEN rs[r] \ {c} ELSE rs[r]]

LeaveErase(c) ==
    /\ step[c].do = "erase"
    /\ rooms' = leave_rooms(c, rooms)
    /\ step' = [step EXCEPT ![c].do = "unmap"]
    /\ UNCHANGED <<sessions, connections_map, positions>>

LeaveUnmap(c) ==
    /\ step[c].do = "unmap"
    /\ connections_map' = connections_map \ {c}
    /\ step' = [step EXCEPT ![c].do = "sweep"]
    /\ UNCHANGED <<sessions, rooms, positions>>

\* ... and empty rooms go, whoever left them and whoever is about to enter.
LeaveSweep(c) ==
    /\ step[c].do = "sweep"
    /\ LET empty == {r \in RoomId : rooms[r] = {}}
       IN /\ rooms' = [r \in RoomId |-> IF r \in empty THEN NoRoom ELSE rooms[r]]
          /\ step' = [Losing(empty) EXCEPT ![c] = Stepped(c)]
    /\ UNCHANGED <<sessions, connections_map, positions>>

\* The position is removed if the session still says whose it is.
PositionGone(c) ==
    /\ At(c, "PlayerMoveComponent")
    /\ positions' = IF LoggedIn(c) THEN [positions EXCEPT ![sessions[c].player] = NoWhere] ELSE positions
    /\ step' = [step EXCEPT ![c] = Stepped(c)]
    /\ UNCHANGED <<sessions, rooms, connections_map>>

Next ==
    \E c \in Conn :
        \/ \E p \in PlayerId : handle_login(c, p)
        \/ logout(c)
        \/ \E r \in RoomId : JoinFind(c, r)
        \/ JoinCreate(c) \/ JoinInsert(c) \/ JoinRecord(c)
        \/ \E w \in Where : handle_player_move(c, w)
        \/ ReadEnds(c) \/ SessionGone(c) \/ PositionGone(c)
        \/ LeaveSession(c) \/ LeaveErase(c) \/ LeaveUnmap(c) \/ LeaveSweep(c)

Spec == Init /\ [][Next]_gameVars

-----------------------------------------------------------------------------
\* Whoever is about to enter r, and whoever is about to look for empty rooms.
Entering(r) == {c \in Conn : step[c].do = "insert" /\ step[c].room = r /\ ~step[c].lost}
Sweeping == {c \in Conn : step[c].do \in {"unmap", "sweep"}}

(***************************************************************************)
(* No ghosts: a connection whose disconnect was dispatched has no session, *)
(* is in no room and in no map, however many rooms it joined and whatever  *)
(* the loops of others did to the maps meanwhile; and no empty room stays: *)
(* somebody is about to enter it or to delete it.                          *)
(***************************************************************************)
NoGhosts ==
    /\ \A c \in Conn : step[c] = Done =>
          /\ sessions[c] = NoSession /\ c \notin connections_map
          /\ \A r \in RoomId : rooms[r] # NoRoom => c \notin rooms[r]
    /\ \A r \in RoomId : rooms[r] = {} => Entering(r) # {} \/ Sweeping # {}

(***************************************************************************)
(* Does not hold: the members of a room are logged in. logout leaves a     *)
(* connection in the rooms it joined.                                      *)
(***************************************************************************)
MembersLoggedIn ==
    \A c \in Conn, r \in RoomId :
        step[c] = Reading /\ rooms[r] # NoRoom /\ c \in rooms[r] => LoggedIn(c)

(***************************************************************************)
(* Does not hold: the room a session names has its connection as a member. *)
(* Another connection's leave_room can delete the room, or its join_room   *)
(* replace it, between the lookup and the insertion.                       *)
(***************************************************************************)
SessionRoomHasMember ==
    \A c \in Conn : step[c] = Reading /\ sessions[c].room # "none" =>
        rooms[sessions[c].room] # NoRoom /\ c \in rooms[sessions[c].room]

(***************************************************************************)
(* Does not hold: a connection is in one room, the one of its session.     *)
(* handle_join_room does not leave the room joined before.                 *)
(***************************************************************************)
OneRoom == \A c \in Conn : Cardinality({r \in RoomId : rooms[r] # NoRoom /\ c \in rooms[r]}) <= 1

(***************************************************************************)
(* Does not hold (with SessionManager registered first, as in the          *)
(* examples): positions are cleaned up on disconnect. The session is gone  *)
(* when PlayerMoveComponent asks whose connection it was.                  *)
(***************************************************************************)
PositionsCleaned ==
    (\A c \in Conn : step[c] = Done) => \A p \in PlayerId : positions[p] = NoWhere
=============================================================================
