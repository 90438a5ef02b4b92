-------------------------------- MODULE Rooms -------------------------------
(***************************************************************************)
(* The components that keep players and connections in rooms, side by      *)
(* side: FrameSync, StateSync (SS) and the Game components (GM), each with *)
(* rooms of its own.                                                       *)
(***************************************************************************)
EXTENDS FrameSync

CONSTANTS
    Entity, Prop, StateRoom, Stamp, Hooks,  \* of StateSync
    PlayerId, RoomId, Where, Order          \* of Game

VARIABLES
    own, hooks, stateRooms, joined, alive, views, fresh, hung,
    sessions, gameRooms, connections_map, positions, step

stateVars == <<own, hooks, stateRooms, joined, alive, views, fresh, hung>>
gameVars == <<sessions, gameRooms, connections_map, positions, step>>

SS == INSTANCE StateSync WITH RoomId <- StateRoom, rooms <- stateRooms
GM == INSTANCE Game WITH rooms <- gameRooms

ASSUME RoomsAssumption == GM!GameAssumption

\* StateSync: what subscribers were sent is what the room holds.
SubscribersFollow == SS!TypeOK /\ SS!SubscribersFollow

\* Game: a connection that is gone is in no room and no session, and no empty
\* room stays.
NoGhosts == GM!TypeOK /\ GM!NoGhosts
=============================================================================
