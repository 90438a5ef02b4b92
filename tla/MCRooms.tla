------------------------------ MODULE MCRooms -------------------------------
(***************************************************************************)
(* TLC instance of Rooms: FrameSync, StateSync and the Game components.    *)
(*                                                                         *)
(* Each has rooms of its own and they share no state: a behaviour is one   *)
(* of any of them, subject says whose, and the others stay in an initial   *)
(* state.                                                                  *)
(***************************************************************************)
EXTENDS Rooms, TLC

VARIABLE subject    \* the component that runs

\* The order in which the examples register the components.
Registered == <<"SessionManager", "RoomComponent", "PlayerMoveComponent">>

allVars == <<subject, vars, stateVars, gameVars>>

\* The configuration of a component that does not run is fixed.
RoomsInit ==
    /\ subject \in {"frames", "states", "game"}
    /\ Init /\ SS!Init /\ GM!Init
    /\ subject = "states" \/ hooks = {}

Frames == subject = "frames" /\ Next /\ UNCHANGED <<subject, stateVars, gameVars>>
States == subject = "states" /\ SS!Next /\ UNCHANGED <<subject, vars, gameVars>>
Playing == subject = "game" /\ GM!Next /\ UNCHANGED <<subject, vars, stateVars>>

RoomsNext == Frames \/ States \/ Playing

RoomsSpec == RoomsInit /\ [][RoomsNext]_allVars

\* Players and connections are interchangeable; no property of this run is a
\* liveness property.
Symmetry == Permutations(Player) \cup Permutations(Conn)
=============================================================================
