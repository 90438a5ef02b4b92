------------------------------- MODULE MCMap --------------------------------
(***************************************************************************)
(* TLC instance of GameMap: the SlgMap on its GridAoi, the GridAoi under   *)
(* any calls, the CrossListAoi, and a Battle.                              *)
(*                                                                         *)
(* A behaviour is one of any of them: subject says whose, and the others   *)
(* stay in an initial state.                                               *)
(***************************************************************************)
EXTENDS GameMap, TLC

VARIABLE subject    \* the component that runs

\* Positions on the lists: equal in y, in view of each other, and not.
Places == {<<0, 1>>, <<1, 1>>, <<3, 0>>}
\* The cell of the map, a place in the next grid, and one outside of the
\* grids on either side, which are clamped to the first and the last one.
Spots == {<<-1, 0>>, <<0, 0>>, <<2, 0>>, <<6, 0>>}
CellValues == {PlainCell, [PlainCell EXCEPT !.owner = 2]}
Generals ==
    {[force |-> 80, intelligence |-> 60, command |-> 50, speed |-> 40, skill |-> 1],
     [force |-> 0, intelligence |-> 0, command |-> 300, speed |-> 0, skill |-> 0]}

allVars == <<subject, slgVars, crossVars, fightVars>>

\* The armies of a battle that is not fought are fixed.
MapInit ==
    /\ subject \in {"map", "grid", "lists", "battle"}
    /\ SlgInit /\ CL!Init /\ BT!Init
    /\ subject = "battle" \/ \A s \in BT!Side : generals[s] = <<>> /\ initial[s] = 1

\* Where the map is played: short marches, in the first two grids. The game
\* uses the AOI with the ids of troops there, and with any others in GridAlone.
Field == {<<-1, 0>>, <<0, 0>>, <<2, 0>>}
World ==
    /\ subject = "map" /\ SlgNext
    /\ \A e \in Entity : entities'[e] \in IF e \in Troop THEN Field \cup {NoSpot} ELSE {NoSpot}
    /\ \A t \in Troop : troops'[t] # NoTroop => troops'[t].from \in Field /\ troops'[t].to \in Field
    /\ \A i \in DOMAIN cities' : cities'[i].at \in Field \ {<<-1, 0>>}
    /\ UNCHANGED <<subject, crossVars, fightVars>>
\* Entities that are no troops come, move and leave.
GridAlone ==
    /\ subject = "grid" /\ Next /\ \A t \in Troop : entities'[t] = NoSpot
    /\ UNCHANGED <<subject, cells, cities, troops, updating, strayed, foreign, crossVars, fightVars>>

Lists == subject = "lists" /\ CL!Next /\ UNCHANGED <<subject, slgVars, fightVars>>
Fight == subject = "battle" /\ BT!Next /\ UNCHANGED <<subject, slgVars, crossVars>>

MapNext == World \/ GridAlone \/ Lists \/ Fight

MapSpec == MapInit /\ [][MapNext]_allVars
=============================================================================
