------------------------------ MODULE GridAoi ------------------------------
(***************************************************************************)
(* GridAoi (src/src/aoi/aoi.cpp): which entities see each other on a map   *)
(* cut into grids. An entity sees the grids at most view_range away from   *)
(* its own. The manager keeps the entities, the grids' occupants and the   *)
(* grid of every entity under one mutex, and tells watchers of targets     *)
(* that ENTER, LEAVE or MOVE through a callback that is set before the     *)
(* first entity comes; told is what a client that obeys the events knows.  *)
(***************************************************************************)
EXTENDS Integers, Sequences, FiniteSets

CONSTANTS
    Entity,         \* entity ids, 0 excluded
    Spot,           \* the positions <<x, y>> callers pass, outside the map too
    GridSize, GridX, GridY,     \* grid_size, grid_x_count(), grid_y_count()
    ViewRange

\* The grids are a rectangle of squares, and positions are pairs of integers.
ASSUME GridAssumption ==
    /\ GridSize \in Nat \ {0} /\ GridX \in Nat \ {0} /\ GridY \in Nat \ {0} /\ ViewRange \in Nat
    /\ Spot \subseteq Int \X Int

VARIABLES
    entities,       \* entities_: id -> position, NoSpot when absent
    grids,          \* grids_: grid -> set of ids
    entity_to_grid, \* entity_to_grid_
    told,           \* told[w][t]: where w was last told t is, NoSpot after LEAVE
    elders          \* history: elders[t]: who of those on the map was there before t

gridVars == <<entities, grids, entity_to_grid, told, elders>>

NoSpot == <<>>
NoGrid == <<>>
Grid == (0..GridX - 1) \X (0..GridY - 1)

Clamp(i, n) == IF i < 0 THEN 0 ELSE IF i > n - 1 THEN n - 1 ELSE i

pos_to_grid(p) == <<Clamp(p[1] \div GridSize, GridX), Clamp(p[2] \div GridSize, GridY)>>

get_grids_in_view(p) ==
    LET c == pos_to_grid(p)
    IN {g \in Grid : \A i \in {1, 2} : c[i] - ViewRange <= g[i] /\ g[i] <= c[i] + ViewRange}

Occupants(gs) == UNION {grids[g] : g \in gs}

get_entity_ids_in_view(p) == Occupants(get_grids_in_view(p))

Present == {e \in Entity : entities[e] # NoSpot}

TypeOK ==
    /\ entities \in [Entity -> Spot \cup {NoSpot}]
    /\ grids \in [Grid -> SUBSET Entity]
    /\ entity_to_grid \in [Entity -> Grid \cup {NoGrid}]
    /\ told \in [Entity -> [Entity -> Spot \cup {NoSpot}]]
    /\ elders \in [Entity -> SUBSET Entity]

Init ==
    /\ entities = [e \in Entity |-> NoSpot]
    /\ grids = [g \in Grid |-> {}]
    /\ entity_to_grid = [e \in Entity |-> NoGrid]
    /\ told = [w \in Entity |-> [t \in Entity |-> NoSpot]]
    /\ elders = [e \in Entity |-> {}]

-----------------------------------------------------------------------------
\* ENTER goes to the entities in view; the newcomer is told of nobody.
add_entity(e, p) ==
    /\ entities[e] = NoSpot
    /\ entities' = [entities EXCEPT ![e] = p]
    /\ grids' = [grids EXCEPT ![pos_to_grid(p)] = @ \cup {e}]
    /\ entity_to_grid' = [entity_to_grid EXCEPT ![e] = pos_to_grid(p)]
    /\ told' = [w \in Entity |-> IF w \in get_entity_ids_in_view(p) \ {e} THEN [told[w] EXCEPT ![e] = p] ELSE told[w]]
    /\ elders' = [elders EXCEPT ![e] = Present]

\* LEAVE goes to the entities in view; what the entity itself knew is dropped with it.
remove_entity(e) ==
    /\ entities[e] # NoSpot
    /\ entities' = [entities EXCEPT ![e] = NoSpot]
    /\ grids' = [grids EXCEPT ![entity_to_grid[e]] = @ \ {e}]
    /\ entity_to_grid' = [entity_to_grid EXCEPT ![e] = NoGrid]
    /\ told' = [w \in Entity |->
                    IF w = e THEN [t \in Entity |-> NoSpot]
                    ELSE IF w \in get_entity_ids_in_view(entities[e]) THEN [told[w] EXCEPT ![e] = NoSpot]
                    ELSE told[w]]
    /\ elders' = [t \in Entity |-> IF t = e THEN {} ELSE elders[t] \ {e}]

\* Inside one grid only the occupants of that grid hear of the move.
MoveInGrid(e, p) ==
    /\ entities[e] # NoSpot /\ pos_to_grid(p) = pos_to_grid(entities[e])
    /\ entities' = [entities EXCEPT ![e] = p]
    /\ told' = [w \in Entity |->
                    IF w \in grids[pos_to_grid(p)] \ {e} THEN [told[w] EXCEPT ![e] = p] ELSE told[w]]
    /\ UNCHANGED <<grids, entity_to_grid, elders>>

\* A plausible bug: a move across grids is announced and no departure is.
MoveAcrossForgetting(e, p) ==
    /\ entities[e] # NoSpot /\ pos_to_grid(p) # pos_to_grid(entities[e])
    /\ entities' = [entities EXCEPT ![e] = p]
    /\ grids' = [grids EXCEPT ![pos_to_grid(entities[e])] = @ \ {e}, ![pos_to_grid(p)] = @ \cup {e}]
    /\ entity_to_grid' = [entity_to_grid EXCEPT ![e] = pos_to_grid(p)]
    /\ told' = [w \in Entity |-> IF w \in get_entity_ids_in_view(p) \ {e} THEN [told[w] EXCEPT ![e] = p] ELSE told[w]]
    /\ UNCHANGED elders

\* Across grids: LEAVE and ENTER both ways, MOVE to those in both views.
MoveAcross(e, p) ==
    /\ entities[e] # NoSpot /\ pos_to_grid(p) # pos_to_grid(entities[e])
    /\ entities' = [entities EXCEPT ![e] = p]
    /\ grids' = [grids EXCEPT ![pos_to_grid(entities[e])] = @ \ {e}, ![pos_to_grid(p)] = @ \cup {e}]
    /\ entity_to_grid' = [entity_to_grid EXCEPT ![e] = pos_to_grid(p)]
    /\ LET before == get_grids_in_view(entities[e])
           after == get_grids_in_view(p)
           left == Occupants(before \ after) \ {e}
           met == Occupants(after \ before) \ {e}
           kept == Occupants(before \cap after) \ {e}
       IN told' = [w \in Entity |->
              IF w = e THEN [t \in Entity |-> IF t \in left THEN NoSpot
                                              ELSE IF t \in met THEN entities[t] ELSE told[e][t]]
              ELSE IF w \in left THEN [told[w] EXCEPT ![e] = NoSpot]
              ELSE IF w \in met \cup kept THEN [told[w] EXCEPT ![e] = p] ELSE told[w]]
    /\ UNCHANGED elders

update_entity(e, p) == MoveInGrid(e, p) \/ MoveAcross(e, p)

Next ==
    \E e \in Entity :
        \/ remove_entity(e)
        \/ \E p \in Spot : add_entity(e, p) \/ MoveInGrid(e, p) \/ MoveAcross(e, p)

Spec == Init /\ [][Next]_gridVars

-----------------------------------------------------------------------------
Sees(w, t) == pos_to_grid(entities[t]) \in get_grids_in_view(entities[w])

(***************************************************************************)
(* What the events of add_entity, remove_entity and update_entity leave a  *)
(* watcher with: nobody out of its view, everybody in view that came to    *)
(* the map after it, each at a position in the grid the target is in, and  *)
(* the three maps agree.                                                   *)
(***************************************************************************)
ToldToTheGrid ==
    /\ \A e \in Entity, g \in Grid : e \in grids[g] <=> entities[e] # NoSpot /\ entity_to_grid[e] = g
    /\ \A w, t \in Present : w # t =>
           /\ told[w][t] # NoSpot => Sees(w, t) /\ pos_to_grid(told[w][t]) = entity_to_grid[t]
           /\ w \in elders[t] /\ Sees(w, t) => told[w][t] # NoSpot

\* The types and what the watchers know.
ToldRight == TypeOK /\ ToldToTheGrid

(***************************************************************************)
(* Does not hold: a watcher is told of everything in its view. add_entity  *)
(* announces the newcomer to the others and not the others to it.          *)
(***************************************************************************)
ToldOfAll ==
    \A w, t \in Present : w # t /\ Sees(w, t) => told[w][t] # NoSpot

(***************************************************************************)
(* Does not hold: a watcher knows where a target in view is. A move inside *)
(* a grid is told to that grid only, never to the others in view.          *)
(***************************************************************************)
ToldExactly ==
    \A w, t \in Present : w # t /\ told[w][t] # NoSpot => told[w][t] = entities[t]
=============================================================================
