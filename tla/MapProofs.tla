------------------------------ MODULE MapProofs -----------------------------
(***************************************************************************)
(* The map of a game, proved for every value of the constants.             *)
(*                                                                         *)
(* GridAoi, for every set of entities, any grid and any range of view: the *)
(* three maps agree and the events leave a watcher with nobody out of its  *)
(* view and with everybody in view that came after it.                     *)
(*                                                                         *)
(* SlgMap: what the map does to its GridAoi is what GridAoi allows, and    *)
(* the AOI has every troop at its last stop.                               *)
(*                                                                         *)
(* CrossListAoi, for every set of entities, any positions and range: the   *)
(* two lists stay threaded and sorted, so a view read off one is exact.    *)
(*                                                                         *)
(* Battle, for all armies and generals: the report adds up.                *)
(***************************************************************************)
EXTENDS GameMap, FiniteSetTheorems, WellFoundedInduction, SequenceTheorems, TLAPS

\* The grid of an entity is that of its position, and exactly the entities on
\* the map have one.
GridOfPosition ==
    \A e \in Entity : entity_to_grid[e] = IF entities[e] = NoSpot THEN NoGrid ELSE pos_to_grid(entities[e])

\* The occupants of a grid are the entities whose grid it is.
Occupied == \A e \in Entity, g \in Grid : e \in grids[g] <=> entities[e] # NoSpot /\ entity_to_grid[e] = g

\* Who was told of somebody is on the map, as the other is, has it in view, and
\* knows its grid.
ToldIsSeen ==
    \A w, t \in Entity : told[w][t] # NoSpot =>
        /\ w # t /\ entities[w] # NoSpot /\ entities[t] # NoSpot
        /\ Sees(w, t) /\ pos_to_grid(told[w][t]) = entity_to_grid[t]

\* Who was there before somebody in its view came was told of it.
ElderIsTold ==
    \A w, t \in Entity : w \in elders[t] =>
        /\ w # t /\ entities[w] # NoSpot /\ entities[t] # NoSpot
        /\ Sees(w, t) => told[w][t] # NoSpot

GridInv == TypeOK /\ GridOfPosition /\ Occupied /\ ToldIsSeen /\ ElderIsTold

-----------------------------------------------------------------------------
\* A position is a position, and its grid is a grid.
LEMMA SpotHasGrid ==
  ASSUME NEW p \in Spot
  PROVE  p # NoSpot /\ pos_to_grid(p) \in Grid /\ pos_to_grid(p) # NoGrid
<1>1. PICK x \in Int, y \in Int : p = <<x, y>>
  BY GridAssumption
<1>2. x \div GridSize \in Int /\ y \div GridSize \in Int
  BY GridAssumption
<1>3. \A i \in Int : Clamp(i, GridX) \in 0..GridX - 1 /\ Clamp(i, GridY) \in 0..GridY - 1
  BY GridAssumption DEF Clamp
<1>4. pos_to_grid(p) = <<Clamp(x \div GridSize, GridX), Clamp(y \div GridSize, GridY)>>
  BY <1>1 DEF pos_to_grid
<1>5. PICK a \in 0..GridX - 1, b \in 0..GridY - 1 : pos_to_grid(p) = <<a, b>>
  BY <1>2, <1>3, <1>4
<1>6. p # NoSpot /\ pos_to_grid(p) # NoGrid
  BY <1>1, <1>5 DEF NoSpot, NoGrid
<1> QED  BY <1>5, <1>6 DEF Grid

\* The grid p is in is in view from q as q's is from p.
LEMMA ViewIsMutual ==
  ASSUME NEW p \in Spot, NEW q \in Spot
  PROVE  pos_to_grid(p) \in get_grids_in_view(q) <=> pos_to_grid(q) \in get_grids_in_view(p)
<1>1. pos_to_grid(p) \in Grid /\ pos_to_grid(q) \in Grid
  BY SpotHasGrid
<1>2. PICK a \in Int, b \in Int : pos_to_grid(p) = <<a, b>>
  BY <1>1 DEF Grid
<1>3. PICK c \in Int, d \in Int : pos_to_grid(q) = <<c, d>>
  BY <1>1 DEF Grid
<1>4. pos_to_grid(p) \in get_grids_in_view(q) <=>
         c - ViewRange <= a /\ a <= c + ViewRange /\ d - ViewRange <= b /\ b <= d + ViewRange
  BY <1>1, <1>2, <1>3 DEF get_grids_in_view
<1>5. pos_to_grid(q) \in get_grids_in_view(p) <=>
         a - ViewRange <= c /\ c <= a + ViewRange /\ b - ViewRange <= d /\ d <= b + ViewRange
  BY <1>1, <1>2, <1>3 DEF get_grids_in_view
<1> QED  BY <1>4, <1>5, GridAssumption

\* Whoever is in the grid sees the same grids, its own among them.
LEMMA ViewOfGrid ==
  ASSUME NEW p \in Spot
  PROVE  /\ pos_to_grid(p) \in get_grids_in_view(p) /\ get_grids_in_view(p) \subseteq Grid
         /\ \A q \in Spot : pos_to_grid(p) = pos_to_grid(q) => get_grids_in_view(p) = get_grids_in_view(q)
<1>1. pos_to_grid(p) \in Grid
  BY SpotHasGrid
<1>2. PICK a \in Int, b \in Int : pos_to_grid(p) = <<a, b>>
  BY <1>1 DEF Grid
<1>3. pos_to_grid(p) \in get_grids_in_view(p)
  BY <1>1, <1>2, GridAssumption DEF get_grids_in_view
<1> QED  BY <1>3 DEF get_grids_in_view

\* The occupants of some grids.
LEMMA WhoIsThere ==
  ASSUME GridInv, NEW S \in SUBSET Grid, NEW e \in Entity
  PROVE  e \in Occupants(S) <=> entities[e] # NoSpot /\ pos_to_grid(entities[e]) \in S
<1>1. \A g \in Grid : e \in grids[g] <=> entities[e] # NoSpot /\ pos_to_grid(entities[e]) = g
  BY DEF GridInv, Occupied, GridOfPosition
<1> QED  BY <1>1 DEF Occupants

\* An empty map.
LEMMA GridInit == Init => GridInv
BY DEF Init, GridInv, TypeOK, GridOfPosition, Occupied, ToldIsSeen, ElderIsTold, Grid, NoSpot, NoGrid

-----------------------------------------------------------------------------
\* add_entity: whoever has the newcomer in view is told of it.
LEMMA AddStep ==
  ASSUME GridInv, NEW e \in Entity, NEW p \in Spot, add_entity(e, p)
  PROVE  GridInv'
<1> DEFINE g == pos_to_grid(p)
           V == get_grids_in_view(p)
<1>0. /\ g \in Grid /\ g # NoGrid /\ p # NoSpot /\ g \in V /\ V \subseteq Grid
      /\ entities[e] = NoSpot /\ entity_to_grid[e] = NoGrid
  BY SpotHasGrid, ViewOfGrid DEF add_entity, GridInv, GridOfPosition
<1>1. /\ entities' = [entities EXCEPT ![e] = p]
      /\ grids' = [grids EXCEPT ![g] = @ \cup {e}]
      /\ entity_to_grid' = [entity_to_grid EXCEPT ![e] = g]
      /\ elders' = [elders EXCEPT ![e] = Present]
  BY DEF add_entity
<1>2. \A w \in Entity : w \in Occupants(V) <=> entities[w] # NoSpot /\ pos_to_grid(entities[w]) \in V
  BY <1>0, WhoIsThere
<1>3. /\ told' \in [Entity -> [Entity -> Spot \cup {NoSpot}]]
      /\ \A w, t \in Entity : told'[w][t] = IF t = e /\ w \in Occupants(V) \ {e} THEN p ELSE told[w][t]
  <2>1. told' = [w \in Entity |-> IF w \in Occupants(V) \ {e} THEN [told[w] EXCEPT ![e] = p] ELSE told[w]]
    BY DEF add_entity, get_entity_ids_in_view
  <2>2. QED  BY <2>1 DEF GridInv, TypeOK
<1>4. TypeOK'
  BY <1>0, <1>1, <1>3 DEF GridInv, TypeOK, Present
<1>5. GridOfPosition' /\ Occupied'
  BY <1>0, <1>1 DEF GridInv, TypeOK, GridOfPosition, Occupied
<1>6. ToldIsSeen'
  <2> SUFFICES ASSUME NEW w \in Entity, NEW t \in Entity, told'[w][t] # NoSpot
               PROVE  /\ w # t /\ entities'[w] # NoSpot /\ entities'[t] # NoSpot
                      /\ Sees(w, t)' /\ pos_to_grid(told'[w][t]) = entity_to_grid'[t]
    BY DEF ToldIsSeen
  <2>1. CASE t = e /\ w \in Occupants(V) \ {e}
    <3>1. told'[w][t] = p /\ entities'[t] = p /\ entities'[w] = entities[w] /\ entities[w] \in Spot
      BY <1>1, <1>2, <1>3, <2>1 DEF GridInv, TypeOK
    <3>2. g \in get_grids_in_view(entities[w])
      BY <1>2, <2>1, <3>1, ViewIsMutual
    <3>3. QED  BY <1>0, <1>1, <1>2, <2>1, <3>1, <3>2 DEF Sees, GridInv, TypeOK
  <2>2. CASE ~(t = e /\ w \in Occupants(V) \ {e})
    <3>1. told[w][t] # NoSpot /\ told'[w][t] = told[w][t]
      BY <1>3, <2>2
    <3>2. /\ w # t /\ entities[w] # NoSpot /\ entities[t] # NoSpot
          /\ Sees(w, t) /\ pos_to_grid(told[w][t]) = entity_to_grid[t]
      BY <3>1 DEF GridInv, ToldIsSeen
    <3>3. w # e /\ t # e
      BY <1>0, <3>2
    <3>4. QED  BY <1>1, <3>1, <3>2, <3>3 DEF Sees, GridInv, TypeOK
  <2>3. QED  BY <2>1, <2>2
<1>7. ElderIsTold'
  <2> SUFFICES ASSUME NEW w \in Entity, NEW t \in Entity, w \in elders'[t]
               PROVE  /\ w # t /\ entities'[w] # NoSpot /\ entities'[t] # NoSpot
                      /\ Sees(w, t)' => told'[w][t] # NoSpot
    BY DEF ElderIsTold
  <2>1. CASE t = e
    <3>1. entities[w] # NoSpot /\ w # e
      BY <1>0, <1>1, <2>1 DEF GridInv, TypeOK, Present
    <3>2. entities'[w] = entities[w] /\ entities'[t] = p /\ entities[w] \in Spot
      BY <1>1, <2>1, <3>1 DEF GridInv, TypeOK
    <3>3. ASSUME Sees(w, t)' PROVE told'[w][t] # NoSpot
      <4>1. g \in get_grids_in_view(entities[w])
        BY <3>2, <3>3 DEF Sees
      <4>2. w \in Occupants(V) \ {e}
        BY <1>2, <3>1, <3>2, <4>1, ViewIsMutual
      <4>3. QED  BY <1>0, <1>3, <2>1, <4>2
    <3>4. QED  BY <1>0, <2>1, <3>1, <3>2, <3>3
  <2>2. CASE t # e
    <3>1. w \in elders[t]
      BY <1>1, <2>2 DEF GridInv, TypeOK
    <3>2. /\ w # t /\ entities[w] # NoSpot /\ entities[t] # NoSpot
          /\ Sees(w, t) => told[w][t] # NoSpot
      BY <3>1 DEF GridInv, ElderIsTold
    <3>3. w # e
      BY <1>0, <3>2
    <3>4. QED  BY <1>1, <1>3, <2>2, <3>2, <3>3 DEF Sees, GridInv, TypeOK
  <2>3. QED  BY <2>1, <2>2
<1> QED  BY <1>4, <1>5, <1>6, <1>7 DEF GridInv

\* remove_entity: whoever was told of the entity has it in view and is told.
LEMMA RemoveStep ==
  ASSUME GridInv, NEW e \in Entity, remove_entity(e)
  PROVE  GridInv'
<1> DEFINE g == entity_to_grid[e]
           V == get_grids_in_view(entities[e])
<1>0. entities[e] # NoSpot /\ entities[e] \in Spot /\ g = pos_to_grid(entities[e])
  BY DEF remove_entity, GridInv, TypeOK, GridOfPosition
<1>1. /\ entities' = [entities EXCEPT ![e] = NoSpot]
      /\ grids' = [grids EXCEPT ![g] = @ \ {e}]
      /\ entity_to_grid' = [entity_to_grid EXCEPT ![e] = NoGrid]
      /\ elders' = [t \in Entity |-> IF t = e THEN {} ELSE elders[t] \ {e}]
  BY DEF remove_entity
<1>2. /\ g \in Grid /\ V \subseteq Grid
      /\ \A w \in Entity : w \in Occupants(V) <=> entities[w] # NoSpot /\ pos_to_grid(entities[w]) \in V
  BY <1>0, WhoIsThere, SpotHasGrid, ViewOfGrid
<1>3. /\ told' \in [Entity -> [Entity -> Spot \cup {NoSpot}]]
      /\ \A w, t \in Entity :
            told'[w][t] = IF w = e \/ (t = e /\ w \in Occupants(V)) THEN NoSpot ELSE told[w][t]
  <2>1. told' = [w \in Entity |->
                    IF w = e THEN [t \in Entity |-> NoSpot]
                    ELSE IF w \in Occupants(V) THEN [told[w] EXCEPT ![e] = NoSpot]
                    ELSE told[w]]
    BY DEF remove_entity, get_entity_ids_in_view
  <2>2. QED  BY <2>1 DEF GridInv, TypeOK
<1>4. TypeOK'
  BY <1>1, <1>2, <1>3 DEF GridInv, TypeOK
<1>5. GridOfPosition' /\ Occupied'
  BY <1>0, <1>1, <1>2 DEF GridInv, TypeOK, GridOfPosition, Occupied
<1>6. ToldIsSeen'
  <2> SUFFICES ASSUME NEW w \in Entity, NEW t \in Entity, told'[w][t] # NoSpot
               PROVE  /\ w # t /\ entities'[w] # NoSpot /\ entities'[t] # NoSpot
                      /\ Sees(w, t)' /\ pos_to_grid(told'[w][t]) = entity_to_grid'[t]
    BY DEF ToldIsSeen
  <2>1. w # e /\ told'[w][t] = told[w][t] /\ told[w][t] # NoSpot /\ ~(t = e /\ w \in Occupants(V))
    BY <1>3
  <2>2. /\ w # t /\ entities[w] # NoSpot /\ entities[t] # NoSpot
        /\ Sees(w, t) /\ pos_to_grid(told[w][t]) = entity_to_grid[t]
    BY <2>1 DEF GridInv, ToldIsSeen
  <2>3. t # e
    <3> SUFFICES ASSUME t = e PROVE FALSE
      OBVIOUS
    <3>1. entities[w] \in Spot
      BY <2>2 DEF GridInv, TypeOK
    <3>2. pos_to_grid(entities[w]) \in V
      BY <1>0, <2>2, <3>1, ViewIsMutual DEF Sees
    <3>3. QED  BY <1>2, <2>1, <2>2, <3>2
  <2>4. QED  BY <1>1, <2>1, <2>2, <2>3 DEF Sees, GridInv, TypeOK
<1>7. ElderIsTold'
  <2> SUFFICES ASSUME NEW w \in Entity, NEW t \in Entity, w \in elders'[t]
               PROVE  /\ w # t /\ entities'[w] # NoSpot /\ entities'[t] # NoSpot
                      /\ Sees(w, t)' => told'[w][t] # NoSpot
    BY DEF ElderIsTold
  <2>1. w # e /\ t # e /\ w \in elders[t]
    BY <1>1
  <2>2. QED  BY <1>1, <1>3, <2>1 DEF Sees, GridInv, TypeOK, ElderIsTold
<1> QED  BY <1>4, <1>5, <1>6, <1>7 DEF GridInv

\* update_entity inside a grid: nobody's view changes.
LEMMA MoveInStep ==
  ASSUME GridInv, NEW e \in Entity, NEW p \in Spot, MoveInGrid(e, p)
  PROVE  GridInv'
<1> DEFINE g == pos_to_grid(p)
<1>0. /\ entities[e] # NoSpot /\ entities[e] \in Spot /\ g = pos_to_grid(entities[e])
      /\ entity_to_grid[e] = g /\ g \in Grid /\ p # NoSpot
  BY SpotHasGrid DEF MoveInGrid, GridInv, TypeOK, GridOfPosition
<1>1. entities' = [entities EXCEPT ![e] = p] /\ UNCHANGED <<grids, entity_to_grid, elders>>
  BY DEF MoveInGrid
<1>2. /\ told' \in [Entity -> [Entity -> Spot \cup {NoSpot}]]
      /\ \A w, t \in Entity : told'[w][t] = IF t = e /\ w \in grids[g] \ {e} THEN p ELSE told[w][t]
  <2>1. told' = [w \in Entity |-> IF w \in grids[g] \ {e} THEN [told[w] EXCEPT ![e] = p] ELSE told[w]]
    BY DEF MoveInGrid
  <2>2. QED  BY <2>1 DEF GridInv, TypeOK
<1>3. \A w \in Entity : /\ entities'[w] # NoSpot <=> entities[w] # NoSpot
                        /\ pos_to_grid(entities'[w]) = pos_to_grid(entities[w])
                        /\ get_grids_in_view(entities'[w]) = get_grids_in_view(entities[w])
  <2>1. get_grids_in_view(p) = get_grids_in_view(entities[e])
    BY <1>0, ViewOfGrid
  <2>2. QED  BY <1>0, <1>1, <2>1 DEF GridInv, TypeOK
<1>4. \A w, t \in Entity : Sees(w, t)' <=> Sees(w, t)
  BY <1>3 DEF Sees
<1>5. TypeOK'
  BY <1>1, <1>2 DEF GridInv, TypeOK
<1>6. GridOfPosition' /\ Occupied'
  BY <1>1, <1>3 DEF GridInv, GridOfPosition, Occupied
<1>7. ToldIsSeen'
  <2> SUFFICES ASSUME NEW w \in Entity, NEW t \in Entity, told'[w][t] # NoSpot
               PROVE  /\ w # t /\ entities'[w] # NoSpot /\ entities'[t] # NoSpot
                      /\ Sees(w, t)' /\ pos_to_grid(told'[w][t]) = entity_to_grid'[t]
    BY DEF ToldIsSeen
  <2>1. CASE t = e /\ w \in grids[g] \ {e}
    <3>1. entities[w] # NoSpot /\ entities[w] \in Spot /\ pos_to_grid(entities[w]) = g
      BY <1>0, <2>1 DEF GridInv, TypeOK, Occupied, GridOfPosition
    <3>2. Sees(w, t)
      BY <1>0, <2>1, <3>1, ViewOfGrid DEF Sees
    <3>3. QED  BY <1>0, <1>1, <1>2, <1>3, <1>4, <2>1, <3>1, <3>2
  <2>2. CASE ~(t = e /\ w \in grids[g] \ {e})
    BY <1>1, <1>2, <1>3, <1>4, <2>2 DEF GridInv, ToldIsSeen
  <2>3. QED  BY <2>1, <2>2
<1>8. ElderIsTold'
  BY <1>0, <1>1, <1>2, <1>3, <1>4 DEF GridInv, ElderIsTold
<1> QED  BY <1>5, <1>6, <1>7, <1>8 DEF GridInv

\* update_entity across grids: those who lose the entity from view are told, and
\* it is told of them; so are those that come into view.
LEMMA MoveAcrossStep ==
  ASSUME GridInv, NEW e \in Entity, NEW p \in Spot, MoveAcross(e, p)
  PROVE  GridInv'
<1> DEFINE g == pos_to_grid(p)
           B == get_grids_in_view(entities[e])
           A == get_grids_in_view(p)
           left == Occupants(B \ A) \ {e}
           met == Occupants(A \ B) \ {e}
           kept == Occupants(B \cap A) \ {e}
<1>0. /\ entities[e] # NoSpot /\ entities[e] \in Spot /\ entity_to_grid[e] = pos_to_grid(entities[e])
      /\ pos_to_grid(entities[e]) \in Grid /\ g \in Grid /\ p # NoSpot /\ g # pos_to_grid(entities[e])
      /\ B \subseteq Grid /\ A \subseteq Grid /\ g # NoGrid
  BY SpotHasGrid, ViewOfGrid DEF MoveAcross, GridInv, TypeOK, GridOfPosition
<1>1. /\ entities' = [entities EXCEPT ![e] = p]
      /\ grids' = [grids EXCEPT ![pos_to_grid(entities[e])] = @ \ {e}, ![g] = @ \cup {e}]
      /\ entity_to_grid' = [entity_to_grid EXCEPT ![e] = g]
      /\ elders' = elders
  BY DEF MoveAcross
<1>2. \A x \in Entity :
         /\ x \in left <=> x # e /\ entities[x] # NoSpot /\ pos_to_grid(entities[x]) \in B \ A
         /\ x \in met <=> x # e /\ entities[x] # NoSpot /\ pos_to_grid(entities[x]) \in A \ B
         /\ x \in kept <=> x # e /\ entities[x] # NoSpot /\ pos_to_grid(entities[x]) \in B \cap A
  BY <1>0, WhoIsThere
<1>3. told' = [w \in Entity |->
              IF w = e THEN [t \in Entity |-> IF t \in left THEN NoSpot
                                              ELSE IF t \in met THEN entities[t] ELSE told[e][t]]
              ELSE IF w \in left THEN [told[w] EXCEPT ![e] = NoSpot]
              ELSE IF w \in met \cup kept THEN [told[w] EXCEPT ![e] = p] ELSE told[w]]
  BY DEF MoveAcross
<1> HIDE DEF left, met, kept
<1>4. /\ told' \in [Entity -> [Entity -> Spot \cup {NoSpot}]]
      /\ \A w, t \in Entity : w # e /\ t # e => told'[w][t] = told[w][t]
      /\ \A t \in Entity :
            told'[e][t] = IF t \in left THEN NoSpot ELSE IF t \in met THEN entities[t] ELSE told[e][t]
      /\ \A w \in Entity : w # e =>
            told'[w][e] = IF w \in left THEN NoSpot ELSE IF w \in met \cup kept THEN p ELSE told[w][e]
  BY <1>3 DEF GridInv, TypeOK
<1>5. \A w \in Entity : w # e => entities'[w] = entities[w] /\ entity_to_grid'[w] = entity_to_grid[w]
  BY <1>1 DEF GridInv, TypeOK
<1>6. entities'[e] = p /\ entity_to_grid'[e] = g
  BY <1>1 DEF GridInv, TypeOK
<1>7. \A w, t \in Entity : w # e /\ t # e => (Sees(w, t)' <=> Sees(w, t))
  BY <1>5 DEF Sees
<1>8. \A x \in Entity : x # e /\ entities[x] # NoSpot =>
         /\ Sees(e, x) <=> pos_to_grid(entities[x]) \in B
         /\ Sees(x, e) <=> pos_to_grid(entities[x]) \in B
         /\ Sees(e, x)' <=> pos_to_grid(entities[x]) \in A
         /\ Sees(x, e)' <=> pos_to_grid(entities[x]) \in A
  <2> SUFFICES ASSUME NEW x \in Entity, x # e, entities[x] # NoSpot
               PROVE  /\ Sees(e, x) <=> pos_to_grid(entities[x]) \in B
                      /\ Sees(x, e) <=> pos_to_grid(entities[x]) \in B
                      /\ Sees(e, x)' <=> pos_to_grid(entities[x]) \in A
                      /\ Sees(x, e)' <=> pos_to_grid(entities[x]) \in A
    OBVIOUS
  <2>1. entities[x] \in Spot
    BY DEF GridInv, TypeOK
  <2>2. /\ pos_to_grid(entities[e]) \in get_grids_in_view(entities[x]) <=> pos_to_grid(entities[x]) \in B
        /\ pos_to_grid(p) \in get_grids_in_view(entities[x]) <=> pos_to_grid(entities[x]) \in A
    BY <1>0, <2>1, ViewIsMutual
  <2>3. QED  BY <1>5, <1>6, <2>2 DEF Sees
<1> HIDE DEF A, B
<1>9. TypeOK'
  BY <1>0, <1>1, <1>4 DEF GridInv, TypeOK
<1>10. GridOfPosition' /\ Occupied'
  BY <1>0, <1>1 DEF GridInv, TypeOK, GridOfPosition, Occupied
<1>11. ToldIsSeen'
  <2> SUFFICES ASSUME NEW w \in Entity, NEW t \in Entity, told'[w][t] # NoSpot
               PROVE  /\ w # t /\ entities'[w] # NoSpot /\ entities'[t] # NoSpot
                      /\ Sees(w, t)' /\ pos_to_grid(told'[w][t]) = entity_to_grid'[t]
    BY DEF ToldIsSeen
  <2>1. CASE w # e /\ t # e
    BY <1>4, <1>5, <1>7, <2>1 DEF GridInv, ToldIsSeen
  <2>2. CASE w = e
    <3>1. t # e
      BY <1>2, <1>4, <2>2 DEF GridInv, ToldIsSeen
    <3>2. CASE t \in met
      <4>1. told'[w][t] = entities[t]
        BY <1>2, <1>4, <2>2, <3>2
      <4>2. entities[t] # NoSpot /\ pos_to_grid(entities[t]) \in A
        BY <1>2, <3>2
      <4>3. entity_to_grid'[t] = pos_to_grid(entities[t])
        BY <1>5, <3>1, <4>2 DEF GridInv, GridOfPosition
      <4>4. QED  BY <1>0, <1>5, <1>6, <1>8, <2>2, <3>1, <4>1, <4>2, <4>3
    <3>3. CASE t \notin met
      <4>1. told'[w][t] = told[e][t] /\ t \notin left
        BY <1>4, <2>2, <3>3
      <4>2. entities[t] # NoSpot /\ Sees(e, t) /\ pos_to_grid(told[e][t]) = entity_to_grid[t]
        BY <2>2, <4>1 DEF GridInv, ToldIsSeen
      <4>3. pos_to_grid(entities[t]) \in A
        BY <1>2, <1>8, <3>1, <4>1, <4>2
      <4>4. QED  BY <1>0, <1>5, <1>6, <1>8, <2>2, <3>1, <4>1, <4>2, <4>3
    <3>4. QED  BY <3>2, <3>3
  <2>3. CASE w # e /\ t = e
    <3>1. CASE w \in met \cup kept
      <4>1. told'[w][t] = p /\ entities[w] # NoSpot /\ pos_to_grid(entities[w]) \in A
        BY <1>2, <1>4, <2>3, <3>1
      <4>2. QED  BY <1>0, <1>5, <1>6, <1>8, <2>3, <4>1
    <3>2. CASE w \notin met \cup kept
      <4>1. told'[w][t] = told[w][e] /\ w \notin left
        BY <1>4, <2>3, <3>2
      <4>2. entities[w] # NoSpot /\ Sees(w, e)
        BY <2>3, <4>1 DEF GridInv, ToldIsSeen
      <4>3. QED  BY <1>2, <1>8, <2>3, <3>2, <4>1, <4>2
    <3>3. QED  BY <3>1, <3>2
  <2>4. QED  BY <2>1, <2>2, <2>3
<1>12. ElderIsTold'
  <2> SUFFICES ASSUME NEW w \in Entity, NEW t \in Entity, w \in elders[t]
               PROVE  /\ w # t /\ entities'[w] # NoSpot /\ entities'[t] # NoSpot
                      /\ Sees(w, t)' => told'[w][t] # NoSpot
    BY <1>1 DEF ElderIsTold
  <2>1. /\ w # t /\ entities[w] # NoSpot /\ entities[t] # NoSpot
        /\ Sees(w, t) => told[w][t] # NoSpot
    BY DEF GridInv, ElderIsTold
  <2>2. CASE w # e /\ t # e
    BY <1>4, <1>5, <1>7, <2>1, <2>2
  <2>3. CASE w = e
    BY <1>0, <1>2, <1>4, <1>5, <1>6, <1>8, <2>1, <2>3
  <2>4. CASE t = e
    BY <1>0, <1>2, <1>4, <1>5, <1>6, <1>8, <2>1, <2>4
  <2>5. QED  BY <2>2, <2>3, <2>4
<1> QED  BY <1>9, <1>10, <1>11, <1>12 DEF GridInv

\* Every call keeps the invariant.
LEMMA GridStep == GridInv /\ [Next]_gridVars => GridInv'
<1> SUFFICES ASSUME GridInv, [Next]_gridVars PROVE GridInv'
  OBVIOUS
<1>1. CASE Next
  BY <1>1, AddStep, RemoveStep, MoveInStep, MoveAcrossStep DEF Next
<1>2. CASE UNCHANGED gridVars
  BY <1>2 DEF gridVars, GridInv, TypeOK, GridOfPosition, Occupied, ToldIsSeen, ElderIsTold, Sees
<1> QED  BY <1>1, <1>2

-----------------------------------------------------------------------------
\* For every set of entities, any grid, any range of view and any calls: the maps
\* of GridAoi agree, and the ENTER, LEAVE and MOVE events leave a watcher with
\* nobody out of its view and with everybody in view that came after it.
THEOREM WatchersToldRight == Spec => []ToldRight
<1>1. GridInv => ToldRight
  BY DEF GridInv, ToldRight, ToldToTheGrid, Occupied, ToldIsSeen, ElderIsTold, Present
<1> QED  BY GridInit, GridStep, <1>1, PTL DEF Spec

-----------------------------------------------------------------------------
(* SlgMap.                                                                 *)

Fields == {"state", "owner", "from", "to", "current", "elapsed", "total"}
States == {"IDLE", "MARCHING", "GATHERING", "BATTLE", "RETURNING"}

\* A troop is in troops_ and in the AOI or in neither, unless the game used its id.
\* Its last stop is a position somebody passed, and so is its target unless it has none.
TroopFine(t) ==
    \/ troops[t] = NoTroop /\ (t \notin foreign => entities[t] = NoSpot)
    \/ /\ DOMAIN troops[t] = Fields /\ troops[t].state \in States
       /\ troops[t].from \in Spot /\ (troops[t].state # "IDLE" => troops[t].to \in Spot)
       /\ t \notin foreign => entities[t] = Stop(troops[t])
       /\ troops[t].state \notin {"MARCHING", "RETURNING"} => troops[t].current = Stop(troops[t])
       /\ troops[t].state = "RETURNING" => troops[t].to = troops[t].from

TroopsInv ==
    /\ DOMAIN troops = Troop /\ updating \subseteq Troop /\ foreign \subseteq Troop /\ strayed \in BOOLEAN
    /\ \A t \in Troop : TroopFine(t)

CitiesInv == DOMAIN cells = Index /\ cities \in Seq([at : Spot, owner : Player \cup {0}]) /\ Len(cities) <= MaxCity

\* A troop that a step leaves alone.
LEMMA TroopKept ==
  ASSUME NEW t, TroopFine(t), troops'[t] = troops[t], entities'[t] = entities[t], foreign' = foreign
  PROVE  TroopFine(t)'
BY DEF TroopFine

\* The steps that touch neither troops nor the AOI.
LEMMA GroundStep ==
  ASSUME TroopsInv, UNCHANGED Ground
  PROVE  TroopsInv'
BY TroopKept DEF TroopsInv, Ground, gridVars

\* The cells and cities.
LEMMA CitiesStep == ASSUME CitiesInv, SlgNext PROVE CitiesInv'
<1> DEFINE City == [at : Spot, owner : Player \cup {0}]
<1>0. DOMAIN cells = Index /\ cities \in Seq(City) /\ Len(cities) \in Nat /\ Len(cities) <= MaxCity
  BY DEF CitiesInv
<1> HIDE DEF City
<1>1. ASSUME NEW c \in City, cities' = Append(cities, c), Len(cities) < MaxCity, DOMAIN cells' = Index
      PROVE  CitiesInv'
  <2>1. cities' \in Seq(City) /\ Len(cities') = Len(cities) + 1
    BY <1>0, <1>1
  <2>2. QED  BY <1>0, <1>1, <2>1, SlgAssumption DEF CitiesInv, City
<1>2. ASSUME cities' = cities, DOMAIN cells' = Index PROVE CitiesInv'
  BY <1>0, <1>2 DEF CitiesInv, City
<1>3. ASSUME NEW p \in Spot, generate_cities(p) PROVE CitiesInv'
  <2>1. [at |-> p, owner |-> 0] \in City
    BY DEF City
  <2>2. QED  BY <1>0, <1>1, <1>3, <2>1 DEF generate_cities
<1>4. ASSUME NEW p \in Spot, NEW o \in Player, create_city(p, o) PROVE CitiesInv'
  <2>1. [at |-> p, owner |-> o] \in City
    BY DEF City
  <2>2. QED  BY <1>0, <1>1, <1>4, <2>1 DEF create_city
<1>5. ASSUME NEW i \in 1..MaxCity, NEW p \in Spot, NEW o \in Player, update_city(i, p, o) PROVE CitiesInv'
  <2>1. i \in DOMAIN cities /\ cities' = [cities EXCEPT ![i] = [at |-> p, owner |-> o]] /\ cells' = cells
    BY <1>5 DEF update_city
  <2>2. PICK c \in City : c = [at |-> p, owner |-> o]
    BY DEF City
  <2>3. i \in 1..Len(cities) /\ cities' = [cities EXCEPT ![i] = c]
    BY <1>0, <2>1, <2>2
  <2>4. cities' \in Seq(City) /\ Len(cities') = Len(cities)
    BY <1>0, <2>3, ExceptSeq
  <2>5. QED  BY <1>0, <2>1, <2>4 DEF CitiesInv, City
<1>6. ASSUME generate_terrain PROVE CitiesInv'
  BY <1>2, <1>6 DEF generate_terrain
<1>7. ASSUME NEW i \in Index, generate_resources(i) PROVE CitiesInv'
  BY <1>0, <1>2, <1>7 DEF generate_resources
<1>8. ASSUME NEW p \in Spot, NEW c, SetCell(p, c) PROVE CitiesInv'
  BY <1>0, <1>2, <1>8 DEF SetCell
<1>9. ASSUME NEW p \in Spot, add_building(p) \/ remove_building(p) PROVE CitiesInv'
  BY <1>8, <1>9 DEF add_building, remove_building
<1>10. ASSUME NEW p \in Spot, NEW o, update_cell_owner(p, o) \/ update_cell(p, o) PROVE CitiesInv'
  BY <1>8, <1>10 DEF update_cell, update_cell_owner
<1>11. ASSUME UNCHANGED <<cells, cities>> PROVE CitiesInv'
  BY <1>0, <1>2, <1>11
<1> QED
  BY <1>3, <1>4, <1>5, <1>6, <1>7, <1>9, <1>10, <1>11
  DEF SlgNext, Army, move_troop, create_troop, cancel_troop, Halted, UnderWay, Arrive, aoi, update_troops, Tick

\* The troops: the record and the AOI change together.
LEMMA TroopsStep == ASSUME TypeOK, TroopsInv, SlgNext PROVE TroopsInv'
<1>0. /\ DOMAIN troops = Troop /\ updating \subseteq Troop /\ foreign \subseteq Troop /\ strayed \in BOOLEAN
      /\ \A t \in Troop : TroopFine(t) /\ t \in Entity
      /\ DOMAIN entities = Entity
  BY SlgAssumption DEF TroopsInv, TypeOK
<1>1. ASSUME NEW t \in Troop, DOMAIN troops' = Troop, TroopFine(t)',
             \A u \in Troop : u # t => troops'[u] = troops[u] /\ entities'[u] = entities[u],
             updating' \subseteq Troop, foreign' = foreign, strayed' \in BOOLEAN
      PROVE  TroopsInv'
  BY <1>0, <1>1, TroopKept DEF TroopsInv
<1>2. ASSUME NEW t \in Troop, NEW o \in Player, NEW p \in Spot, create_troop(t, o, p) PROVE TroopsInv'
  <2>1. /\ entities' = entities \/ entities' = [entities EXCEPT ![t] = p]
        /\ entities[t] = NoSpot => entities' = [entities EXCEPT ![t] = p]
        /\ troops[t] = NoTroop /\ UNCHANGED <<updating, foreign, strayed>>
        /\ troops' = [troops EXCEPT ![t] = [state |-> "IDLE", owner |-> o, from |-> p, to |-> <<0, 0>>,
                                            current |-> p, elapsed |-> 0, total |-> 0]]
    BY <1>2 DEF create_troop, add_entity, Army, gridVars
  <2>2. PICK r : r = [state |-> "IDLE", owner |-> o, from |-> p, to |-> <<0, 0>>,
                      current |-> p, elapsed |-> 0, total |-> 0]
    OBVIOUS
  <2>3. DOMAIN r = Fields /\ r.state = "IDLE" /\ r.from = p /\ r.current = p
    BY <2>2 DEF Fields
  <2>4. troops'[t] = r /\ (t \notin foreign' => entities'[t] = p)
    <3>1. t \notin foreign => entities[t] = NoSpot
      <4>1. NoTroop.state \notin States
        BY DEF NoTroop, States
      <4>2. QED  BY <1>0, <2>1, <4>1 DEF TroopFine
    <3>2. QED  BY <1>0, <2>1, <2>2, <3>1
  <2>5. TroopFine(t)'
    BY <2>3, <2>4 DEF TroopFine, Stop, States
  <2>6. QED  BY <1>0, <1>1, <2>1, <2>5
<1>3. ASSUME NEW t \in Troop, troops[t] # NoTroop
      PROVE  /\ DOMAIN troops[t] = Fields /\ troops[t].state \in States
             /\ troops[t].from \in Spot /\ (troops[t].state # "IDLE" => troops[t].to \in Spot)
             /\ t \notin foreign => entities[t] = Stop(troops[t])
             /\ troops[t].state \notin {"MARCHING", "RETURNING"} => troops[t].current = Stop(troops[t])
             /\ troops[t].state = "RETURNING" => troops[t].to = troops[t].from
  BY <1>0, <1>3 DEF TroopFine
<1>4. ASSUME NEW t \in Troop, NEW p \in Spot, move_troop(t, p) PROVE TroopsInv'
  <2>1. /\ troops[t].state = "IDLE" /\ UNCHANGED <<entities, updating, foreign, strayed>>
        /\ troops' = [troops EXCEPT ![t].to = p, ![t].state = "MARCHING", ![t].elapsed = 0,
                                    ![t].total = calculate_march_time(troops[t].from, p)]
    BY <1>4 DEF move_troop, gridVars, Army
  <2>2. troops[t] # NoTroop
    BY <2>1 DEF NoTroop
  <2>3. PICK r : r = troops[t]
    OBVIOUS
  <2>4. PICK n : n = calculate_march_time(troops[t].from, p)
    OBVIOUS
  <2>5. troops'[t] = [r EXCEPT !.to = p, !.state = "MARCHING", !.elapsed = 0, !.total = n]
    BY <1>0, <2>1, <2>3, <2>4
  <2>6. DOMAIN r = Fields /\ r.from \in Spot /\ (t \notin foreign => entities[t] = r.from)
    BY <1>3, <2>1, <2>2, <2>3 DEF Stop
  <2>7. /\ DOMAIN troops'[t] = Fields /\ troops'[t].state = "MARCHING"
        /\ troops'[t].to = p /\ troops'[t].from = r.from
    BY <2>5, <2>6 DEF Fields
  <2>8. TroopFine(t)'
    BY <2>1, <2>6, <2>7 DEF TroopFine, Stop, States
  <2>9. QED  BY <1>0, <1>1, <2>1, <2>8
<1>5. ASSUME NEW t \in Troop, cancel_troop(t) PROVE TroopsInv'
  <2>1. /\ troops[t].state = "MARCHING" /\ UNCHANGED <<entities, updating, foreign, strayed>>
        /\ troops' = [troops EXCEPT ![t].to = troops[t].from, ![t].state = "RETURNING"]
    BY <1>5 DEF cancel_troop, gridVars, Army
  <2>2. troops[t] # NoTroop
    BY <2>1 DEF NoTroop
  <2>3. PICK r : r = troops[t]
    OBVIOUS
  <2>4. troops'[t] = [r EXCEPT !.to = r.from, !.state = "RETURNING"]
    BY <1>0, <2>1, <2>3
  <2>5. DOMAIN r = Fields /\ r.from \in Spot /\ (t \notin foreign => entities[t] = r.from)
    BY <1>3, <2>1, <2>2, <2>3 DEF Stop
  <2>6. /\ DOMAIN troops'[t] = Fields /\ troops'[t].state = "RETURNING"
        /\ troops'[t].to = r.from /\ troops'[t].from = r.from
    BY <2>4, <2>5 DEF Fields
  <2>7. TroopFine(t)'
    BY <2>1, <2>5, <2>6 DEF TroopFine, Stop, States
  <2>8. QED  BY <1>0, <1>1, <2>1, <2>7
<1>6. ASSUME NEW t \in Troop, UnderWay(t) PROVE TroopsInv'
  <2>1. /\ troops[t].state \in {"MARCHING", "RETURNING"} /\ updating' = updating \ {t}
        /\ UNCHANGED <<entities, foreign, strayed>>
    BY <1>6 DEF UnderWay, gridVars, Army
  <2>2. PICK x : troops' = [troops EXCEPT ![t].current = x]
    BY <1>6 DEF UnderWay
  <2>3. troops[t] # NoTroop
    BY <2>1 DEF NoTroop
  <2>4. PICK r : r = troops[t]
    OBVIOUS
  <2>5. troops'[t] = [r EXCEPT !.current = x]
    BY <1>0, <2>2, <2>4
  <2>6. /\ DOMAIN r = Fields /\ r.state \in {"MARCHING", "RETURNING"} /\ r.from \in Spot /\ r.to \in Spot
        /\ (t \notin foreign => entities[t] = r.from) /\ (r.state = "RETURNING" => r.to = r.from)
    BY <1>3, <2>1, <2>3, <2>4 DEF Stop
  <2>7. /\ DOMAIN troops'[t] = Fields /\ troops'[t].state = r.state
        /\ troops'[t].to = r.to /\ troops'[t].from = r.from
    BY <2>5, <2>6 DEF Fields
  <2>8. TroopFine(t)'
    BY <2>1, <2>6, <2>7 DEF TroopFine, Stop, States
  <2>9. QED  BY <1>0, <1>1, <2>1, <2>2, <2>8
<1>7. ASSUME NEW t \in Troop, Arrive(t) PROVE TroopsInv'
  <2>1. /\ troops[t].state \in {"MARCHING", "RETURNING"} /\ updating' = updating \ {t}
        /\ entities' = entities \/ entities' = [entities EXCEPT ![t] = troops[t].to]
        /\ entities[t] # NoSpot => entities' = [entities EXCEPT ![t] = troops[t].to]
        /\ foreign' = foreign
    BY <1>7 DEF Arrive, update_entity, MoveInGrid, MoveAcross, gridVars
  <2>2. PICK s \in Fate(troops[t]) :
           troops' = [troops EXCEPT ![t].current = troops[t].to, ![t].state = s,
                                    ![t].from = IF s = "IDLE" THEN troops[t].to ELSE @,
                                    ![t].elapsed = 0, ![t].total = 0]
    BY <1>7 DEF Arrive
  <2>3. s \in {"GATHERING", "BATTLE", "IDLE"}
    BY <2>2 DEF Fate
  <2>4. troops[t] # NoTroop
    BY <2>1 DEF NoTroop
  <2>5. PICK r : r = troops[t]
    OBVIOUS
  <2>6. troops'[t] = [r EXCEPT !.current = r.to, !.state = s, !.from = IF s = "IDLE" THEN r.to ELSE @,
                               !.elapsed = 0, !.total = 0]
    BY <1>0, <2>2, <2>5
  <2>7. DOMAIN r = Fields /\ r.from \in Spot /\ r.to \in Spot
    BY <1>3, <2>1, <2>4, <2>5
  <2>8. /\ DOMAIN troops'[t] = Fields /\ troops'[t].state = s /\ troops'[t].current = r.to
        /\ troops'[t].to = r.to /\ troops'[t].from = IF s = "IDLE" THEN r.to ELSE r.from
    BY <2>6, <2>7 DEF Fields
  <2>9. t \notin foreign' => entities'[t] = r.to
    <3>1. t \notin foreign => entities[t] \in Spot
      BY <1>3, <2>1, <2>4, <2>5, <2>7 DEF Stop
    <3>2. t \notin foreign => entities[t] # NoSpot
      BY <3>1, SpotHasGrid
    <3>3. QED  BY <1>0, <2>1, <2>5, <3>2
  <2>10. TroopFine(t)'
    BY <2>3, <2>7, <2>8, <2>9 DEF TroopFine, Stop, States
  <2>11. strayed' \in BOOLEAN
    BY <1>7 DEF Arrive
  <2>12. QED  BY <1>0, <1>1, <2>1, <2>2, <2>10, <2>11
<1>8. ASSUME Tick PROVE TroopsInv'
  <2>1. /\ UNCHANGED <<entities, updating, foreign, strayed>>
        /\ troops' = [t \in Troop |-> IF troops[t] # NoTroop /\ troops[t].elapsed < troops[t].total
                                      THEN [troops[t] EXCEPT !.elapsed = @ + 1] ELSE troops[t]]
    BY <1>8 DEF Tick, gridVars, Army
  <2>2. ASSUME NEW t \in Troop PROVE TroopFine(t)'
    <3>1. CASE troops'[t] = troops[t]
      BY <1>0, <2>1, <3>1, TroopKept
    <3>2. CASE troops'[t] # troops[t]
      <4>1. troops[t] # NoTroop /\ troops'[t] = [troops[t] EXCEPT !.elapsed = @ + 1]
        BY <2>1, <3>2
      <4>2. PICK r : r = troops[t]
        OBVIOUS
      <4>3. PICK n : troops'[t] = [r EXCEPT !.elapsed = n]
        BY <4>1, <4>2
      <4>4. DOMAIN r = Fields
        BY <1>3, <4>1, <4>2
      <4>5. /\ DOMAIN troops'[t] = Fields /\ troops'[t].state = r.state /\ troops'[t].from = r.from
            /\ troops'[t].to = r.to /\ troops'[t].current = r.current
        BY <4>3, <4>4 DEF Fields
      <4>6. QED  BY <1>3, <2>1, <4>1, <4>2, <4>5 DEF TroopFine, Stop
    <3>3. QED  BY <3>1, <3>2
  <2>3. QED  BY <1>0, <2>1, <2>2 DEF TroopsInv
<1>9. ASSUME UNCHANGED <<gridVars, foreign, strayed, troops>>, updating' \subseteq Troop PROVE TroopsInv'
  BY <1>0, <1>9, TroopKept DEF TroopsInv, gridVars
<1>10. ASSUME UNCHANGED Ground PROVE TroopsInv'
  BY <1>10, GroundStep
<1>11. ASSUME NEW t \in Troop, Halted(t) PROVE TroopsInv'
  BY <1>0, <1>9, <1>11 DEF Halted, Army
<1>12. CASE update_troops
  BY <1>0, <1>9, <1>12 DEF update_troops, Army
<1>13. ASSUME NEW e \in Entity, aoi(e) PROVE TroopsInv'
  <2>1. /\ UNCHANGED <<troops, updating, strayed>> /\ foreign' = foreign \cup ({e} \cap Troop)
        /\ \E q : entities' = [entities EXCEPT ![e] = q]
    BY <1>13 DEF aoi, remove_entity, add_entity, update_entity, MoveInGrid, MoveAcross
  <2>2. ASSUME NEW t \in Troop PROVE TroopFine(t)'
    <3>1. t \notin foreign' => t \notin foreign /\ entities'[t] = entities[t]
      BY <2>1
    <3>2. QED  BY <1>0, <2>1, <3>1 DEF TroopFine
  <2>3. QED  BY <1>0, <2>1, <2>2 DEF TroopsInv
<1> QED
  BY <1>2, <1>4, <1>5, <1>6, <1>7, <1>8, <1>10, <1>11, <1>12, <1>13
  DEF SlgNext, generate_terrain, generate_resources, generate_cities, create_city, update_city,
      update_cell, update_cell_owner, add_building, remove_building, SetCell

-----------------------------------------------------------------------------
SlgInv == TypeOK /\ TroopsInv /\ CitiesInv

\* A step of the map, or of the game that was given its AOI, is a call of the AOI that
\* GridAoi allows, or none: where a troop arrives is a position somebody passed.
LEMMA AoiStep == ASSUME TypeOK, TroopsInv, SlgNext PROVE [Next]_gridVars
<1>1. ASSUME NEW t \in Troop, NEW o \in Player, NEW p \in Spot, create_troop(t, o, p)
      PROVE  [Next]_gridVars
  BY <1>1, SlgAssumption DEF create_troop, Next
<1>2. ASSUME NEW t \in Troop, Arrive(t) PROVE [Next]_gridVars
  <2>1. troops[t] # NoTroop /\ troops[t].state # "IDLE"
    BY <1>2 DEF Arrive, NoTroop
  <2>2. troops[t].to \in Spot /\ t \in Entity
    BY <2>1, SlgAssumption DEF TroopsInv, TroopFine
  <2>3. QED  BY <1>2, <2>2 DEF Arrive, update_entity, Next
<1>3. ASSUME NEW e \in Entity, aoi(e) PROVE Next
  BY <1>3 DEF aoi, update_entity, Next
<1> QED
  BY <1>1, <1>2, <1>3
  DEF SlgNext, Ground, gridVars, generate_terrain, generate_resources, generate_cities, create_city, update_city,
      update_cell, update_cell_owner, add_building, remove_building, SetCell,
      move_troop, cancel_troop, Halted, UnderWay, update_troops, Tick

\* A map without cities and troops.
LEMMA SlgInitSound == SlgInit => SlgInv
<1> SUFFICES ASSUME SlgInit PROVE SlgInv
  OBVIOUS
<1>1. TypeOK /\ \A t \in Troop : entities[t] = NoSpot
  BY GridInit, SlgAssumption DEF SlgInit, GridInv, Init
<1>2. foreign \subseteq Troop /\ strayed \in BOOLEAN /\ cities \in Seq([at : Spot, owner : Player \cup {0}]) /\ Len(cities) = 0
  <2>1. foreign \subseteq Troop /\ strayed \in BOOLEAN /\ cities = <<>>
    BY DEF SlgInit
  <2>2. ASSUME NEW S PROVE <<>> \in Seq(S) /\ Len(<<>>) = 0
    OBVIOUS
  <2>3. QED  BY <2>1, <2>2
<1>3. TroopsInv
  BY <1>1, <1>2 DEF SlgInit, TroopsInv, TroopFine
<1>4. CitiesInv
  BY <1>2, SlgAssumption DEF SlgInit, CitiesInv
<1> QED  BY <1>1, <1>3, <1>4 DEF SlgInv

\* Every step of the map keeps what is known of the map and of its AOI.
LEMMA SlgStep == SlgInv /\ GridInv /\ [SlgNext]_slgVars => SlgInv' /\ GridInv' /\ [Next]_gridVars
<1> SUFFICES ASSUME SlgInv, GridInv, [SlgNext]_slgVars PROVE SlgInv' /\ GridInv' /\ [Next]_gridVars
  OBVIOUS
<1>1. [Next]_gridVars
  BY AoiStep DEF SlgInv, slgVars
<1>2. GridInv'
  BY <1>1, GridStep
<1>3. CASE SlgNext
  BY <1>1, <1>2, <1>3, CitiesStep, TroopsStep DEF SlgInv, GridInv
<1>4. CASE UNCHANGED slgVars
  <2>1. TroopsInv'
    BY <1>4, GroundStep DEF slgVars, Ground, SlgInv
  <2>2. CitiesInv'
    BY <1>4 DEF slgVars, SlgInv, CitiesInv
  <2>3. QED  BY <1>1, <1>2, <2>1, <2>2 DEF SlgInv, GridInv
<1> QED  BY <1>3, <1>4

\* Whatever players do on the map and the game with its AOI, what reaches the AOI is a
\* behaviour of GridAoi (create_troop, update_troops, aoi): all that is proved of GridAoi holds under the map.
THEOREM MapDrivesAoi == SlgSpec => Spec
<1>1. SlgInit => Init
  BY DEF SlgInit
<1> QED  BY <1>1, SlgInitSound, GridInit, SlgStep, PTL DEF SlgSpec, Spec

\* For every set of troops and positions, targets outside the map included: the AOI
\* has every troop whose id the game left alone at its last stop, a troop that halted
\* stands there, and one that was called back heads for the place it left (move_troop,
\* cancel_troop, update_troops).
THEOREM TroopsStayPlaced == SlgSpec => []MarchesAgree
<1>1. SlgInit => Init
  BY DEF SlgInit
<1>2. SlgInv => MarchesAgree
  <2> SUFFICES ASSUME SlgInv PROVE MarchesAgree
    OBVIOUS
  <2>1. \A t \in Troop : TroopFine(t)
    BY DEF SlgInv, TroopsInv
  <2>2. TroopsPlaced
    <3> SUFFICES ASSUME NEW t \in Troop
                 PROVE  /\ t \notin foreign => entities[t] = IF troops[t] = NoTroop THEN NoSpot ELSE Stop(troops[t])
                        /\ troops[t] # NoTroop /\ troops[t].state \notin {"MARCHING", "RETURNING"}
                              => troops[t].current = Stop(troops[t])
                        /\ troops[t].state = "RETURNING" => troops[t].to = troops[t].from
      BY DEF TroopsPlaced
    <3>1. CASE troops[t] = NoTroop
      <4>1. troops[t].state = "none"
        BY <3>1 DEF NoTroop
      <4>2. QED  BY <2>1, <3>1, <4>1 DEF TroopFine, States
    <3>2. CASE troops[t] # NoTroop
      BY <2>1, <3>2 DEF TroopFine
    <3>3. QED  BY <3>1, <3>2
  <2>3. \A t \in Troop : troops[t].state \in States \cup {"none"}
    BY <2>1 DEF TroopFine, NoTroop
  <2>4. Len(cities) \in 0..MaxCity
    BY SlgAssumption DEF SlgInv, CitiesInv
  <2>5. SlgTypeOK
    BY <2>3, <2>4 DEF SlgInv, SlgTypeOK, TroopsInv, CitiesInv, States
  <2>6. QED  BY <2>2, <2>5 DEF MarchesAgree
<1> QED  BY <1>1, <1>2, SlgInitSound, GridInit, SlgStep, PTL DEF SlgSpec

-----------------------------------------------------------------------------
(***************************************************************************)
(* CrossListAoi. A list l = [h, nx, pv] threads the sequence o: h is its   *)
(* first node, nx and pv lead from each node to the next and back, and no  *)
(* node is met twice.                                                      *)
(***************************************************************************)
ListType == [h : Node \cup {None}, nx : [Node -> Node \cup {None}], pv : [Node -> Node \cup {None}]]

\* o is what a walk from h through the pointers nx meets.
Follows(h, nx, o) ==
    /\ o \in Seq(Node)
    /\ o = <<>> => h = None
    /\ o # <<>> => h = o[1]
    /\ \A i \in 1..Len(o) : nx[o[i]] = IF i = Len(o) THEN None ELSE o[i + 1]

Threads(l, o) ==
    /\ Follows(l.h, l.nx, o)
    /\ \A i, j \in 1..Len(o) : o[i] = o[j] => i = j
    /\ \A i \in 1..Len(o) : l.pv[o[i]] = IF i = 1 THEN None ELSE o[i - 1]

\* On an empty list a node that waits to be inserted has no neighbours.
Loose(l, o, n) == o = <<>> => l.nx[n] = None /\ l.pv[n] = None

\* The positions ps along axis a never fall from a node to a later one.
Ascends(o, a, ps) == \A i, j \in 1..Len(o) : i < j => ps[o[i]][a] <= ps[o[j]][a]

Holds(o, S) == \A n \in Node : n \in S <=> \E i \in 1..Len(o) : o[i] = n

\* The list l holds the nodes of S in the order of their positions ps along axis a.
Keeps(l, a, ps, S) ==
    l \in ListType /\ \E o \in Seq(Node) : Threads(l, o) /\ Ascends(o, a, ps) /\ Holds(o, S)

ListInv == CL!TypeOK /\ \A a \in CL!Axis : Keeps(CL!List(a), a, nodes, CL!Linked)

-----------------------------------------------------------------------------
\* The constants of the list.
LEMMA ListConstants ==
  /\ IsFiniteSet(Node) /\ None \notin Node
  /\ Place \subseteq Int \X Int /\ None \notin Place /\ Radius \in Int
<1>1. CL!IsFiniteSet(Node) = IsFiniteSet(Node)
  BY DEF CL!IsFiniteSet, IsFiniteSet
<1>2. QED  BY <1>1, GameMapAssumption DEF CL!ListAssumption

\* A nonempty set of naturals has a least member.
LEMMA LeastOf ==
  ASSUME NEW S \in SUBSET Nat, S # {}
  PROVE  \E x \in S : \A y \in S : x <= y
<1> DEFINE R == OpToRel(<, Nat)
<1>0. IsWellFoundedOn(R, Nat) /\ R = {ss \in Nat \X Nat : ss[1] < ss[2]}
  BY NatLessThanWellFounded DEF OpToRel
<1> HIDE DEF R
<1>1. PICK x \in S : \A y \in S : ~(<<y, x>> \in R)
  BY <1>0, WFMin
<1>2. ASSUME NEW y \in S PROVE x <= y
  <2>1. x \in Nat /\ y \in Nat /\ ~(<<y, x>> \in R)
    BY <1>1
  <2>2. ~(y < x)
    BY <1>0, <2>1
  <2>3. QED  BY <2>1, <2>2
<1> QED  BY <1>2

\* Two walks of the same list agree as far as both go.
LEMMA WalksAgree ==
  ASSUME NEW h, NEW nx, NEW o, NEW q, Follows(h, nx, o), Follows(h, nx, q)
  PROVE  \A i \in 1..Len(o) : i \in 1..Len(q) => o[i] = q[i]
<1> DEFINE D == {i \in 1..Len(o) : i \in 1..Len(q) /\ o[i] # q[i]}
<1>0. /\ o \in Seq(Node) /\ q \in Seq(Node)
      /\ Len(o) \in Nat /\ Len(q) \in Nat
  BY DEF Follows
<1>1. SUFFICES ASSUME D # {} PROVE FALSE
  OBVIOUS
<1>2. D \in SUBSET Nat
  BY <1>0
<1>3. PICK k \in D : \A y \in D : k <= y
  BY <1>1, <1>2, LeastOf
<1>4. k \in 1..Len(o) /\ k \in 1..Len(q) /\ o[k] # q[k]
  OBVIOUS
<1>5. CASE k = 1
  <2>1. o # <<>> /\ q # <<>>
    BY <1>0, <1>4
  <2>2. QED  BY <1>4, <1>5, <2>1 DEF Follows
<1>6. CASE k # 1
  <2>1. PICK m \in Nat : m = k - 1
    BY <1>0, <1>4, <1>6
  <2>2. /\ m \in 1..Len(o) /\ m \in 1..Len(q) /\ m # Len(o) /\ m # Len(q) /\ m + 1 = k
        /\ ~(k <= m)
    BY <1>0, <1>4, <1>6, <2>1
  <2>3. o[m] = q[m]
    BY <1>3, <2>2
  <2>4. nx[o[m]] = o[m + 1] /\ nx[q[m]] = q[m + 1]
    BY <2>2 DEF Follows
  <2>5. QED  BY <1>4, <2>2, <2>3, <2>4
<1>7. QED  BY <1>5, <1>6

\* ... and one of them is no shorter than the other.
LEMMA WalkNoShorter ==
  ASSUME NEW h, NEW nx, NEW o, NEW q, Follows(h, nx, o), Follows(h, nx, q)
  PROVE  Len(q) <= Len(o)
<1>0. /\ o \in Seq(Node) /\ q \in Seq(Node)
      /\ Len(o) \in Nat /\ Len(q) \in Nat
  BY DEF Follows
<1>1. SUFFICES ASSUME Len(o) < Len(q) PROVE FALSE
  BY <1>0
<1>2. CASE Len(o) = 0
  <2>1. o = <<>> /\ q # <<>> /\ 1 \in 1..Len(q)
    BY <1>0, <1>1, <1>2, EmptySeq
  <2>2. h = None /\ h = q[1] /\ q[1] \in Node
    BY <1>0, <2>1, ElementOfSeq DEF Follows
  <2>3. QED  BY <2>2, ListConstants
<1>3. CASE Len(o) # 0
  <2>1. PICK m \in Nat : m = Len(o)
    BY <1>0
  <2>2. m \in 1..Len(o) /\ m \in 1..Len(q) /\ m # Len(q) /\ m + 1 \in 1..Len(q)
    BY <1>0, <1>1, <1>3, <2>1
  <2>3. o[m] = q[m]
    BY <2>2, WalksAgree
  <2>4. nx[o[m]] = None /\ nx[q[m]] = q[m + 1]
    BY <2>1, <2>2 DEF Follows
  <2>5. q[m + 1] \in Node
    BY <1>0, <2>2, ElementOfSeq
  <2>6. QED  BY <2>3, <2>4, <2>5, ListConstants
<1>4. QED  BY <1>2, <1>3

\* A list has one walk.
LEMMA OneWalk ==
  ASSUME NEW h, NEW nx, NEW o, NEW q, Follows(h, nx, o), Follows(h, nx, q)
  PROVE  o = q
<1>0. /\ o \in Seq(Node) /\ q \in Seq(Node)
      /\ Len(o) \in Nat /\ Len(q) \in Nat
  BY DEF Follows
<1>1. Len(q) <= Len(o)
  BY WalkNoShorter
<1>2. Len(o) <= Len(q)
  BY WalkNoShorter
<1>3. Len(o) = Len(q)
  BY <1>0, <1>1, <1>2
<1>4. \A i \in 1..Len(o) : o[i] = q[i]
  BY <1>3, WalksAgree
<1>5. QED  BY <1>0, <1>3, <1>4, SeqEqual

\* A walk that meets no node twice is no longer than there are nodes.
LEMMA WalkIsBounded ==
  ASSUME NEW o \in Seq(Node), \A i, j \in 1..Len(o) : o[i] = o[j] => i = j
  PROVE  o \in CL!BoundedSeq(Node, CL!Cardinality(Node))
<1>1. CL!Cardinality(Node) = Cardinality(Node)
  BY DEF CL!Cardinality, Cardinality
<1>2. IsFiniteSet(Node) /\ Cardinality(Node) \in Nat
  BY ListConstants, FS_CardinalityType
<1>3. Len(o) \in Nat /\ o \in [1..Len(o) -> Node]
  OBVIOUS
<1>4. IsFiniteSet(1..Len(o)) /\ Cardinality(1..Len(o)) = Len(o)
  <2>1. 1 \in Int /\ Len(o) \in Int
    BY <1>3
  <2>2. /\ IsFiniteSet(1..Len(o))
        /\ Cardinality(1..Len(o)) = IF 1 > Len(o) THEN 0 ELSE Len(o) - 1 + 1
    BY <2>1, FS_Interval
  <2>3. QED  BY <1>3, <2>2
<1>5. ~(Cardinality(Node) < Cardinality(1..Len(o)))
  <2>1. SUFFICES ASSUME Cardinality(Node) < Cardinality(1..Len(o)) PROVE FALSE
    OBVIOUS
  <2>2. \E x, y \in 1..Len(o) : x # y /\ o[x] = o[y]
    BY <1>2, <1>3, <1>4, <2>1, FS_PigeonHole
  <2>3. QED  BY <2>2
<1>6. Len(o) \in 0..Cardinality(Node)
  BY <1>2, <1>3, <1>4, <1>5
<1>7. QED  BY <1>1, <1>3, <1>6 DEF CL!BoundedSeq, CL!SeqOf

\* The walk of the code is the sequence that the list threads.
LEMMA OrderIsThreaded ==
  ASSUME NEW l, NEW o, Threads(l, o)
  PROVE  CL!Order(l.h, l.nx) = o
<1> DEFINE B == CL!BoundedSeq(Node, CL!Cardinality(Node))
           P(q) == /\ IF q = <<>> THEN l.h = None ELSE q[1] = l.h
                   /\ \A i \in DOMAIN q : l.nx[q[i]] = IF i = Len(q) THEN None ELSE q[i + 1]
<1>1. o \in Seq(Node) /\ DOMAIN o = 1..Len(o)
  BY DEF Threads, Follows
<1>2. o \in B
  BY <1>1, WalkIsBounded DEF Threads
<1>3. P(o)
  BY <1>1 DEF Threads, Follows
<1>4. ASSUME NEW q \in B, P(q) PROVE q = o
  <2>1. q \in Seq(Node) /\ DOMAIN q = 1..Len(q)
    <3>1. PICK m \in 0..CL!Cardinality(Node) : q \in [1..m -> Node]
      BY DEF CL!BoundedSeq, CL!SeqOf
    <3>2. CL!Cardinality(Node) \in Nat
      <4>1. CL!Cardinality(Node) = Cardinality(Node)
        BY DEF CL!Cardinality, Cardinality
      <4>2. QED  BY <4>1, ListConstants, FS_CardinalityType
    <3>3. m \in Nat
      BY <3>2
    <3>4. QED  BY <3>1, <3>3
  <2>2. Follows(l.h, l.nx, q)
    BY <1>4, <2>1 DEF Follows
  <2>3. QED  BY <2>2, OneWalk DEF Threads
<1>5. CL!Order(l.h, l.nx) = CHOOSE q \in B : P(q)
  BY DEF CL!Order
<1> HIDE DEF B, P
<1>6. QED  BY <1>2, <1>3, <1>4, <1>5

\* The sequence o without its k-th member.
Without(o, k) == [i \in 1..(Len(o) - 1) |-> IF i < k THEN o[i] ELSE o[i + 1]]

LEMMA WithoutFacts ==
  ASSUME NEW o \in Seq(Node), NEW k \in 1..Len(o)
  PROVE  /\ Without(o, k) \in Seq(Node)
         /\ Len(Without(o, k)) = Len(o) - 1
         /\ \A i \in 1..(Len(o) - 1) :
               /\ i \in 1..Len(o) /\ i + 1 \in 1..Len(o)
               /\ i < k => Without(o, k)[i] = o[i]
               /\ ~(i < k) => Without(o, k)[i] = o[i + 1]
<1>1. Len(o) \in Nat /\ Len(o) - 1 \in Nat
  OBVIOUS
<1>2. ASSUME NEW i \in 1..(Len(o) - 1) PROVE i \in 1..Len(o) /\ i + 1 \in 1..Len(o)
  BY <1>1
<1>3. ASSUME NEW i \in 1..(Len(o) - 1) PROVE (IF i < k THEN o[i] ELSE o[i + 1]) \in Node
  BY <1>2, ElementOfSeq
<1>4. PICK N \in Nat : N = Len(o) - 1
  BY <1>1
<1>5. Without(o, k) \in [1..N -> Node]
  BY <1>3, <1>4 DEF Without
<1>6. QED  BY <1>2, <1>4, <1>5 DEF Without

\* remove_from_lists takes the node out of the sequence. A list that it empties
\* leaves the node with no pointers.
LEMMA RemovedThreads ==
  ASSUME NEW l \in ListType, NEW o \in Seq(Node), Threads(l, o), NEW k \in 1..Len(o)
  PROVE  /\ CL!remove_from_lists(l, o[k]) \in ListType
         /\ Threads(CL!remove_from_lists(l, o[k]), Without(o, k))
         /\ Loose(CL!remove_from_lists(l, o[k]), Without(o, k), o[k])
<1> DEFINE n == o[k]
           q == Without(o, k)
           p == l.pv[n]
           x == l.nx[n]
           r == CL!remove_from_lists(l, n)
<1>0. PICK N \in Nat : N = Len(o)
  OBVIOUS
<1>1. k \in 1..N /\ n \in Node /\ \A i \in 1..N : o[i] \in Node /\ o[i] # None
  BY <1>0, ElementOfSeq, ListConstants
<1>2. /\ q \in Seq(Node) /\ Len(q) = N - 1
      /\ \A i \in 1..(N - 1) : /\ i \in 1..N /\ i + 1 \in 1..N
                               /\ i < k => q[i] = o[i]
                               /\ ~(i < k) => q[i] = o[i + 1]
  BY <1>0, WithoutFacts
<1>3. /\ \A i, j \in 1..N : o[i] = o[j] => i = j
      /\ \A i \in 1..N : l.nx[o[i]] = IF i = N THEN None ELSE o[i + 1]
      /\ \A i \in 1..N : l.pv[o[i]] = IF i = 1 THEN None ELSE o[i - 1]
      /\ l.h = o[1]
  <2>1. o # <<>>
    BY <1>0, <1>1
  <2>2. QED  BY <1>0, <2>1 DEF Threads, Follows
<1>4. p = (IF k = 1 THEN None ELSE o[k - 1]) /\ x = (IF k = N THEN None ELSE o[k + 1])
  BY <1>1, <1>3
<1>5. /\ r \in ListType
      /\ r.h = (IF p = None THEN x ELSE l.h)
      /\ \A m \in Node : r.nx[m] = (IF m = p THEN x ELSE l.nx[m])
      /\ \A m \in Node : r.pv[m] = (IF m = x THEN p ELSE l.pv[m])
  BY <1>1 DEF CL!remove_from_lists, ListType
<1> HIDE DEF r, q, p, x, n
<1>6. q = <<>> => r.h = None /\ r.nx[n] = None /\ r.pv[n] = None
  <2>1. SUFFICES ASSUME q = <<>> PROVE r.h = None /\ r.nx[n] = None /\ r.pv[n] = None
    OBVIOUS
  <2>2. N = 1 /\ k = 1
    BY <1>1, <1>2, <2>1
  <2>3. p = None /\ x = None
    BY <1>4, <2>2
  <2>4. l.nx[n] = None /\ l.pv[n] = None
    BY <1>1, <1>3, <2>2 DEF n
  <2>5. QED  BY <1>1, <1>5, <2>3, <2>4
<1>7. q # <<>> => r.h = q[1]
  <2>1. SUFFICES ASSUME q # <<>> PROVE r.h = q[1]
    OBVIOUS
  <2>2. N - 1 # 0
    BY <1>2, <2>1
  <2>3. 1 \in 1..(N - 1)
    BY <1>0, <1>1, <2>2
  <2>4. CASE k = 1
    <3>1. k # N /\ ~(1 < k) /\ k + 1 = 1 + 1
      BY <2>2, <2>4
    <3>2. r.h = o[k + 1]
      BY <1>4, <1>5, <2>4, <3>1
    <3>3. q[1] = o[1 + 1]
      BY <1>2, <2>3, <3>1
    <3>4. QED  BY <3>1, <3>2, <3>3
  <2>5. CASE k # 1
    <3>1. 1 < k /\ k - 1 \in 1..N
      BY <1>0, <1>1, <2>5
    <3>2. p # None
      BY <1>1, <1>4, <2>5, <3>1
    <3>3. r.h = o[1]
      BY <1>3, <1>5, <3>2
    <3>4. QED  BY <1>2, <2>3, <3>1, <3>3
  <2>6. QED  BY <2>4, <2>5
<1>8. \A i, j \in 1..(N - 1) : q[i] = q[j] => i = j
  <2> TAKE i, j \in 1..(N - 1)
  <2>1. i \in 1..N /\ j \in 1..N /\ i + 1 \in 1..N /\ j + 1 \in 1..N
    BY <1>2
  <2>2. CASE i < k /\ j < k
    BY <1>2, <1>3, <2>1, <2>2
  <2>3. CASE i < k /\ ~(j < k)
    BY <1>1, <1>2, <1>3, <2>1, <2>3
  <2>4. CASE ~(i < k) /\ j < k
    BY <1>1, <1>2, <1>3, <2>1, <2>4
  <2>5. CASE ~(i < k) /\ ~(j < k)
    <3>1. q[i] = o[i + 1] /\ q[j] = o[j + 1]
      BY <1>2, <2>5
    <3>2. q[i] = q[j] => i + 1 = j + 1
      BY <1>3, <2>1, <3>1
    <3>3. QED  BY <2>1, <3>2
  <2>6. QED  BY <2>2, <2>3, <2>4, <2>5
<1>9. \A i \in 1..(N - 1) : r.nx[q[i]] = IF i = N - 1 THEN None ELSE q[i + 1]
  <2> TAKE i \in 1..(N - 1)
  <2>1. i \in 1..N /\ i + 1 \in 1..N /\ (i # N - 1 => i + 1 \in 1..(N - 1))
    BY <1>0, <1>2
  <2>2. CASE i < k /\ i # k - 1
    <3>0. i \in Nat /\ k \in Nat /\ k <= N
      BY <1>1
    <3>1. i # N /\ i + 1 < k /\ i # N - 1
      BY <2>2, <3>0
    <3>2. q[i] = o[i]
      BY <1>2, <2>2
    <3>3. q[i] # p
      <4>1. CASE k = 1
        BY <1>1, <1>4, <2>1, <3>2, <4>1
      <4>2. CASE k # 1
        <5>1. k - 1 \in 1..N
          BY <1>0, <1>1, <4>2
        <5>2. QED  BY <1>3, <1>4, <2>1, <2>2, <3>2, <4>2, <5>1
      <4>3. QED  BY <4>1, <4>2
    <3>4. r.nx[q[i]] = l.nx[o[i]]
      BY <1>1, <1>5, <2>1, <3>2, <3>3
    <3>5. l.nx[o[i]] = o[i + 1]
      BY <1>3, <2>1, <3>1
    <3>6. q[i + 1] = o[i + 1]
      BY <1>2, <2>1, <3>1
    <3>7. QED  BY <3>1, <3>4, <3>5, <3>6
  <2>3. CASE i = k - 1
    <3>0. i \in Nat /\ k \in Nat /\ N \in Nat /\ i >= 1
      BY <1>1
    <3>1. i < k /\ k # 1 /\ i + 1 = k /\ (k = N <=> i = N - 1) /\ ~(i + 1 < k)
      BY <2>3, <3>0
    <3>2. q[i] = p
      BY <1>2, <1>4, <2>3, <3>1
    <3>3. r.nx[q[i]] = x
      BY <1>1, <1>2, <1>5, <2>1, <3>1, <3>2
    <3>4. i # N - 1 => q[i + 1] = o[k + 1]
      BY <1>2, <2>1, <3>1
    <3>5. QED  BY <1>4, <3>1, <3>3, <3>4
  <2>4. CASE ~(i < k)
    <3>1. q[i] = o[i + 1] /\ (i + 1 = N <=> i = N - 1) /\ i + 1 # k - 1 /\ ~(i + 1 < k)
      BY <1>0, <1>1, <1>2, <2>4
    <3>2. q[i] # p
      <4>1. CASE k = 1
        BY <1>1, <1>4, <2>1, <3>1, <4>1
      <4>2. CASE k # 1
        <5>1. k - 1 \in 1..N
          BY <1>0, <1>1, <4>2
        <5>2. QED  BY <1>3, <1>4, <2>1, <3>1, <4>2, <5>1
      <4>3. QED  BY <4>1, <4>2
    <3>3. r.nx[q[i]] = l.nx[o[i + 1]]
      BY <1>1, <1>5, <2>1, <3>1, <3>2
    <3>4. l.nx[o[i + 1]] = IF i + 1 = N THEN None ELSE o[i + 1 + 1]
      BY <1>3, <2>1
    <3>5. i # N - 1 => q[i + 1] = o[i + 1 + 1]
      BY <1>2, <2>1, <3>1
    <3>6. QED  BY <3>1, <3>3, <3>4, <3>5
  <2>5. QED  BY <2>2, <2>3, <2>4
<1>10. \A i \in 1..(N - 1) : r.pv[q[i]] = IF i = 1 THEN None ELSE q[i - 1]
  <2> TAKE i \in 1..(N - 1)
  <2>1. i \in 1..N /\ i + 1 \in 1..N /\ (i # 1 => i - 1 \in 1..(N - 1) /\ i - 1 + 1 = i)
    BY <1>0, <1>2
  <2>2. CASE i < k
    <3>1. q[i] = o[i] /\ i # k + 1 /\ (i # 1 => i - 1 < k)
      BY <1>0, <1>1, <1>2, <2>2
    <3>2. q[i] # x
      <4>1. CASE k = N
        BY <1>1, <1>4, <2>1, <3>1, <4>1
      <4>2. CASE k # N
        <5>1. k + 1 \in 1..N
          BY <1>0, <1>1, <4>2
        <5>2. QED  BY <1>3, <1>4, <2>1, <3>1, <4>2, <5>1
      <4>3. QED  BY <4>1, <4>2
    <3>3. r.pv[q[i]] = IF i = 1 THEN None ELSE o[i - 1]
      BY <1>1, <1>3, <1>5, <2>1, <3>1, <3>2
    <3>4. i # 1 => q[i - 1] = o[i - 1]
      BY <1>2, <2>1, <3>1
    <3>5. QED  BY <3>3, <3>4
  <2>3. CASE i = k
    <3>1. ~(i < k) /\ k # N /\ (i # 1 => i - 1 < k)
      BY <1>0, <1>1, <2>3
    <3>2. q[i] = x
      BY <1>2, <1>4, <2>3, <3>1
    <3>3. r.pv[q[i]] = p
      BY <1>1, <1>2, <1>5, <2>1, <3>1, <3>2
    <3>4. i # 1 => q[i - 1] = o[k - 1]
      BY <1>2, <2>1, <2>3, <3>1
    <3>5. QED  BY <1>4, <2>3, <3>3, <3>4
  <2>4. CASE k < i
    <3>1. ~(i < k) /\ i # 1 /\ i + 1 # k + 1 /\ i + 1 # 1 /\ ~(i - 1 < k) /\ i + 1 - 1 = i
      BY <1>0, <1>1, <2>4
    <3>2. q[i] = o[i + 1]
      BY <1>2, <3>1
    <3>3. q[i] # x
      <4>1. CASE k = N
        BY <1>1, <1>4, <2>1, <3>2, <4>1
      <4>2. CASE k # N
        <5>1. k + 1 \in 1..N
          BY <1>0, <1>1, <4>2
        <5>2. QED  BY <1>3, <1>4, <2>1, <3>1, <3>2, <4>2, <5>1
      <4>3. QED  BY <4>1, <4>2
    <3>4. r.pv[q[i]] = l.pv[o[i + 1]]
      BY <1>1, <1>5, <2>1, <3>2, <3>3
    <3>5. l.pv[o[i + 1]] = o[i]
      BY <1>3, <2>1, <3>1
    <3>6. q[i - 1] = o[i]
      BY <1>2, <2>1, <3>1
    <3>7. QED  BY <3>1, <3>4, <3>5, <3>6
  <2>5. QED
    <3>1. i < k \/ i = k \/ k < i
      BY <1>1
    <3>2. QED  BY <2>2, <2>3, <2>4, <3>1
<1>11. Follows(r.h, r.nx, q)
  BY <1>2, <1>6, <1>7, <1>9 DEF Follows
<1>12. Threads(r, q)
  BY <1>2, <1>8, <1>10, <1>11 DEF Threads
<1>13. QED  BY <1>5, <1>6, <1>12 DEF r, q, n, Loose

\* The sequence o with n behind its first b members.
With(o, b, n) ==
    [i \in 1..(Len(o) + 1) |-> IF i <= b THEN o[i] ELSE IF i = b + 1 THEN n ELSE o[i - 1]]

\* Where the members of such a sequence q stand, for N = Len(o).
Splices(q, o, N, b, n) ==
    /\ q \in Seq(Node) /\ Len(q) = N + 1 /\ b + 1 \in 1..(N + 1) /\ q[b + 1] = n
    /\ \A i \in 1..N : /\ i \in 1..(N + 1) /\ i + 1 \in 1..(N + 1)
                       /\ i <= b => q[i] = o[i]
                       /\ ~(i <= b) => q[i + 1] = o[i]
    /\ \A i \in 1..(N + 1) : \/ i \in 1..N /\ i <= b
                             \/ i = b + 1
                             \/ \E j \in 1..N : i = j + 1 /\ ~(j <= b)

LEMMA WithFacts ==
  ASSUME NEW o \in Seq(Node), NEW b \in 0..Len(o), NEW n \in Node
  PROVE  Splices(With(o, b, n), o, Len(o), b, n)
<1>1. PICK N \in Nat : N = Len(o)
  OBVIOUS
<1>2. b \in Nat /\ b <= N
  BY <1>1
<1>3. \A i \in 1..(N + 1) : \/ i \in 1..N /\ i <= b
                            \/ i = b + 1
                            \/ \E j \in 1..N : i = j + 1 /\ ~(j <= b)
  <2> TAKE i \in 1..(N + 1)
  <2>1. CASE i <= b
    BY <1>2, <2>1
  <2>2. CASE i = b + 1
    BY <2>2
  <2>3. CASE ~(i <= b) /\ i # b + 1
    <3>1. i - 1 \in 1..N /\ i = (i - 1) + 1 /\ ~(i - 1 <= b)
      BY <1>2, <2>3
    <3>2. QED  BY <3>1
  <2>4. QED  BY <2>1, <2>2, <2>3
<1>4. \A i \in 1..N : i \in 1..(N + 1) /\ i + 1 \in 1..(N + 1)
  OBVIOUS
<1>5. b + 1 \in 1..(N + 1) /\ ~(b + 1 <= b)
  BY <1>2
<1>6. ASSUME NEW i \in 1..(N + 1)
      PROVE  (IF i <= b THEN o[i] ELSE IF i = b + 1 THEN n ELSE o[i - 1]) \in Node
  <2>1. CASE i \in 1..N /\ i <= b
    BY <1>1, <2>1, ElementOfSeq
  <2>2. CASE i = b + 1
    BY <1>5, <2>2
  <2>3. CASE \E j \in 1..N : i = j + 1 /\ ~(j <= b)
    <3>1. PICK j \in 1..N : i = j + 1 /\ ~(j <= b)
      BY <2>3
    <3>2. ~(i <= b) /\ i # b + 1 /\ i - 1 = j
      BY <1>2, <3>1
    <3>3. QED  BY <1>1, <3>2, ElementOfSeq
  <2>4. QED  BY <1>3, <2>1, <2>2, <2>3
<1>7. With(o, b, n) \in [1..(N + 1) -> Node]
  BY <1>1, <1>6 DEF With
<1>8. With(o, b, n) \in Seq(Node) /\ Len(With(o, b, n)) = N + 1
  <2>1. N + 1 \in Nat
    OBVIOUS
  <2>2. QED  BY <1>7, <2>1
<1>9. With(o, b, n)[b + 1] = n
  BY <1>1, <1>5 DEF With
<1>10. ASSUME NEW i \in 1..N
       PROVE  (i <= b => With(o, b, n)[i] = o[i]) /\ (~(i <= b) => With(o, b, n)[i + 1] = o[i])
  <2>1. i <= b => With(o, b, n)[i] = o[i]
    BY <1>1, <1>4 DEF With
  <2>2. ~(i <= b) => ~(i + 1 <= b) /\ i + 1 # b + 1 /\ (i + 1) - 1 = i
    BY <1>2
  <2>3. ~(i <= b) => With(o, b, n)[i + 1] = o[i]
    BY <1>1, <1>4, <2>2 DEF With
  <2>4. QED  BY <2>1, <2>3
<1>11. QED  BY <1>1, <1>3, <1>4, <1>5, <1>8, <1>9, <1>10 DEF Splices

\* The nodes that the insertion passes by are the first ones.
LEMMA BelowIsPrefix ==
  ASSUME NEW o \in Seq(Node), NEW a, NEW ps, NEW n
  PROVE  \E b \in 0..Len(o) :
            /\ {i \in 1..Len(o) : \A j \in 1..i : ps[o[j]][a] < ps[n][a]} = 1..b
            /\ CL!Cardinality(1..b) = b
            /\ \A i \in 1..b : ps[o[i]][a] < ps[n][a]
            /\ b # Len(o) => ~(ps[o[b + 1]][a] < ps[n][a])
<1> DEFINE L(i) == ps[o[i]][a] < ps[n][a]
<1>1. PICK N \in Nat : N = Len(o)
  OBVIOUS
<1>2. PICK b \in 0..N : (\A i \in 1..b : L(i)) /\ (b # N => ~L(b + 1))
  <2> DEFINE U == {i \in 1..N : ~L(i)}
  <2>1. CASE U = {}
    <3>1. N \in 0..N /\ \A i \in 1..N : L(i)
      BY <2>1
    <3>2. QED  BY <3>1
  <2>2. CASE U # {}
    <3>1. U \in SUBSET Nat
      OBVIOUS
    <3>2. PICK k \in U : \A y \in U : k <= y
      BY <2>2, <3>1, LeastOf
    <3>3. k \in 1..N /\ ~L(k)
      OBVIOUS
    <3>4. k - 1 \in 0..N /\ (k - 1) + 1 = k
      BY <3>3
    <3>5. ASSUME NEW i \in 1..(k - 1) PROVE L(i)
      <4>1. i \in 1..N /\ ~(k <= i)
        BY <3>3
      <4>2. QED  BY <3>2, <4>1
    <3>6. QED  BY <3>3, <3>4, <3>5
  <2>3. QED  BY <2>1, <2>2
<1> HIDE DEF L
<1>3. {i \in 1..N : \A j \in 1..i : L(j)} = 1..b
  <2>1. ASSUME NEW i \in 1..N, \A j \in 1..i : L(j) PROVE i \in 1..b
    <3>1. CASE b = N
      BY <3>1
    <3>2. CASE b # N
      <4>1. ~(b + 1 \in 1..i)
        BY <1>2, <2>1, <3>2
      <4>2. QED  BY <4>1
    <3>3. QED  BY <3>1, <3>2
  <2>2. ASSUME NEW i \in 1..b PROVE i \in 1..N /\ \A j \in 1..i : L(j)
    <3>1. i \in 1..N /\ \A j \in 1..i : j \in 1..b
      OBVIOUS
    <3>2. QED  BY <1>2, <3>1
  <2>3. QED  BY <2>1, <2>2
<1>4. CL!Cardinality(1..b) = b
  <2>1. CL!Cardinality(1..b) = Cardinality(1..b)
    BY DEF CL!Cardinality, Cardinality
  <2>2. 1 \in Int /\ b \in Int
    OBVIOUS
  <2>3. Cardinality(1..b) = IF 1 > b THEN 0 ELSE b - 1 + 1
    BY <2>2, FS_Interval
  <2>4. QED  BY <2>1, <2>3
<1>5. QED  BY <1>1, <1>2, <1>3, <1>4 DEF L

\* Linking a node behind the first b nodes of a list.
LinkBehind(l, o, b, n) ==
    LET before == IF b = 0 THEN None ELSE o[b]
        curr == IF b = Len(o) THEN None ELSE o[b + 1]
    IN [h |-> IF b = 0 THEN n ELSE l.h,
        nx |-> [m \in Node |-> IF m = n THEN curr ELSE IF m = before THEN n ELSE l.nx[m]],
        pv |-> [m \in Node |-> IF m = n THEN before ELSE IF m = curr THEN n ELSE l.pv[m]]]

\* The code's Insert links the node behind those that are below it.
LEMMA InsertLinks ==
  ASSUME NEW l \in ListType, NEW o \in Seq(Node), Threads(l, o), NEW a, NEW ps, NEW n \in Node,
         Loose(l, o, n)
  PROVE  \E b \in 0..Len(o) :
            /\ CL!Insert(l, a, n, ps) = LinkBehind(l, o, b, n)
            /\ \A i \in 1..b : ps[o[i]][a] < ps[n][a]
            /\ b # Len(o) => ~(ps[o[b + 1]][a] < ps[n][a])
<1>1. PICK b \in 0..Len(o) :
            /\ {i \in 1..Len(o) : \A j \in 1..i : ps[o[j]][a] < ps[n][a]} = 1..b
            /\ CL!Cardinality(1..b) = b
            /\ \A i \in 1..b : ps[o[i]][a] < ps[n][a]
            /\ b # Len(o) => ~(ps[o[b + 1]][a] < ps[n][a])
  BY BelowIsPrefix
<1>2. l = [h |-> l.h, nx |-> l.nx, pv |-> l.pv] /\ l.nx \in [Node -> Node \cup {None}]
      /\ l.pv \in [Node -> Node \cup {None}]
  BY DEF ListType
<1>3. CASE o = <<>>
  <2>1. l.h = None /\ Len(o) = 0 /\ b = 0
    BY <1>3 DEF Threads, Follows
  <2>2. CL!Insert(l, a, n, ps) = [l EXCEPT !.h = n]
    BY <2>1 DEF CL!Insert
  <2>3. [l EXCEPT !.h = n] = [h |-> n, nx |-> l.nx, pv |-> l.pv]
    BY <1>2
  <2>4. /\ [m \in Node |-> IF m = n THEN None ELSE IF m = None THEN n ELSE l.nx[m]] = l.nx
        /\ [m \in Node |-> IF m = n THEN None ELSE IF m = None THEN n ELSE l.pv[m]] = l.pv
    BY <1>2, <1>3, ListConstants DEF Loose
  <2>5. LinkBehind(l, o, b, n) = [h |-> n, nx |-> l.nx, pv |-> l.pv]
    BY <2>1, <2>4 DEF LinkBehind
  <2>6. QED  BY <1>1, <2>2, <2>3, <2>5
<1>4. CASE o # <<>>
  <2> DEFINE below == {i \in DOMAIN o : \A j \in 1..i : ps[o[j]][a] < ps[n][a]}
             before == IF below = {} THEN None ELSE o[CL!Cardinality(below)]
             curr == IF before = None THEN l.h ELSE l.nx[before]
  <2>1. Len(o) \in Nat /\ Len(o) # 0 /\ DOMAIN o = 1..Len(o)
    BY <1>4
  <2>2. l.h = o[1] /\ l.h \in Node /\ l.h # None
    <3>1. 1 \in 1..Len(o)
      BY <2>1
    <3>2. QED  BY <1>4, <3>1, ElementOfSeq, ListConstants DEF Threads, Follows
  <2>3. CL!Order(l.h, l.nx) = o
    BY OrderIsThreaded
  <2>4. below = 1..b
    BY <1>1, <2>1
  <2>5. CL!Insert(l, a, n, ps) =
            [h |-> IF before = None THEN n ELSE l.h,
             nx |-> [m \in Node |-> IF m = n THEN curr ELSE IF m = before THEN n ELSE l.nx[m]],
             pv |-> [m \in Node |-> IF m = n THEN before ELSE IF m = curr THEN n ELSE l.pv[m]]]
    BY <2>2, <2>3 DEF CL!Insert
  <2> HIDE DEF below
  <2>6. before = (IF b = 0 THEN None ELSE o[b]) /\ (before = None <=> b = 0)
    <3>1. CASE b = 0
      BY <2>4, <3>1
    <3>2. CASE b # 0
      <4>1. b \in 1..Len(o) /\ b \in 1..b
        BY <2>1, <3>2
      <4>2. before = o[b]
        BY <1>1, <2>4, <4>1
      <4>3. o[b] # None
        BY <4>1, ElementOfSeq, ListConstants
      <4>4. QED  BY <3>2, <4>2, <4>3
    <3>3. QED  BY <3>1, <3>2
  <2> HIDE DEF before
  <2>7. curr = IF b = Len(o) THEN None ELSE o[b + 1]
    <3>1. CASE b = 0
      BY <2>1, <2>2, <2>6, <3>1
    <3>2. CASE b # 0
      <4>1. b \in 1..Len(o)
        BY <2>1, <3>2
      <4>2. l.nx[o[b]] = IF b = Len(o) THEN None ELSE o[b + 1]
        BY <4>1 DEF Threads, Follows
      <4>3. QED  BY <2>6, <3>2, <4>2
    <3>3. QED  BY <3>1, <3>2
  <2> HIDE DEF curr
  <2>8. CL!Insert(l, a, n, ps) = LinkBehind(l, o, b, n)
    BY <2>5, <2>6, <2>7 DEF LinkBehind
  <2>9. QED  BY <1>1, <2>8
<1>5. QED  BY <1>3, <1>4

\* Linking keeps a list threaded.
LEMMA LinkedThreads ==
  ASSUME NEW l \in ListType, NEW o \in Seq(Node), Threads(l, o), NEW n \in Node,
         \A i \in 1..Len(o) : o[i] # n, NEW b \in 0..Len(o)
  PROVE  /\ LinkBehind(l, o, b, n) \in ListType
         /\ Threads(LinkBehind(l, o, b, n), With(o, b, n))
<1> DEFINE q == With(o, b, n)
           r == LinkBehind(l, o, b, n)
           before == IF b = 0 THEN None ELSE o[b]
           curr == IF b = Len(o) THEN None ELSE o[b + 1]
<1>0. PICK N \in Nat : N = Len(o)
  OBVIOUS
<1>1. /\ b \in Nat /\ b <= N
      /\ n # None /\ \A i \in 1..N : o[i] \in Node /\ o[i] # None /\ o[i] # n
  BY <1>0, ElementOfSeq, ListConstants
<1>2. /\ q \in Seq(Node) /\ Len(q) = N + 1 /\ b + 1 \in 1..(N + 1) /\ q[b + 1] = n
      /\ \A i \in 1..N : /\ i \in 1..(N + 1) /\ i + 1 \in 1..(N + 1)
                         /\ i <= b => q[i] = o[i]
                         /\ ~(i <= b) => q[i + 1] = o[i]
      /\ \A i \in 1..(N + 1) : \/ i \in 1..N /\ i <= b
                               \/ i = b + 1
                               \/ \E j \in 1..N : i = j + 1 /\ ~(j <= b)
  <2>1. Splices(q, o, N, b, n)
    BY <1>0, WithFacts
  <2>2. QED  BY <2>1 DEF Splices
<1>3. /\ \A i, j \in 1..N : o[i] = o[j] => i = j
      /\ \A i \in 1..N : l.nx[o[i]] = IF i = N THEN None ELSE o[i + 1]
      /\ \A i \in 1..N : l.pv[o[i]] = IF i = 1 THEN None ELSE o[i - 1]
      /\ N # 0 => l.h = o[1]
  BY <1>0 DEF Threads, Follows
<1>4. /\ before \in Node \cup {None} /\ curr \in Node \cup {None}
      /\ (b # 0 => b \in 1..N /\ before = o[b]) /\ (b = 0 => before = None)
      /\ (b # N => b + 1 \in 1..N /\ curr = o[b + 1]) /\ (b = N => curr = None)
  <2>1. b # 0 => b \in 1..N
    BY <1>1
  <2>2. b # N => b + 1 \in 1..N
    BY <1>1
  <2>3. QED  BY <1>0, <1>1, <2>1, <2>2
<1>5. r = [h |-> IF b = 0 THEN n ELSE l.h,
           nx |-> [m \in Node |-> IF m = n THEN curr ELSE IF m = before THEN n ELSE l.nx[m]],
           pv |-> [m \in Node |-> IF m = n THEN before ELSE IF m = curr THEN n ELSE l.pv[m]]]
  BY DEF LinkBehind
<1> HIDE DEF q, r, before, curr
<1>6. /\ r \in ListType
      /\ r.h = (IF b = 0 THEN n ELSE l.h)
      /\ r.nx[n] = curr /\ r.pv[n] = before
      /\ \A i \in 1..N : r.nx[o[i]] = (IF o[i] = before THEN n ELSE l.nx[o[i]])
      /\ \A i \in 1..N : r.pv[o[i]] = (IF o[i] = curr THEN n ELSE l.pv[o[i]])
  <2>1. r \in ListType
    BY <1>4, <1>5 DEF ListType
  <2>2. \A m \in Node : /\ r.nx[m] = (IF m = n THEN curr ELSE IF m = before THEN n ELSE l.nx[m])
                        /\ r.pv[m] = (IF m = n THEN before ELSE IF m = curr THEN n ELSE l.pv[m])
    BY <1>5
  <2>3. QED  BY <1>1, <1>5, <2>1, <2>2
<1>7. r.h = q[1] /\ q # <<>>
  <2>1. q # <<>>
    BY <1>2
  <2>2. CASE b = 0
    BY <1>2, <1>6, <2>2
  <2>3. CASE b # 0
    <3>1. 1 \in 1..N /\ 1 <= b /\ N # 0
      BY <1>1, <1>4, <2>3
    <3>2. QED  BY <1>2, <1>3, <1>6, <2>1, <2>3, <3>1
  <2>4. QED  BY <2>1, <2>2, <2>3
<1>8. \A i, j \in 1..(N + 1) : q[i] = q[j] => i = j
  <2> TAKE i, j \in 1..(N + 1)
  <2>1. ASSUME NEW k \in 1..(N + 1)
        PROVE  k = b + 1 \/ \E d \in 1..N : q[k] = o[d] /\ (d <= b => k = d) /\ (~(d <= b) => k = d + 1)
    <3>1. CASE k \in 1..N /\ k <= b
      BY <1>2, <3>1
    <3>2. CASE \E d \in 1..N : k = d + 1 /\ ~(d <= b)
      BY <1>2, <3>2
    <3>3. QED  BY <1>2, <3>1, <3>2
  <2>2. CASE i = b + 1
    <3>1. j # b + 1 => q[j] # n
      BY <1>1, <2>1
    <3>2. QED  BY <1>2, <2>2, <3>1
  <2>3. CASE j = b + 1
    <3>1. i # b + 1 => q[i] # n
      BY <1>1, <2>1
    <3>2. QED  BY <1>2, <2>3, <3>1
  <2>4. CASE i # b + 1 /\ j # b + 1
    <3>1. PICK d \in 1..N : q[i] = o[d] /\ (d <= b => i = d) /\ (~(d <= b) => i = d + 1)
      BY <2>1, <2>4
    <3>2. PICK e \in 1..N : q[j] = o[e] /\ (e <= b => j = e) /\ (~(e <= b) => j = e + 1)
      BY <2>1, <2>4
    <3>3. o[d] = o[e] => d = e
      BY <1>3
    <3>4. d = e => i = j
      BY <3>1, <3>2
    <3>5. QED  BY <3>1, <3>2, <3>3, <3>4
  <2>5. QED  BY <2>2, <2>3, <2>4
<1>9. \A i \in 1..(N + 1) : r.nx[q[i]] = IF i = N + 1 THEN None ELSE q[i + 1]
  <2> TAKE i \in 1..(N + 1)
  <2>1. CASE i \in 1..N /\ i <= b
    <3>1. q[i] = o[i] /\ i # N + 1
      BY <1>2, <2>1
    <3>2. CASE i = b
      <4>1. r.nx[q[i]] = n
        <5>1. b # 0
          BY <2>1, <3>2
        <5>2. QED  BY <1>4, <1>6, <3>1, <3>2, <5>1
      <4>2. QED  BY <1>2, <3>1, <3>2, <4>1
    <3>3. CASE i # b
      <4>1. b \in 1..N /\ i # N /\ i + 1 <= b /\ i + 1 \in 1..N
        BY <1>1, <2>1, <3>3
      <4>2. before = o[b] /\ o[i] # before
        BY <1>1, <1>3, <1>4, <2>1, <3>3, <4>1
      <4>3. r.nx[o[i]] = l.nx[o[i]]
        BY <1>6, <2>1, <4>2
      <4>4. l.nx[o[i]] = o[i + 1]
        BY <1>3, <2>1, <4>1
      <4>5. q[i + 1] = o[i + 1]
        BY <1>2, <4>1
      <4>6. QED  BY <3>1, <4>3, <4>4, <4>5
    <3>4. QED  BY <3>2, <3>3
  <2>2. CASE i = b + 1
    <3>1. r.nx[q[i]] = curr /\ (i = N + 1 <=> b = N)
      BY <1>1, <1>2, <1>6, <2>2
    <3>2. b # N => q[i + 1] = o[b + 1]
      <4>1. b # N => b + 1 \in 1..N /\ ~(b + 1 <= b)
        BY <1>1, <1>4
      <4>2. QED  BY <1>2, <2>2, <4>1
    <3>3. QED  BY <1>4, <3>1, <3>2
  <2>3. CASE \E j \in 1..N : i = j + 1 /\ ~(j <= b)
    <3>1. PICK j \in 1..N : i = j + 1 /\ ~(j <= b)
      BY <2>3
    <3>2. q[i] = o[j] /\ (i = N + 1 <=> j = N)
      BY <1>2, <3>1
    <3>3. o[j] # before
      <4>1. CASE b = 0
        BY <1>1, <1>4, <4>1
      <4>2. CASE b # 0
        <5>1. b # j
          BY <1>1, <3>1
        <5>2. QED  BY <1>3, <1>4, <4>2, <5>1
      <4>3. QED  BY <4>1, <4>2
    <3>4. r.nx[q[i]] = IF j = N THEN None ELSE o[j + 1]
      BY <1>3, <1>6, <3>2, <3>3
    <3>5. j # N => q[i + 1] = o[j + 1]
      <4>1. j # N => j + 1 \in 1..N /\ ~(j + 1 <= b)
        BY <1>1, <3>1
      <4>2. QED  BY <1>2, <3>1, <4>1
    <3>6. QED  BY <3>2, <3>4, <3>5
  <2>4. QED  BY <1>2, <2>1, <2>2, <2>3
<1>10. \A i \in 1..(N + 1) : r.pv[q[i]] = IF i = 1 THEN None ELSE q[i - 1]
  <2> TAKE i \in 1..(N + 1)
  <2>1. CASE i \in 1..N /\ i <= b
    <3>1. q[i] = o[i] /\ i # b + 1
      BY <1>1, <1>2, <2>1
    <3>2. o[i] # curr
      <4>1. CASE b = N
        BY <1>1, <1>4, <2>1, <4>1
      <4>2. CASE b # N
        BY <1>3, <1>4, <2>1, <3>1, <4>2
      <4>3. QED  BY <4>1, <4>2
    <3>3. r.pv[q[i]] = IF i = 1 THEN None ELSE o[i - 1]
      BY <1>3, <1>6, <2>1, <3>1, <3>2
    <3>4. i # 1 => q[i - 1] = o[i - 1]
      <4>1. i # 1 => i - 1 \in 1..N /\ i - 1 <= b
        BY <1>1, <2>1
      <4>2. QED  BY <1>2, <4>1
    <3>5. QED  BY <3>3, <3>4
  <2>2. CASE i = b + 1
    <3>1. r.pv[q[i]] = before /\ (i = 1 <=> b = 0) /\ i - 1 = b
      BY <1>1, <1>2, <1>6, <2>2
    <3>2. b # 0 => q[b] = o[b]
      <4>1. b <= b
        BY <1>1
      <4>2. QED  BY <1>2, <1>4, <4>1
    <3>3. QED  BY <1>4, <3>1, <3>2
  <2>3. CASE \E j \in 1..N : i = j + 1 /\ ~(j <= b)
    <3>1. PICK j \in 1..N : i = j + 1 /\ ~(j <= b)
      BY <2>3
    <3>2. q[i] = o[j] /\ i # 1 /\ i - 1 = j
      BY <1>2, <3>1
    <3>3. CASE j = b + 1
      <4>1. b # N
        BY <3>1, <3>3
      <4>2. o[j] = curr
        BY <1>4, <3>3, <4>1
      <4>3. r.pv[q[i]] = n
        BY <1>6, <3>2, <4>2
      <4>4. QED  BY <1>2, <3>2, <3>3, <4>3
    <3>4. CASE j # b + 1
      <4>1. o[j] # curr
        BY <1>1, <1>3, <1>4, <3>4
      <4>2. PICK d \in 1..N : d + 1 = j /\ ~(d <= b) /\ d = j - 1 /\ j # 1
        <5>1. j - 1 \in 1..N /\ (j - 1) + 1 = j /\ ~(j - 1 <= b) /\ j # 1
          BY <1>1, <3>1, <3>4
        <5>2. QED  BY <5>1
      <4>3. l.pv[o[j]] = o[d]
        BY <1>3, <4>2
      <4>4. r.pv[q[i]] = o[d]
        BY <1>6, <3>2, <4>1, <4>3
      <4>5. q[j] = o[d]
        BY <1>2, <4>2
      <4>6. QED  BY <3>2, <4>4, <4>5
    <3>5. QED  BY <3>3, <3>4
  <2>4. QED  BY <1>2, <2>1, <2>2, <2>3
<1>11. Follows(r.h, r.nx, q)
  BY <1>2, <1>7, <1>9 DEF Follows
<1>12. Threads(r, q)
  BY <1>2, <1>8, <1>10, <1>11 DEF Threads
<1>13. QED  BY <1>6, <1>12 DEF r, q

\* remove_from_lists takes the node out of the list, whatever becomes of its
\* position.
LEMMA RemoveKeeps ==
  ASSUME NEW l, NEW a, NEW ps, NEW qs, NEW S \in SUBSET Node, NEW n \in S,
         Keeps(l, a, ps, S), \A m \in Node : m # n => qs[m] = ps[m]
  PROVE  /\ CL!remove_from_lists(l, n) \in ListType
         /\ \E q \in Seq(Node) :
               /\ Threads(CL!remove_from_lists(l, n), q)
               /\ Ascends(q, a, qs)
               /\ Holds(q, S \ {n})
               /\ Loose(CL!remove_from_lists(l, n), q, n)
<1>1. PICK o \in Seq(Node) : Threads(l, o) /\ Ascends(o, a, ps) /\ Holds(o, S)
  BY DEF Keeps
<1>2. PICK k \in 1..Len(o) : o[k] = n
  BY <1>1 DEF Holds
<1>3. l \in ListType
  BY DEF Keeps
<1> DEFINE r == CL!remove_from_lists(l, n)
           q == Without(o, k)
<1>4. /\ r \in ListType /\ Threads(r, q)
      /\ Loose(r, q, n)
  BY <1>1, <1>2, <1>3, RemovedThreads
<1>5. PICK N \in Nat : N = Len(o)
  OBVIOUS
<1>6. /\ q \in Seq(Node) /\ Len(q) = N - 1
      /\ \A i \in 1..(N - 1) : /\ i \in 1..N /\ i + 1 \in 1..N
                               /\ i < k => q[i] = o[i]
                               /\ ~(i < k) => q[i] = o[i + 1]
  BY <1>5, WithoutFacts
<1>7. k \in 1..N /\ \A i \in 1..N : o[i] \in Node /\ (o[i] = n => i = k)
  BY <1>1, <1>2, <1>5, ElementOfSeq DEF Threads
<1> HIDE DEF r, q
\* Each member of q stands in o, in the same order, and is not n.
<1>8. ASSUME NEW i \in 1..(N - 1)
      PROVE  \E d \in 1..N : q[i] = o[d] /\ d # k /\ d = (IF i < k THEN i ELSE i + 1)
  <2>1. CASE i < k
    <3>1. i # k
      BY <1>7, <2>1
    <3>2. QED  BY <1>6, <2>1, <3>1
  <2>2. CASE ~(i < k)
    <3>1. i + 1 # k
      BY <1>7, <2>2
    <3>2. QED  BY <1>6, <2>2, <3>1
  <2>3. QED  BY <2>1, <2>2
<1>9. Ascends(q, a, qs)
  <2>1. SUFFICES ASSUME NEW i \in 1..(N - 1), NEW j \in 1..(N - 1), i < j
                 PROVE  qs[q[i]][a] <= qs[q[j]][a]
    BY <1>6 DEF Ascends
  <2>2. PICK d \in 1..N : q[i] = o[d] /\ d # k /\ d = (IF i < k THEN i ELSE i + 1)
    BY <1>8
  <2>3. PICK e \in 1..N : q[j] = o[e] /\ e # k /\ e = (IF j < k THEN j ELSE j + 1)
    BY <1>8
  <2>4. d < e
    BY <1>7, <2>1, <2>2, <2>3
  <2>5. ps[o[d]][a] <= ps[o[e]][a]
    BY <1>1, <1>5, <2>4 DEF Ascends
  <2>6. qs[o[d]] = ps[o[d]] /\ qs[o[e]] = ps[o[e]]
    BY <1>7, <2>2, <2>3
  <2>7. QED  BY <2>2, <2>3, <2>5, <2>6
<1>10. Holds(q, S \ {n})
  <2>1. SUFFICES ASSUME NEW m \in Node
                 PROVE  m \in S \ {n} <=> \E i \in 1..(N - 1) : q[i] = m
    BY <1>6 DEF Holds
  <2>2. ASSUME m \in S \ {n} PROVE \E i \in 1..(N - 1) : q[i] = m
    <3>1. PICK d \in 1..N : o[d] = m
      BY <1>1, <1>5, <2>2 DEF Holds
    <3>2. d # k
      BY <1>2, <2>2, <3>1
    <3>3. CASE d < k
      <4>1. d \in 1..(N - 1)
        BY <1>7, <3>3
      <4>2. QED  BY <1>6, <3>1, <3>3, <4>1
    <3>4. CASE k < d
      <4>1. d - 1 \in 1..(N - 1) /\ ~(d - 1 < k) /\ (d - 1) + 1 = d
        BY <1>7, <3>4
      <4>2. q[d - 1] = o[d]
        BY <1>6, <4>1
      <4>3. QED  BY <3>1, <4>1, <4>2
    <3>5. d < k \/ k < d
      BY <1>7, <3>2
    <3>6. QED  BY <3>3, <3>4, <3>5
  <2>3. ASSUME NEW i \in 1..(N - 1), q[i] = m PROVE m \in S \ {n}
    <3>1. PICK d \in 1..N : q[i] = o[d] /\ d # k
      BY <1>8
    <3>2. m # n
      BY <1>7, <2>3, <3>1
    <3>3. m \in S
      BY <1>1, <1>5, <2>3, <3>1 DEF Holds
    <3>4. QED  BY <3>2, <3>3
  <2>4. QED  BY <2>2, <2>3
<1>11. QED  BY <1>4, <1>6, <1>9, <1>10 DEF r

\* Insert puts a node that is not on the list where its position belongs.
LEMMA InsertKeeps ==
  ASSUME NEW l \in ListType, NEW a, NEW ps, NEW S \in SUBSET Node, NEW n \in Node, n \notin S,
         \A m \in S \cup {n} : ps[m][a] \in Int,
         NEW o \in Seq(Node), Threads(l, o), Ascends(o, a, ps), Holds(o, S),
         Loose(l, o, n)
  PROVE  Keeps(CL!Insert(l, a, n, ps), a, ps, S \cup {n})
<1>1. PICK b \in 0..Len(o) :
            /\ CL!Insert(l, a, n, ps) = LinkBehind(l, o, b, n)
            /\ \A i \in 1..b : ps[o[i]][a] < ps[n][a]
            /\ b # Len(o) => ~(ps[o[b + 1]][a] < ps[n][a])
  BY InsertLinks
<1>2. PICK N \in Nat : N = Len(o)
  OBVIOUS
<1>3. b \in 0..N /\ \A i \in 1..N : o[i] \in Node /\ o[i] \in S /\ o[i] # n /\ ps[o[i]][a] \in Int
  <2>1. \A i \in 1..N : o[i] \in Node
    BY <1>2, ElementOfSeq
  <2>2. \A i \in 1..N : o[i] \in S
    BY <1>2, <2>1 DEF Holds
  <2>3. QED  BY <1>2, <2>1, <2>2
<1> DEFINE r == LinkBehind(l, o, b, n)
           q == With(o, b, n)
<1>4. r \in ListType /\ Threads(r, q)
  BY <1>2, <1>3, LinkedThreads
<1>5. /\ q \in Seq(Node) /\ Len(q) = N + 1 /\ b + 1 \in 1..(N + 1) /\ q[b + 1] = n
      /\ \A i \in 1..N : /\ i \in 1..(N + 1) /\ i + 1 \in 1..(N + 1)
                         /\ i <= b => q[i] = o[i]
                         /\ ~(i <= b) => q[i + 1] = o[i]
      /\ \A i \in 1..(N + 1) : \/ i \in 1..N /\ i <= b
                               \/ i = b + 1
                               \/ \E j \in 1..N : i = j + 1 /\ ~(j <= b)
  <2>1. Splices(q, o, N, b, n)
    BY <1>2, WithFacts
  <2>2. QED  BY <2>1 DEF Splices
<1> HIDE DEF r, q
<1>6. ASSUME NEW i \in 1..N
      PROVE  /\ i <= b => ps[o[i]][a] <= ps[n][a]
             /\ ~(i <= b) => ps[n][a] <= ps[o[i]][a]
  <2>1. ps[n][a] \in Int /\ ps[o[i]][a] \in Int
    BY <1>3
  <2>2. CASE i <= b
    <3>1. i \in 1..b
      BY <1>3, <2>2
    <3>2. QED  BY <1>1, <2>1, <2>2, <3>1
  <2>3. CASE ~(i <= b)
    <3>1. b # N /\ b + 1 \in 1..N
      BY <1>3, <2>3
    <3>2. ps[o[b + 1]][a] \in Int /\ ps[n][a] <= ps[o[b + 1]][a]
      <4>1. ps[o[b + 1]][a] \in Int
        BY <1>3, <3>1
      <4>2. QED  BY <1>1, <1>2, <2>1, <3>1, <4>1
    <3>3. i = b + 1 \/ b + 1 < i
      BY <1>3, <2>3
    <3>4. ps[o[b + 1]][a] <= ps[o[i]][a]
      BY <1>2, <2>1, <3>1, <3>3 DEF Ascends
    <3>5. QED  BY <2>1, <2>3, <3>2, <3>4
  <2>4. QED  BY <2>2, <2>3
<1>7. ASSUME NEW i \in 1..(N + 1)
      PROVE  i = b + 1 \/ \E d \in 1..N : q[i] = o[d] /\ (d <= b => i = d) /\ (~(d <= b) => i = d + 1)
  <2>1. CASE i \in 1..N /\ i <= b
    BY <1>5, <2>1
  <2>2. CASE \E d \in 1..N : i = d + 1 /\ ~(d <= b)
    BY <1>5, <2>2
  <2>3. QED  BY <1>5, <2>1, <2>2
<1>8. Ascends(q, a, ps)
  <2>1. SUFFICES ASSUME NEW i \in 1..(N + 1), NEW j \in 1..(N + 1), i < j
                 PROVE  ps[q[i]][a] <= ps[q[j]][a]
    BY <1>5 DEF Ascends
  <2>2. CASE i = b + 1
    <3>1. j # b + 1
      BY <1>3, <2>1, <2>2
    <3>2. PICK e \in 1..N : q[j] = o[e] /\ (e <= b => j = e) /\ (~(e <= b) => j = e + 1)
      BY <1>7, <3>1
    <3>3. ~(e <= b)
      BY <1>3, <2>1, <2>2, <3>2
    <3>4. QED  BY <1>5, <1>6, <2>2, <3>2, <3>3
  <2>3. CASE j = b + 1
    <3>1. i # b + 1
      BY <1>3, <2>1, <2>3
    <3>2. PICK d \in 1..N : q[i] = o[d] /\ (d <= b => i = d) /\ (~(d <= b) => i = d + 1)
      BY <1>7, <3>1
    <3>3. d <= b
      BY <1>3, <2>1, <2>3, <3>2
    <3>4. QED  BY <1>5, <1>6, <2>3, <3>2, <3>3
  <2>4. CASE i # b + 1 /\ j # b + 1
    <3>1. PICK d \in 1..N : q[i] = o[d] /\ (d <= b => i = d) /\ (~(d <= b) => i = d + 1)
      BY <1>7, <2>4
    <3>2. PICK e \in 1..N : q[j] = o[e] /\ (e <= b => j = e) /\ (~(e <= b) => j = e + 1)
      BY <1>7, <2>4
    <3>3. d < e
      BY <1>3, <2>1, <3>1, <3>2
    <3>4. QED  BY <1>2, <3>1, <3>2, <3>3 DEF Ascends
  <2>5. QED  BY <2>2, <2>3, <2>4
<1>9. Holds(q, S \cup {n})
  <2>1. SUFFICES ASSUME NEW m \in Node
                 PROVE  m \in S \cup {n} <=> \E i \in 1..(N + 1) : q[i] = m
    BY <1>5 DEF Holds
  <2>2. ASSUME m \in S PROVE \E i \in 1..(N + 1) : q[i] = m
    <3>1. PICK d \in 1..N : o[d] = m
      BY <1>2, <2>2 DEF Holds
    <3>2. QED  BY <1>5, <3>1
  <2>3. m = n => \E i \in 1..(N + 1) : q[i] = m
    BY <1>5
  <2>4. ASSUME NEW i \in 1..(N + 1), q[i] = m PROVE m \in S \cup {n}
    <3>1. CASE i = b + 1
      BY <1>5, <2>4, <3>1
    <3>2. CASE i # b + 1
      <4>1. PICK d \in 1..N : q[i] = o[d]
        BY <1>7, <3>2
      <4>2. QED  BY <1>3, <2>4, <4>1
    <3>3. QED  BY <3>1, <3>2
  <2>5. QED  BY <2>2, <2>3, <2>4
<1>10. QED  BY <1>1, <1>4, <1>5, <1>8, <1>9 DEF Keeps, r

\* Clearing the pointers of a node that is not on the list.
LEMMA FreshThreads ==
  ASSUME NEW l \in ListType, NEW o \in Seq(Node), Threads(l, o), NEW n \in Node,
         \A i \in 1..Len(o) : o[i] # n
  PROVE  /\ CL!Fresh(l, n) \in ListType
         /\ Threads(CL!Fresh(l, n), o)
         /\ Loose(CL!Fresh(l, n), o, n)
<1> DEFINE f == CL!Fresh(l, n)
<1>1. /\ f \in ListType /\ f.h = l.h
      /\ f.nx = [l.nx EXCEPT ![n] = None] /\ f.pv = [l.pv EXCEPT ![n] = None]
  BY DEF CL!Fresh, ListType
<1>2. /\ f.nx[n] = None /\ f.pv[n] = None
      /\ \A m \in Node : m # n => f.nx[m] = l.nx[m] /\ f.pv[m] = l.pv[m]
  BY <1>1 DEF ListType
<1>3. \A i \in 1..Len(o) : o[i] \in Node
  BY ElementOfSeq
<1> HIDE DEF f
<1>4. Threads(f, o)
  BY <1>1, <1>2, <1>3 DEF Threads, Follows
<1>5. QED  BY <1>1, <1>2, <1>4 DEF f, Loose

-----------------------------------------------------------------------------
\* A walk that stops behind the view has seen everybody in it.
LEMMA ListsGiveViews ==
  ASSUME ListInv
  PROVE  ViewExact
<1>1. SUFFICES ASSUME NEW p \in Place
               PROVE  CL!get_entities_in_view(p) = {n \in CL!Linked : CL!InRange(p, nodes[n])}
  BY DEF ListInv, ViewExact, CL!ViewExact
<1>2. 1 \in CL!Axis
  BY DEF CL!Axis
<1>3. PICK o \in Seq(Node) : Threads(CL!List(1), o) /\ Ascends(o, 1, nodes) /\ Holds(o, CL!Linked)
  BY <1>2 DEF ListInv, Keeps
<1>4. CL!Order(head[1], next[1]) = o
  BY <1>3, OrderIsThreaded DEF CL!List
<1>5. PICK N \in Nat : N = Len(o)
  OBVIOUS
<1>6. ASSUME NEW i \in 1..N
      PROVE  o[i] \in CL!Linked /\ nodes[o[i]] \in Place /\ nodes[o[i]][1] \in Int
  <2>1. o[i] \in Node
    BY <1>5, ElementOfSeq
  <2>2. o[i] \in CL!Linked
    BY <1>3, <1>5, <2>1 DEF Holds
  <2>3. nodes[o[i]] \in Place
    BY <2>1, <2>2 DEF ListInv, CL!TypeOK, CL!Linked
  <2>4. nodes[o[i]] \in Int \X Int
    BY <2>3, ListConstants
  <2>5. QED  BY <2>2, <2>3, <2>4
<1>7. p[1] + Radius \in Int
  <2>1. p \in Int \X Int /\ Radius \in Int
    BY ListConstants
  <2>2. QED  BY <2>1
<1>8. ASSUME NEW j \in 1..N, CL!InRange(p, nodes[o[j]])
      PROVE  \A k \in 1..j : nodes[o[k]][1] <= p[1] + Radius
  <2> TAKE k \in 1..j
  <2>1. nodes[o[j]][1] <= p[1] + Radius
    BY <1>2, <1>8 DEF CL!InRange
  <2>2. k \in 1..N /\ (k = j \/ k < j)
    OBVIOUS
  <2>3. k < j => nodes[o[k]][1] <= nodes[o[j]][1]
    BY <1>3, <1>5, <2>2 DEF Ascends
  <2>4. nodes[o[k]][1] \in Int /\ nodes[o[j]][1] \in Int
    BY <1>6, <2>2
  <2>5. QED  BY <1>7, <2>1, <2>2, <2>3, <2>4
<1>9. CL!get_entities_in_view(p) =
          {o[i] : i \in {j \in 1..N : /\ \A k \in 1..j : nodes[o[k]][1] <= p[1] + Radius
                                      /\ CL!InRange(p, nodes[o[j]])}}
  <2>1. DOMAIN o = 1..N
    BY <1>5
  <2>2. QED  BY <1>4, <2>1 DEF CL!get_entities_in_view
<1>10. ASSUME NEW n \in CL!Linked, CL!InRange(p, nodes[n]) PROVE n \in CL!get_entities_in_view(p)
  <2>1. PICK j \in 1..N : o[j] = n
    BY <1>3, <1>5 DEF Holds, CL!Linked
  <2>2. QED  BY <1>8, <1>9, <1>10, <2>1
<1>11. ASSUME NEW n \in CL!get_entities_in_view(p) PROVE n \in CL!Linked /\ CL!InRange(p, nodes[n])
  BY <1>6, <1>9
<1>12. QED  BY <1>10, <1>11

\* What SetLists stores, for lists of their type.
LEMMA ListsStored ==
  ASSUME NEW l, \A a \in CL!Axis : l[a] \in ListType, CL!SetLists(l)
  PROVE  /\ head' \in [CL!Axis -> Node \cup {None}]
         /\ {next', prev'} \subseteq [CL!Axis -> [Node -> Node \cup {None}]]
         /\ \A a \in CL!Axis : CL!List(a)' = l[a]
<1>1. \A a \in CL!Axis : /\ l[a].h \in Node \cup {None}
                         /\ l[a].nx \in [Node -> Node \cup {None}]
                         /\ l[a].pv \in [Node -> Node \cup {None}]
                         /\ l[a] = [h |-> l[a].h, nx |-> l[a].nx, pv |-> l[a].pv]
  BY DEF ListType
<1>2. /\ head' = [a \in CL!Axis |-> l[a].h]
      /\ next' = [a \in CL!Axis |-> l[a].nx]
      /\ prev' = [a \in CL!Axis |-> l[a].pv]
  BY DEF CL!SetLists
<1>3. head' \in [CL!Axis -> Node \cup {None}]
  BY <1>1, <1>2
<1>4. {next', prev'} \subseteq [CL!Axis -> [Node -> Node \cup {None}]]
  BY <1>1, <1>2
<1>5. \A a \in CL!Axis : CL!List(a)' = l[a]
  BY <1>1, <1>2 DEF CL!List
<1>6. QED  BY <1>3, <1>4, <1>5

\* The positions of nodes are pairs of integers.
LEMMA PositionsAreInts ==
  ASSUME NEW ps \in [Node -> Place \cup {None}], NEW m \in Node, ps[m] # None, NEW a \in CL!Axis
  PROVE  ps[m][a] \in Int
<1>1. ps[m] \in Place
  OBVIOUS
<1>2. ps[m] \in Int \X Int
  BY <1>1, ListConstants
<1>3. QED  BY <1>2 DEF CL!Axis

LEMMA ListsStart == CL!Init => ListInv
<1>1. SUFFICES ASSUME CL!Init PROVE ListInv
  OBVIOUS
<1>2. CL!TypeOK
  BY <1>1 DEF CL!Init, CL!TypeOK, CL!Idle
<1>3. ASSUME NEW a \in CL!Axis PROVE Keeps(CL!List(a), a, nodes, CL!Linked)
  <2>1. CL!List(a) = [h |-> None, nx |-> [n \in Node |-> None], pv |-> [n \in Node |-> None]]
    BY <1>1 DEF CL!Init, CL!List
  <2>2. CL!List(a) \in ListType /\ CL!List(a).h = None
    BY <2>1 DEF ListType
  <2>3. ASSUME NEW S PROVE <<>> \in Seq(S) /\ Len(<<>>) = 0
    OBVIOUS
  <2>4. Threads(CL!List(a), <<>>) /\ Ascends(<<>>, a, nodes)
    BY <2>2, <2>3 DEF Threads, Follows, Ascends
  <2>5. Holds(<<>>, CL!Linked)
    BY <1>1, <2>3 DEF Holds, CL!Linked, CL!Init
  <2>6. <<>> \in Seq(Node)
    BY <2>3
  <2>7. QED  BY <2>2, <2>4, <2>5, <2>6 DEF Keeps
<1>4. QED  BY <1>2, <1>3 DEF ListInv

\* add_entity and update_entity: a node that is off the lists gets a position
\* and is inserted.
LEMMA ListsAdd ==
  ASSUME ListInv, NEW n \in Node, NEW p \in Place, CL!add_entity(n, p)
  PROVE  ListInv'
<1> DEFINE l == [a \in CL!Axis |-> CL!Insert(CL!Fresh(CL!List(a), n), a, n, nodes')]
<1>1. /\ n \notin CL!Linked /\ nodes' = [nodes EXCEPT ![n] = p]
      /\ CL!SetLists(l) /\ walk' = walk
  BY DEF CL!add_entity
<1>2. nodes \in [Node -> Place \cup {None}] /\ p # None
  BY ListConstants DEF ListInv, CL!TypeOK
<1>3. /\ nodes' \in [Node -> Place \cup {None}] /\ nodes'[n] = p
      /\ \A m \in Node : m # n => nodes'[m] = nodes[m]
  BY <1>1, <1>2
<1>4. CL!Linked' = CL!Linked \cup {n}
  BY <1>1, <1>2, <1>3 DEF CL!Linked
<1>5. PICK ns \in [Node -> Place \cup {None}] : ns = nodes'
  BY <1>3
<1>6. PICK S \in SUBSET Node : S = CL!Linked
  <2>1. CL!Linked \in SUBSET Node
    BY DEF CL!Linked
  <2>2. QED  BY <2>1
<1>7. ASSUME NEW a \in CL!Axis PROVE Keeps(l[a], a, ns, S \cup {n})
  <2>1. PICK o \in Seq(Node) : Threads(CL!List(a), o) /\ Ascends(o, a, nodes) /\ Holds(o, S)
    BY <1>6 DEF ListInv, Keeps
  <2>2. CL!List(a) \in ListType
    BY DEF ListInv, Keeps
  <2>3. \A i \in 1..Len(o) : o[i] \in Node /\ o[i] \in S /\ o[i] # n
    BY <1>1, <1>6, <2>1, ElementOfSeq DEF Holds
  <2>4. PICK f \in ListType : f = CL!Fresh(CL!List(a), n) /\ Threads(f, o) /\ Loose(f, o, n)
    BY <2>1, <2>2, <2>3, FreshThreads
  <2>5. Ascends(o, a, ns)
    BY <1>3, <1>5, <2>1, <2>3 DEF Ascends
  <2>6. \A m \in S \cup {n} : ns[m][a] \in Int
    <3> TAKE m \in S \cup {n}
    <3>1. m \in Node /\ ns[m] # None
      BY <1>2, <1>3, <1>5, <1>6 DEF CL!Linked
    <3>2. QED  BY <3>1, PositionsAreInts
  <2>7. Keeps(CL!Insert(f, a, n, ns), a, ns, S \cup {n})
    BY <1>1, <1>6, <2>1, <2>4, <2>5, <2>6, InsertKeeps
  <2>8. QED  BY <1>5, <2>4, <2>7
<1> HIDE DEF l
<1>8. \A a \in CL!Axis : l[a] \in ListType
  BY <1>7 DEF Keeps
<1>9. CL!TypeOK'
  BY <1>1, <1>3, <1>8, ListsStored DEF ListInv, CL!TypeOK
<1>10. \A a \in CL!Axis : CL!List(a)' = l[a]
  BY <1>1, <1>8, ListsStored
<1>11. ASSUME NEW a \in CL!Axis PROVE Keeps(CL!List(a), a, nodes, CL!Linked)'
  <2>1. Keeps(l[a], a, ns, S \cup {n})
    BY <1>7
  <2>2. Keeps(CL!List(a)', a, nodes', CL!Linked')
    BY <1>4, <1>5, <1>6, <1>10, <2>1
  <2>3. QED  BY <2>2 DEF Keeps
<1>12. QED  BY <1>9, <1>11 DEF ListInv

LEMMA ListsUpdate ==
  ASSUME ListInv, NEW n \in Node, NEW p \in Place, CL!update_entity(n, p)
  PROVE  ListInv'
<1> DEFINE l == [a \in CL!Axis |-> CL!Insert(CL!remove_from_lists(CL!List(a), n), a, n, nodes')]
<1>1. /\ n \in CL!Linked /\ nodes' = [nodes EXCEPT ![n] = p]
      /\ CL!SetLists(l) /\ walk' = walk
  BY DEF CL!update_entity
<1>2. nodes \in [Node -> Place \cup {None}] /\ p # None
  BY ListConstants DEF ListInv, CL!TypeOK
<1>3. /\ nodes' \in [Node -> Place \cup {None}] /\ nodes'[n] = p
      /\ \A m \in Node : m # n => nodes'[m] = nodes[m]
  BY <1>1, <1>2
<1>4. CL!Linked' = CL!Linked
  BY <1>1, <1>2, <1>3 DEF CL!Linked
<1>5. PICK ns \in [Node -> Place \cup {None}] : ns = nodes'
  BY <1>3
<1>6. PICK S \in SUBSET Node : S = CL!Linked
  <2>1. CL!Linked \in SUBSET Node
    BY DEF CL!Linked
  <2>2. QED  BY <2>1
<1>7. ASSUME NEW a \in CL!Axis PROVE Keeps(l[a], a, ns, S)
  <2>1. Keeps(CL!List(a), a, nodes, S)
    BY <1>6 DEF ListInv
  <2>2. PICK f \in ListType : f = CL!remove_from_lists(CL!List(a), n)
    BY <1>1, <1>3, <1>5, <1>6, <2>1, RemoveKeeps
  <2>3. PICK o \in Seq(Node) : /\ Threads(f, o)
                               /\ Ascends(o, a, ns)
                               /\ Holds(o, S \ {n})
                               /\ Loose(f, o, n)
    <3>1. n \in S /\ \A m \in Node : m # n => ns[m] = nodes[m]
      BY <1>1, <1>3, <1>5, <1>6
    <3>2. \E q \in Seq(Node) :
               /\ Threads(CL!remove_from_lists(CL!List(a), n), q)
               /\ Ascends(q, a, ns)
               /\ Holds(q, S \ {n})
               /\ Loose(CL!remove_from_lists(CL!List(a), n), q, n)
      BY <2>1, <3>1, RemoveKeeps
    <3>3. QED  BY <2>2, <3>2
  <2>4. \A m \in (S \ {n}) \cup {n} : ns[m][a] \in Int
    <3> TAKE m \in (S \ {n}) \cup {n}
    <3>1. m \in Node /\ ns[m] # None
      BY <1>2, <1>3, <1>5, <1>6 DEF CL!Linked
    <3>2. QED  BY <3>1, PositionsAreInts
  <2>5. Keeps(CL!Insert(f, a, n, ns), a, ns, (S \ {n}) \cup {n})
    BY <2>3, <2>4, InsertKeeps
  <2>6. (S \ {n}) \cup {n} = S
    BY <1>1, <1>6
  <2>7. QED  BY <1>5, <2>2, <2>5, <2>6
<1> HIDE DEF l
<1>8. \A a \in CL!Axis : l[a] \in ListType
  BY <1>7 DEF Keeps
<1>9. CL!TypeOK'
  BY <1>1, <1>3, <1>8, ListsStored DEF ListInv, CL!TypeOK
<1>10. \A a \in CL!Axis : CL!List(a)' = l[a]
  BY <1>1, <1>8, ListsStored
<1>11. ASSUME NEW a \in CL!Axis PROVE Keeps(CL!List(a), a, nodes, CL!Linked)'
  <2>1. Keeps(l[a], a, ns, S)
    BY <1>7
  <2>2. Keeps(CL!List(a)', a, nodes', CL!Linked')
    BY <1>4, <1>5, <1>6, <1>10, <2>1
  <2>3. QED  BY <2>2 DEF Keeps
<1>12. QED  BY <1>9, <1>11 DEF ListInv

LEMMA ListsRemove ==
  ASSUME ListInv, NEW n \in Node, CL!remove_entity(n)
  PROVE  ListInv'
<1> DEFINE l == [a \in CL!Axis |-> CL!Fresh(CL!remove_from_lists(CL!List(a), n), n)]
<1>1. /\ n \in CL!Linked /\ nodes' = [nodes EXCEPT ![n] = None]
      /\ CL!SetLists(l) /\ walk' = walk
  BY DEF CL!remove_entity
<1>2. nodes \in [Node -> Place \cup {None}]
  BY DEF ListInv, CL!TypeOK
<1>3. /\ nodes' \in [Node -> Place \cup {None}] /\ nodes'[n] = None
      /\ \A m \in Node : m # n => nodes'[m] = nodes[m]
  BY <1>1, <1>2
<1>4. CL!Linked' = CL!Linked \ {n}
  BY <1>1, <1>2, <1>3 DEF CL!Linked
<1>5. PICK ns \in [Node -> Place \cup {None}] : ns = nodes'
  BY <1>3
<1>6. PICK S \in SUBSET Node : S = CL!Linked
  <2>1. CL!Linked \in SUBSET Node
    BY DEF CL!Linked
  <2>2. QED  BY <2>1
<1>7. ASSUME NEW a \in CL!Axis PROVE Keeps(l[a], a, ns, S \ {n})
  <2>1. Keeps(CL!List(a), a, nodes, S)
    BY <1>6 DEF ListInv
  <2>2. PICK f \in ListType : f = CL!remove_from_lists(CL!List(a), n)
    BY <1>1, <1>3, <1>5, <1>6, <2>1, RemoveKeeps
  <2>3. PICK o \in Seq(Node) : Threads(f, o) /\ Ascends(o, a, ns) /\ Holds(o, S \ {n})
    BY <1>1, <1>3, <1>5, <1>6, <2>1, <2>2, RemoveKeeps
  <2>4. \A i \in 1..Len(o) : o[i] # n
    BY <2>3 DEF Holds
  <2>5. CL!Fresh(f, n) \in ListType /\ Threads(CL!Fresh(f, n), o)
    BY <2>3, <2>4, FreshThreads
  <2>6. QED  BY <2>2, <2>3, <2>5 DEF Keeps
<1> HIDE DEF l
<1>8. \A a \in CL!Axis : l[a] \in ListType
  BY <1>7 DEF Keeps
<1>9. CL!TypeOK'
  BY <1>1, <1>3, <1>8, ListsStored DEF ListInv, CL!TypeOK
<1>10. \A a \in CL!Axis : CL!List(a)' = l[a]
  BY <1>1, <1>8, ListsStored
<1>11. ASSUME NEW a \in CL!Axis PROVE Keeps(CL!List(a), a, nodes, CL!Linked)'
  <2>1. Keeps(l[a], a, ns, S \ {n})
    BY <1>7
  <2>2. Keeps(CL!List(a)', a, nodes', CL!Linked')
    BY <1>4, <1>5, <1>6, <1>10, <2>1
  <2>3. QED  BY <2>2 DEF Keeps
<1>12. QED  BY <1>9, <1>11 DEF ListInv

\* The walk without the lock reads the lists and leaves them.
LEMMA ListsWalk ==
  ASSUME ListInv, (\E p \in Place : CL!WalkStart(p)) \/ CL!WalkStep
  PROVE  ListInv'
<1>1. nodes' = nodes /\ head' = head /\ next' = next /\ prev' = prev
  BY DEF CL!WalkStart, CL!WalkStep
<1>2. walk' \in [from : Place \cup {None}, at : Node \cup {None}]
  <2>0. /\ head \in [CL!Axis -> Node \cup {None}] /\ 1 \in CL!Axis
        /\ next \in [CL!Axis -> [Node -> Node \cup {None}]]
        /\ walk \in [from : Place \cup {None}, at : Node \cup {None}]
    BY DEF ListInv, CL!TypeOK, CL!Axis
  <2>1. CASE \E p \in Place : CL!WalkStart(p)
    BY <2>0, <2>1 DEF CL!WalkStart
  <2>2. CASE CL!WalkStep
    <3>1. CL!Idle \in [from : Place \cup {None}, at : Node \cup {None}]
      BY DEF CL!Idle
    <3>2. CASE walk.at = None \/ walk.at \notin CL!Linked
      BY <2>2, <3>1, <3>2 DEF CL!WalkStep
    <3>3. CASE ~(walk.at = None \/ walk.at \notin CL!Linked)
      <4>1. walk.at \in Node
        BY <3>3 DEF CL!Linked
      <4>2. next[1][walk.at] \in Node \cup {None}
        BY <2>0, <4>1
      <4>3. [walk EXCEPT !.at = next[1][walk.at]] \in [from : Place \cup {None}, at : Node \cup {None}]
        BY <2>0, <4>2
      <4>4. walk' = CL!Idle \/ walk' = [walk EXCEPT !.at = next[1][walk.at]]
        BY <2>2, <3>3 DEF CL!WalkStep
      <4>5. QED  BY <3>1, <4>3, <4>4
    <3>4. QED  BY <3>2, <3>3
  <2>3. QED  BY <2>1, <2>2
<1>3. CL!TypeOK'
  BY <1>1, <1>2 DEF ListInv, CL!TypeOK
<1>4. \A a \in CL!Axis : Keeps(CL!List(a), a, nodes, CL!Linked)'
  BY <1>1 DEF ListInv, Keeps, Threads, Follows, Ascends, Holds, CL!List, CL!Linked
<1>5. QED  BY <1>3, <1>4 DEF ListInv

LEMMA ListsStep == ListInv /\ [CL!Next]_crossVars => ListInv'
<1>1. SUFFICES ASSUME ListInv, [CL!Next]_crossVars PROVE ListInv'
  OBVIOUS
<1>2. CASE \E n \in Node : CL!remove_entity(n)
  BY <1>1, <1>2, ListsRemove
<1>3. CASE \E n \in Node, p \in Place : CL!add_entity(n, p)
  BY <1>1, <1>3, ListsAdd
<1>4. CASE \E n \in Node, p \in Place : CL!update_entity(n, p)
  BY <1>1, <1>4, ListsUpdate
<1>5. CASE (\E p \in Place : CL!WalkStart(p)) \/ CL!WalkStep
  BY <1>1, <1>5, ListsWalk
<1>6. CASE UNCHANGED crossVars
  <2>1. nodes' = nodes /\ head' = head /\ next' = next /\ prev' = prev /\ walk' = walk
    BY <1>6 DEF crossVars
  <2>2. CL!TypeOK'
    BY <1>1, <2>1 DEF ListInv, CL!TypeOK
  <2>3. \A a \in CL!Axis : Keeps(CL!List(a), a, nodes, CL!Linked)'
    BY <1>1, <2>1 DEF ListInv, Keeps, Threads, Follows, Ascends, Holds, CL!List, CL!Linked
  <2>4. QED  BY <2>2, <2>3 DEF ListInv
<1>7. QED  BY <1>1, <1>2, <1>3, <1>4, <1>5, <1>6 DEF CL!Next

(***************************************************************************)
(* After any calls of add_entity, update_entity and remove_entity, and     *)
(* whatever a walk without the lock does meanwhile, get_entities_in_view   *)
(* of CrossListAoi under its lock returns exactly the entities within      *)
(* view_range: both lists thread every entity once and in the order of its *)
(* coordinate, so that the early break of the loop hides nobody.           *)
(***************************************************************************)
THEOREM ListViewsAreExact == CL!Spec => []ViewExact
<1>1. CL!Init => ListInv
  BY ListsStart
<1>2. ListInv /\ [CL!Next]_(CL!listVars) => ListInv'
  BY ListsStep DEF crossVars, CL!listVars
<1>3. ListInv => ViewExact
  BY ListsGiveViews
<1>4. QED  BY <1>1, <1>2, <1>3, PTL DEF CL!Spec

-----------------------------------------------------------------------------
\* What the constructor is given: each side has a line of generals.
Lineup == generals \in [BT!Side -> UNION {[1..n -> Traits] : n \in Lines}]

BattleInv == BT!TypeOK /\ Lineup /\ BT!ReportAddsUp

LEMMA Sides ==
    /\ BT!Side = {"attacker", "defender"}
    /\ BT!Other("attacker") = "defender" /\ BT!Other("defender") = "attacker"
<1>1. BT!Side = {"attacker", "defender"}
  BY DEF BT!Side
<1>2. \A o \in BT!Side : o # "attacker" <=> o = "defender"
  BY DEF BT!Side
<1>3. \A o \in BT!Side : o # "defender" <=> o = "attacker"
  BY DEF BT!Side
<1>4. BT!Other("attacker") = "defender"
  BY <1>1, <1>2 DEF BT!Other
<1>5. BT!Other("defender") = "attacker"
  BY <1>1, <1>3 DEF BT!Other
<1> QED  BY <1>1, <1>4, <1>5

\* A general of a side has the traits of a general.
LEMMA GeneralsHaveTraits ==
  ASSUME BT!BattleAssumption, Lineup, NEW s \in BT!Side
  PROVE  /\ \A i \in DOMAIN generals[s] : generals[s][i] \in Traits
         /\ Len(generals[s]) \in Nat /\ DOMAIN generals[s] = 1..Len(generals[s])
<1>1. generals[s] \in UNION {[1..n -> Traits] : n \in Lines}
  BY DEF Lineup
<1>2. PICK n \in Lines : generals[s] \in [1..n -> Traits]
  BY <1>1
<1>3. n \in Nat
  BY DEF BT!BattleAssumption
<1>4. generals[s] \in Seq(Traits) /\ Len(generals[s]) = n
  BY <1>2, <1>3
<1> QED  BY <1>2, <1>3, <1>4

LEMMA TruncInt == ASSUME NEW n \in Int, NEW d \in Nat \ {0} PROVE BT!Trunc(n, d) \in Int
BY DEF BT!Trunc

\* A blow takes at least one, whatever is drawn.
LEMMA DamageAtLeastOne ==
  ASSUME BT!BattleAssumption, NEW g \in Traits, NEW target \in Traits, NEW damage \in BT!Damages(g, target)
  PROVE  damage \in Nat \ {0}
<1>1. PICK skill \in BOOLEAN, factor \in Factors, dodge \in BOOLEAN, critical \in BOOLEAN :
        damage = BT!calculate_damage(g, target, skill, factor, dodge, critical)
  <2>1. \A c : BT!Drawn(c) \subseteq BOOLEAN
    BY DEF BT!Drawn
  <2> DEFINE D == BT!Drawn(BT!Chance(target.speed, g.force, 20))
             C == BT!Drawn(BT!Chance(g.force, target.speed, 30))
  <2>2. damage \in {BT!calculate_damage(g, target, skill, factor, dodge, critical) :
                      skill \in BOOLEAN, factor \in Factors, dodge \in D, critical \in C}
    BY DEF BT!Damages
  <2>3. D \subseteq BOOLEAN /\ C \subseteq BOOLEAN
    BY <2>1
  <2> HIDE DEF D, C
  <2>4. PICK skill \in BOOLEAN, factor \in Factors, dodge \in D, critical \in C :
           damage = BT!calculate_damage(g, target, skill, factor, dodge, critical)
    BY <2>2
  <2>5. QED  BY <2>3, <2>4
<1>2. factor \in Int /\ BaseDamage \in Int
  BY DEF BT!BattleAssumption
<1>3. g.force \in Int /\ g.intelligence \in Int /\ g.skill \in Int /\ target.command \in Int
  BY DEF BT!BattleAssumption
<1>4. PICK k \in Int : k = BT!skill_damage(g)
  <2>1. PICK x \in Int : x = g.intelligence * g.skill
    BY <1>3
  <2>2. QED  BY <2>1 DEF BT!skill_damage
<1>5. PICK x \in Int : x = BaseDamage + (g.force - target.command \div 2) * 2 + (IF skill THEN BT!skill_damage(g) ELSE 0)
  <2>1. PICK c \in Int : c = target.command \div 2
    BY <1>3
  <2>2. QED  BY <1>2, <1>3, <1>4, <2>1
<1>6. PICK y \in Int : y = x * factor
  BY <1>2
<1>7. PICK swing \in Int : swing = BT!Trunc(y, 100)
  BY TruncInt
<1>8. PICK grazed \in Int : grazed = IF dodge THEN BT!Trunc(swing * 3, 10) ELSE swing
  <2>1. BT!Trunc(swing * 3, 10) \in Int
    <3>1. PICK t \in Int : t = swing * 3
      OBVIOUS
    <3>2. QED  BY <3>1, TruncInt
  <2>2. QED  BY <2>1
<1>9. PICK final \in Int : final = IF critical THEN grazed * BT!critical_multiplier ELSE grazed
  BY DEF BT!critical_multiplier
<1>10. damage = IF final > 1 THEN final ELSE 1
  BY <1>1, <1>5, <1>6, <1>7, <1>8, <1>9 DEF BT!calculate_damage
<1> QED  BY <1>10

\* What a blow takes from one side the report gives to the other.
LEMMA StrikeAddsUp ==
  ASSUME BT!BattleAssumption, BattleInv, NEW s \in BT!Side, BT!Strike(s)
  PROVE  BattleInv'
<1> DEFINE o == BT!Other(s)
<1>1. s \in {"attacker", "defender"} /\ o \in BT!Side /\ o # s /\ BT!Other(o) = s
  BY Sides
<1>2. /\ acting.side = s /\ acting.at <= Len(generals[s]) /\ result = "none"
      /\ \A x \in BT!Side : remaining[x] > 0
      /\ acting' = [acting EXCEPT !.at = @ + 1]
      /\ UNCHANGED <<generals, initial, round, result, wild>>
  BY DEF BT!Strike, BT!MayStrike
<1>3. PICK target \in BT!Range(generals[o]) : \E damage \in BT!Damages(generals[s][acting.at], target) :
           LET actual == IF damage < remaining[o] THEN damage ELSE remaining[o]
           IN /\ remaining' = [remaining EXCEPT ![o] = @ - actual]
              /\ dealt' = [dealt EXCEPT ![s] = @ + actual]
  BY DEF BT!Strike
<1>4. PICK damage \in BT!Damages(generals[s][acting.at], target) :
           LET actual == IF damage < remaining[o] THEN damage ELSE remaining[o]
           IN /\ remaining' = [remaining EXCEPT ![o] = @ - actual]
              /\ dealt' = [dealt EXCEPT ![s] = @ + actual]
  BY <1>3
<1>5. remaining \in [BT!Side -> Int] /\ dealt \in [BT!Side -> Nat] /\ initial \in [BT!Side -> Nat] /\ acting.at \in Nat \ {0}
  BY DEF BattleInv, BT!TypeOK, BT!BattleAssumption
<1>6. damage \in Nat \ {0}
  <2>1. target \in Traits
    <3>1. PICK i \in DOMAIN generals[o] : target = generals[o][i]
      BY <1>3 DEF BT!Range
    <3>2. QED  BY <1>1, <3>1, GeneralsHaveTraits DEF BattleInv
  <2>2. generals[s][acting.at] \in Traits
    <3>1. acting.at \in 1..Len(generals[s])
      BY <1>2, <1>5, GeneralsHaveTraits DEF BattleInv
    <3>2. QED  BY <3>1, GeneralsHaveTraits DEF BattleInv
  <2>3. QED  BY <1>4, <2>1, <2>2, DamageAtLeastOne
<1>7. PICK actual \in Nat : /\ actual <= remaining[o]
                            /\ remaining' = [remaining EXCEPT ![o] = @ - actual]
                            /\ dealt' = [dealt EXCEPT ![s] = @ + actual]
  <2>1. remaining[o] \in Nat
    BY <1>1, <1>2, <1>5
  <2>2. PICK a \in Nat : a = (IF damage < remaining[o] THEN damage ELSE remaining[o]) /\ a <= remaining[o]
    BY <1>6, <2>1
  <2>3. QED  BY <1>4, <2>2
<1> HIDE DEF o
<1>8. /\ remaining'[o] = remaining[o] - actual /\ remaining'[s] = remaining[s]
      /\ dealt'[s] = dealt[s] + actual /\ dealt'[o] = dealt[o]
      /\ remaining' \in [BT!Side -> Int] /\ dealt' \in [BT!Side -> Nat]
  BY <1>1, <1>5, <1>7
<1>9. BT!TypeOK'
  <2>1. acting \in [side : BT!Side, at : Nat \ {0}]
    BY DEF BattleInv, BT!TypeOK
  <2>2. acting' \in [side : BT!Side, at : Nat \ {0}]
    <3>1. PICK n \in Nat \ {0} : n = acting.at + 1
      BY <1>5
    <3>2. acting' = [side |-> acting.side, at |-> n]
      BY <1>2, <2>1, <3>1
    <3>3. QED  BY <2>1, <3>1, <3>2
  <2>3. QED  BY <1>2, <1>8, <2>2 DEF BattleInv, BT!TypeOK
<1>10. remaining[o] = initial[o] - dealt[s] /\ remaining[s] = initial[s] - dealt[o] /\ remaining[s] >= 0
  <2>1. BT!Other(s) = o
    BY DEF o
  <2>2. QED  BY <1>1, <2>1 DEF BattleInv, BT!ReportAddsUp
<1>11. /\ remaining'[o] >= 0 /\ remaining'[o] = initial'[o] - dealt'[s]
       /\ remaining'[s] >= 0 /\ remaining'[s] = initial'[s] - dealt'[o]
  BY <1>1, <1>2, <1>5, <1>7, <1>8, <1>10
<1>12. ASSUME NEW x \in BT!Side PROVE remaining'[x] >= 0 /\ remaining'[x] = initial'[x] - dealt'[BT!Other(x)]
  <2>1. x = s \/ x = o
    BY <1>1, Sides
  <2>2. QED  BY <1>1, <1>11, <2>1 DEF o
<1>13. BT!ReportAddsUp'
  BY <1>2, <1>12 DEF BT!ReportAddsUp
<1> QED  BY <1>2, <1>9, <1>13 DEF BattleInv, Lineup

-----------------------------------------------------------------------------
\* For all armies, generals, rounds and draws: the losses of a side are what the
\* report says the other did, no side goes below nothing, and one that is wiped
\* out is not declared the winner (BattleSystem::execute).
THEOREM BattlesAddUp == BT!Spec => []ReportAddsUp
<1>1. BT!Init => BattleInv
  <2> SUFFICES ASSUME BT!Init PROVE BattleInv
    OBVIOUS
  <2>1. initial \in [BT!Side -> Armies] /\ Armies \subseteq Nat /\ MaxRounds \in Nat
    BY GameMapAssumption DEF BT!Init, BT!BattleAssumption
  <2>2. BT!TypeOK
    <3>1. remaining \in [BT!Side -> Int] /\ dealt \in [BT!Side -> Nat]
      <4>1. remaining = initial /\ dealt = [s \in BT!Side |-> 0]
        BY DEF BT!Init
      <4>2. initial \in [BT!Side -> Nat]
        BY <2>1
      <4>3. remaining \in [BT!Side -> Int]
        BY <4>1, <4>2
      <4>4. dealt \in [BT!Side -> Nat]
        BY <4>1
      <4>5. QED  BY <4>3, <4>4
    <3>2. acting \in [side : BT!Side, at : Nat \ {0}]
      BY Sides DEF BT!Init
    <3>3. round \in 1..MaxRounds + 1
      BY <2>1 DEF BT!Init
    <3>4. QED  BY <2>1, <3>1, <3>2, <3>3 DEF BT!Init, BT!TypeOK
  <2>3. BT!ReportAddsUp
    <3>1. ASSUME NEW s \in BT!Side PROVE BT!Other(s) \in BT!Side /\ initial[s] \in Nat
      BY <2>1, Sides
    <3>2. ASSUME NEW s \in BT!Side
          PROVE  remaining[s] >= 0 /\ remaining[s] = initial[s] - dealt[BT!Other(s)]
      <4>1. remaining[s] = initial[s] /\ dealt[BT!Other(s)] = 0
        BY <3>1 DEF BT!Init
      <4>2. QED  BY <3>1, <4>1
    <3>3. result = "none"
      BY DEF BT!Init
    <3>4. QED  BY <3>2, <3>3 DEF BT!ReportAddsUp
  <2>4. QED  BY <2>2, <2>3 DEF BattleInv, Lineup, BT!Init
<1>2. BattleInv /\ [BT!Next]_(BT!battleVars) => BattleInv'
  <2> SUFFICES ASSUME BattleInv, [BT!Next]_(BT!battleVars) PROVE BattleInv'
    OBVIOUS
  <2>0. MaxRounds \in Nat /\ BT!BattleAssumption
    BY GameMapAssumption DEF BT!BattleAssumption
  <2>1. ASSUME NEW s \in BT!Side, BT!Strike(s) PROVE BattleInv'
    BY <2>0, <2>1, StrikeAddsUp
  <2>2. ASSUME NEW s \in BT!Side, BT!StrikeNobody(s) PROVE BattleInv'
    BY <2>2 DEF BT!StrikeNobody, BattleInv, BT!TypeOK, Lineup, BT!ReportAddsUp
  <2>3. ASSUME BT!Turn PROVE BattleInv'
    BY <2>3 DEF BT!Turn, BattleInv, BT!TypeOK, Lineup, BT!ReportAddsUp, BT!Side
  <2>4. ASSUME BT!EndRound PROVE BattleInv'
    <3>1. round' \in 1..MaxRounds + 1
      BY <2>0, <2>4 DEF BT!EndRound, BattleInv, BT!TypeOK
    <3>2. QED  BY <2>4, <3>1 DEF BT!EndRound, BattleInv, BT!TypeOK, Lineup, BT!ReportAddsUp, BT!Side
  <2>5. ASSUME BT!Report PROVE BattleInv'
    <3>1. /\ UNCHANGED <<generals, remaining, initial, round, acting, dealt, wild>>
          /\ result' = IF remaining["attacker"] > remaining["defender"] THEN "ATTACKER_WIN"
                       ELSE IF remaining["defender"] > remaining["attacker"] THEN "DEFENDER_WIN" ELSE "DRAW"
      BY <2>5 DEF BT!Report
    <3>2. remaining["attacker"] \in Nat /\ remaining["defender"] \in Nat
      BY Sides DEF BattleInv, BT!TypeOK, BT!ReportAddsUp
    <3>3. (remaining["attacker"] = 0 => result' # "ATTACKER_WIN") /\ (remaining["defender"] = 0 => result' # "DEFENDER_WIN")
      BY <3>1, <3>2
    <3>4. BT!TypeOK' /\ Lineup'
      BY <3>1 DEF BattleInv, BT!TypeOK, Lineup
    <3>5. BT!ReportAddsUp'
      BY <3>1, <3>3, Sides DEF BattleInv, BT!ReportAddsUp
    <3>6. QED  BY <3>4, <3>5 DEF BattleInv
  <2>6. ASSUME UNCHANGED BT!battleVars PROVE BattleInv'
    BY <2>6 DEF BT!battleVars, BattleInv, BT!TypeOK, Lineup, BT!ReportAddsUp
  <2>7. QED  BY <2>1, <2>2, <2>3, <2>4, <2>5, <2>6 DEF BT!Next
<1>3. BattleInv => ReportAddsUp
  BY DEF BattleInv, ReportAddsUp
<1> QED  BY <1>1, <1>2, <1>3, PTL DEF BT!Spec
=============================================================================
