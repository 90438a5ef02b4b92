------------------------------- MODULE SlgMap -------------------------------
(***************************************************************************)
(* SlgMapManager (src/src/slg/map.cpp): the cells, cities and troops of a  *)
(* strategy map under one mutex, and the GridAoi the troops are entered    *)
(* in. A cell keeps what the operations read: its terrain, owner, whether  *)
(* it has a building and a resource. Positions are <<x, y>>. A march keeps *)
(* total = arrive_time - start_time and elapsed = now - start_time, which  *)
(* stops at total: update_troops asks only whether it is reached.          *)
(*                                                                         *)
(* aoi() hands the GridAoi to the game, which enters entities of its own   *)
(* and may take an id that a troop has or will have.                       *)
(***************************************************************************)
EXTENDS GridAoi

CONSTANTS
    Width, Height,
    Troop,          \* troop ids 1, 2, ..., entities of the AOI
    Player,         \* owner ids, 0 is nobody
    CellValue,      \* the cells passed to update_cell
    MaxCity,
    Slowness        \* time per cell of a march: calculate_march_time

\* Troops are entities of the AOI; time per cell is not negative.
ASSUME SlgAssumption ==
    /\ Troop \subseteq Entity \cap Nat
    /\ Width \in Nat /\ Height \in Nat /\ MaxCity \in Nat /\ Slowness \in Nat

VARIABLES
    cells,          \* cells_, by cell_index
    cities,         \* cities_: the sequence of created cities, position and owner
    troops,         \* troops_: troop_id -> record, NoTroop when absent
    updating,       \* the troops update_troops still has to visit, mutex_ held
    strayed,        \* cells_ was read outside its bounds
    foreign         \* the troop ids the game used with aoi() (history)

slgVars == <<gridVars, cells, cities, troops, updating, strayed, foreign>>

NoTroop == [state |-> "none"]
Index == 0..Width * Height - 1
cell_index(p) == p[2] * Width + p[1]
is_valid_pos(p) == p[1] \in 0..Width - 1 /\ p[2] \in 0..Height - 1
PlainCell == [terrain |-> "PLAIN", owner |-> 0, building |-> FALSE, resource |-> FALSE]

Abs(i) == IF i < 0 THEN -i ELSE i
calculate_distance(p, q) == IF Abs(p[1] - q[1]) > Abs(p[2] - q[2]) THEN Abs(p[1] - q[1]) ELSE Abs(p[2] - q[2])
calculate_march_time(p, q) == calculate_distance(p, q) * Slowness

\* from + (int)((to - from) * done / total), which rounds towards from.
Between(from, to, done, total) ==
    IF to >= from THEN from + ((to - from) * done) \div total ELSE from - ((from - to) * done) \div total

SlgTypeOK ==
    /\ TypeOK
    /\ DOMAIN cells = Index
    /\ \A t \in Troop : troops[t].state \in {"none", "IDLE", "MARCHING", "GATHERING", "BATTLE", "RETURNING"}
    /\ Len(cities) \in 0..MaxCity
    /\ updating \subseteq Troop /\ foreign \subseteq Troop /\ strayed \in BOOLEAN

SlgInit ==
    /\ Init
    /\ cells = [i \in Index |-> PlainCell]
    /\ cities = <<>>
    /\ troops = [t \in Troop |-> NoTroop]
    /\ updating = {} /\ foreign = {} /\ strayed = FALSE

Free == updating = {}
Ground == <<gridVars, troops, updating, strayed, foreign>>
Army == <<cells, cities, strayed, foreign>>

-----------------------------------------------------------------------------
\* generate_terrain redraws every cell, cities and resource points included.
generate_terrain ==
    /\ Free
    /\ \E f \in [Index -> {"PLAIN", "ROUGH"}] : cells' = [i \in Index |-> [cells[i] EXCEPT !.terrain = f[i]]]
    /\ UNCHANGED <<Ground, cities>>

\* One draw of generate_resources.
generate_resources(i) ==
    /\ Free /\ cells[i].terrain = "PLAIN" /\ ~cells[i].resource /\ ~cells[i].building
    /\ cells' = [cells EXCEPT ![i].terrain = "RESOURCE", ![i].resource = TRUE]
    /\ UNCHANGED <<Ground, cities>>

\* One draw of generate_cities: the cell is marked with the id of the city.
generate_cities(p) ==
    /\ Free /\ is_valid_pos(p) /\ Len(cities) < MaxCity
    /\ \A i \in DOMAIN cities : calculate_distance(cities[i].at, p) >= 20
    /\ cells[cell_index(p)].terrain = "PLAIN"
    /\ cells' = [cells EXCEPT ![cell_index(p)].terrain = "CITY", ![cell_index(p)].owner = Len(cities) + 1]
    /\ cities' = Append(cities, [at |-> p, owner |-> 0])
    /\ UNCHANGED Ground

create_city(p, o) ==
    /\ Free /\ is_valid_pos(p) /\ Len(cities) < MaxCity
    /\ cells[cell_index(p)].terrain = "PLAIN"
    /\ cells' = [cells EXCEPT ![cell_index(p)].terrain = "CITY", ![cell_index(p)].owner = o]
    /\ cities' = Append(cities, [at |-> p, owner |-> o])
    /\ UNCHANGED Ground

\* The city is what the caller passes, its position included; no cell changes.
update_city(i, p, o) ==
    /\ Free /\ i \in DOMAIN cities
    /\ cities' = [cities EXCEPT ![i] = [at |-> p, owner |-> o]]
    /\ UNCHANGED <<Ground, cells>>

\* update_cell, update_cell_owner, add_building and remove_building.
SetCell(p, c) ==
    /\ Free /\ is_valid_pos(p)
    /\ cells' = [cells EXCEPT ![cell_index(p)] = c]
    /\ UNCHANGED <<Ground, cities>>

update_cell(p, c) == SetCell(p, c)
update_cell_owner(p, o) == is_valid_pos(p) /\ SetCell(p, [cells[cell_index(p)] EXCEPT !.owner = o])
add_building(p) ==
    is_valid_pos(p) /\ ~cells[cell_index(p)].building /\ SetCell(p, [cells[cell_index(p)] EXCEPT !.building = TRUE])
remove_building(p) == is_valid_pos(p) /\ SetCell(p, [cells[cell_index(p)] EXCEPT !.building = FALSE])

-----------------------------------------------------------------------------
\* The troop exists whether or not the AOI takes it.
create_troop(t, o, p) ==
    /\ Free /\ troops[t] = NoTroop /\ \A u \in Troop : u < t => troops[u] # NoTroop
    /\ troops' = [troops EXCEPT ![t] = [state |-> "IDLE", owner |-> o, from |-> p, to |-> <<0, 0>>,
                                        current |-> p, elapsed |-> 0, total |-> 0]]
    /\ IF entities[t] = NoSpot THEN add_entity(t, p) ELSE UNCHANGED gridVars
    /\ UNCHANGED <<Army, updating>>

\* Neither the target nor the way to it is looked at.
move_troop(t, p) ==
    /\ Free /\ troops[t].state = "IDLE"
    /\ troops' = [troops EXCEPT ![t].to = p, ![t].state = "MARCHING", ![t].elapsed = 0,
                                ![t].total = calculate_march_time(troops[t].from, p)]
    /\ UNCHANGED <<gridVars, Army, updating>>

\* The arrival time stays that of the march that is given up.
cancel_troop(t) ==
    /\ Free /\ troops[t].state = "MARCHING"
    /\ troops' = [troops EXCEPT ![t].to = troops[t].from, ![t].state = "RETURNING"]
    /\ UNCHANGED <<gridVars, Army, updating>>

\* update_troops takes the mutex and visits the troops one by one.
update_troops ==
    /\ Free
    /\ updating' = {t \in Troop : troops[t] # NoTroop} /\ updating' # {}
    /\ UNCHANGED <<gridVars, Army, troops>>

Halted(t) ==
    /\ t \in updating /\ troops[t].state \notin {"MARCHING", "RETURNING"}
    /\ updating' = updating \ {t}
    /\ UNCHANGED <<gridVars, Army, troops>>

UnderWay(t) ==
    /\ t \in updating /\ troops[t].state \in {"MARCHING", "RETURNING"} /\ troops[t].elapsed < troops[t].total
    /\ LET r == troops[t]
       IN troops' = [troops EXCEPT ![t].current =
              <<Between(r.from[1], r.to[1], r.elapsed, r.total),
                Between(r.from[2], r.to[2], r.elapsed, r.total)>>]
    /\ updating' = updating \ {t}
    /\ UNCHANGED <<gridVars, Army>>

\* What a troop does where it arrives: what the cell says, anything when cells_ has no such cell.
Fate(r) ==
    IF r.state = "RETURNING" THEN {"IDLE"}
    ELSE IF cell_index(r.to) \notin Index THEN {"GATHERING", "BATTLE", "IDLE"}
    ELSE LET c == cells[cell_index(r.to)]
         IN IF c.resource THEN {"GATHERING"}
            ELSE IF c.owner # 0 /\ c.owner # r.owner THEN {"BATTLE"} ELSE {"IDLE"}

\* A plausible bug: arrival is not entered in the AOI.
ArriveUnseen(t) ==
    /\ t \in updating /\ troops[t].state \in {"MARCHING", "RETURNING"} /\ troops[t].elapsed = troops[t].total
    /\ \E s \in Fate(troops[t]) :
           troops' = [troops EXCEPT ![t].current = troops[t].to, ![t].state = s,
                                    ![t].from = IF s = "IDLE" THEN troops[t].to ELSE @]
    /\ updating' = updating \ {t}
    /\ UNCHANGED <<gridVars, Army>>

\* The times, which nobody reads until move_troop sets them, are put back to 0.
Arrive(t) ==
    /\ t \in updating /\ troops[t].state \in {"MARCHING", "RETURNING"} /\ troops[t].elapsed = troops[t].total
    /\ \E s \in Fate(troops[t]) :
           troops' = [troops EXCEPT ![t].current = troops[t].to, ![t].state = s,
                                    ![t].from = IF s = "IDLE" THEN troops[t].to ELSE @,
                                    ![t].elapsed = 0, ![t].total = 0]
    /\ IF entities[t] # NoSpot THEN update_entity(t, troops[t].to) ELSE UNCHANGED gridVars
    /\ strayed' = (strayed \/ (troops[t].state = "MARCHING" /\ cell_index(troops[t].to) \notin Index))
    /\ updating' = updating \ {t}
    /\ UNCHANGED <<cells, cities, foreign>>

Tick ==
    /\ Free /\ \E t \in Troop : troops[t] # NoTroop /\ troops[t].elapsed < troops[t].total
    /\ troops' = [t \in Troop |-> IF troops[t] # NoTroop /\ troops[t].elapsed < troops[t].total
                                  THEN [troops[t] EXCEPT !.elapsed = @ + 1] ELSE troops[t]]
    /\ UNCHANGED <<gridVars, Army, updating>>

\* The game calls the AOI itself, which has its own mutex.
aoi(e) ==
    /\ remove_entity(e) \/ \E p \in Spot : add_entity(e, p) \/ update_entity(e, p)
    /\ foreign' = foreign \cup ({e} \cap Troop)
    /\ UNCHANGED <<cells, cities, troops, updating, strayed>>

SlgNext ==
    \/ generate_terrain
    \/ \E i \in Index : generate_resources(i)
    \/ \E p \in Spot : generate_cities(p) \/ add_building(p) \/ remove_building(p)
    \/ \E p \in Spot, c \in CellValue : update_cell(p, c)
    \/ \E p \in Spot, o \in Player : create_city(p, o) \/ update_cell_owner(p, o)
    \/ \E i \in 1..MaxCity, p \in Spot, o \in Player : update_city(i, p, o)
    \/ \E t \in Troop, p \in Spot : move_troop(t, p) \/ \E o \in Player : create_troop(t, o, p)
    \/ \E t \in Troop : cancel_troop(t) \/ Halted(t) \/ UnderWay(t) \/ Arrive(t)
    \/ \E e \in Entity : aoi(e)
    \/ update_troops
    \/ Tick

SlgSpec == SlgInit /\ [][SlgNext]_slgVars

-----------------------------------------------------------------------------
Stop(r) == IF r.state \in {"IDLE", "MARCHING", "RETURNING"} THEN r.from ELSE r.to

(***************************************************************************)
(* Troops, their marches and the AOI agree: the AOI holds every troop at   *)
(* its last stop unless the game used its id, a troop that is not under    *)
(* way stands at its last stop, and a troop turned back by cancel_troop    *)
(* heads for the place it left.                                            *)
(***************************************************************************)
TroopsPlaced ==
    \A t \in Troop :
        LET r == troops[t]
        IN /\ t \notin foreign => entities[t] = IF r = NoTroop THEN NoSpot ELSE Stop(r)
           /\ r # NoTroop /\ r.state \notin {"MARCHING", "RETURNING"} => r.current = Stop(r)
           /\ r.state = "RETURNING" => r.to = r.from

\* The types and where the troops are.
MarchesAgree == SlgTypeOK /\ TroopsPlaced

(***************************************************************************)
(* Does not hold: at most one city stands on a cell. generate_terrain and  *)
(* update_cell turn a city's cell back into plain, and create_city asks    *)
(* the cell only.                                                          *)
(***************************************************************************)
OneCityPerCell == \A i, j \in DOMAIN cities : cities[i].at = cities[j].at => i = j

(***************************************************************************)
(* Does not hold: update_troops reads cells of the map only. move_troop    *)
(* takes any target, and update_troops does not ask is_valid_pos.          *)
(***************************************************************************)
ReadsInside == ~strayed

(***************************************************************************)
(* Does not hold: the AOI has every troop at its last stop. create_troop   *)
(* ignores that add_entity finds the id taken, and whoever has the AOI     *)
(* from aoi() may move a troop's entity or remove it.                      *)
(***************************************************************************)
TroopsSeen ==
    \A t \in Troop : troops[t] # NoTroop => entities[t] = Stop(troops[t])
=============================================================================
