------------------------------ MODULE GameMap -------------------------------
(***************************************************************************)
(* The map of a game: the SlgMap on its GridAoi, and beside it the other   *)
(* way to find neighbours, the CrossListAoi (CL), and a Battle (BT).       *)
(***************************************************************************)
EXTENDS SlgMap

CONSTANTS Node, Place, Radius, None     \* of CrossListAoi

VARIABLES nodes, head, next, prev, walk

crossVars == <<nodes, head, next, prev, walk>>

CL == INSTANCE CrossListAoi

CONSTANTS Armies, Lines, Traits, BaseDamage, MaxRounds, Factors     \* of Battle

VARIABLES generals, remaining, initial, round, acting, dealt, result, wild

fightVars == <<generals, remaining, initial, round, acting, dealt, result, wild>>

BT == INSTANCE Battle WITH troops <- remaining

ASSUME GameMapAssumption == CL!ListAssumption /\ BT!BattleAssumption

\* CrossListAoi: a view read off the list is the set of entities in range.
ViewExact == CL!TypeOK /\ CL!ViewExact

\* Battle: losses, damages and the result fit together.
ReportAddsUp == BT!TypeOK /\ BT!ReportAddsUp
=============================================================================
