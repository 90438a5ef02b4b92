------------------------------- MODULE Battle -------------------------------
(***************************************************************************)
(* BattleSystem::execute (src/src/slg/battle.cpp): rounds in which the     *)
(* generals of the attacker and then those of the defender strike the      *)
(* other side's troops. The numbers drawn from rng_ and rand() are choices *)
(* of the environment; damage is in the integers the code computes.        *)
(***************************************************************************)
EXTENDS Integers, Sequences, FiniteSets, Functions

CONSTANTS
    Armies,         \* the numbers of troops a battle starts with
    Lines,          \* the numbers of generals of a side
    Traits,         \* the generals: records of force, intelligence, command, speed, skill
    BaseDamage, MaxRounds,
    Factors         \* the random factors drawn, in percent: 80..120

VARIABLES
    generals,       \* generals[s]: the generals of side s
    troops,         \* troops[s]: attacker_remaining, defender_remaining
    initial,        \* attacker_initial, defender_initial
    round,          \* the round being fought, MaxRounds + 1 or less when it is over
    acting,         \* the side and the general whose turn it is
    dealt,          \* dealt[s]: the damage side s did, summed over report.rounds
    result,         \* BattleReport::Result, "none" until the end
    wild            \* a general was read from an empty vector

battleVars == <<generals, troops, initial, round, acting, dealt, result, wild>>

\* The int members of General and BattleConfig; an army is not negative.
BattleAssumption ==
    /\ Armies \subseteq Nat /\ Lines \subseteq Nat /\ MaxRounds \in Nat
    /\ Traits \subseteq [force : Int, intelligence : Int, command : Int, speed : Int, skill : Int]
    /\ BaseDamage \in Int /\ Factors \subseteq Int

Side == {"attacker", "defender"}
Other(s) == CHOOSE o \in Side : o # s
Trunc(n, d) == IF n >= 0 THEN n \div d ELSE -((-n) \div d)

\* check_dodge and check_critical: the chance in percent; above 0 both outcomes can be drawn.
Chance(own, other, most) == IF own + other <= 0 THEN 0 ELSE (own * most) \div (own + other)
Drawn(chance) == IF chance > 0 THEN BOOLEAN ELSE {FALSE}

critical_multiplier == 150

skill_damage(g) == (g.intelligence * g.skill * 3 * 50) \div 200

\* calculate_damage(g, target, skill) with the outcomes drawn: at least 1.
calculate_damage(g, target, skill, factor, dodge, critical) ==
    LET force == (g.force - target.command \div 2) * 2
        swing == Trunc((BaseDamage + force + (IF skill THEN skill_damage(g) ELSE 0)) * factor, 100)
        grazed == IF dodge THEN Trunc(swing * 3, 10) ELSE swing
        final == IF critical THEN grazed * critical_multiplier ELSE grazed
    IN IF final > 1 THEN final ELSE 1

Damages(g, target) ==
    {calculate_damage(g, target, skill, factor, dodge, critical) :
        skill \in BOOLEAN, factor \in Factors,
        dodge \in Drawn(Chance(target.speed, g.force, 20)),
        critical \in Drawn(Chance(g.force, target.speed, 30))}

TypeOK ==
    /\ troops \in [Side -> Int] /\ initial \in [Side -> Armies] /\ dealt \in [Side -> Nat]
    /\ round \in 1..MaxRounds + 1
    /\ acting \in [side : Side, at : Nat \ {0}]
    /\ result \in {"none", "ATTACKER_WIN", "DEFENDER_WIN", "DRAW"} /\ wild \in BOOLEAN

Init ==
    /\ generals \in [Side -> UNION {[1..n -> Traits] : n \in Lines}]
    /\ initial \in [Side -> Armies]
    /\ troops = initial
    /\ round = 1 /\ acting = [side |-> "attacker", at |-> 1]
    /\ dealt = [s \in Side |-> 0]
    /\ result = "none" /\ wild = FALSE

-----------------------------------------------------------------------------
MayStrike(s) ==
    /\ result = "none" /\ round <= MaxRounds
    /\ acting.side = s /\ acting.at <= Len(generals[s])
    /\ \A o \in Side : troops[o] > 0

\* A plausible bug: the damage is not limited to the troops that are left.
StrikeUnlimited(s) ==
    /\ MayStrike(s) /\ generals[Other(s)] # <<>>
    /\ \E target \in Range(generals[Other(s)]) : \E damage \in Damages(generals[s][acting.at], target) :
           /\ troops' = [troops EXCEPT ![Other(s)] = @ - damage]
           /\ dealt' = [dealt EXCEPT ![s] = @ + damage]
    /\ acting' = [acting EXCEPT !.at = @ + 1]
    /\ UNCHANGED <<generals, initial, round, result, wild>>

\* One general's action: the target's general sets the damage, the side loses the troops.
Strike(s) ==
    /\ MayStrike(s) /\ generals[Other(s)] # <<>>
    /\ \E target \in Range(generals[Other(s)]) : \E damage \in Damages(generals[s][acting.at], target) :
           LET actual == IF damage < troops[Other(s)] THEN damage ELSE troops[Other(s)]
           IN /\ troops' = [troops EXCEPT ![Other(s)] = @ - actual]
              /\ dealt' = [dealt EXCEPT ![s] = @ + actual]
    /\ acting' = [acting EXCEPT !.at = @ + 1]
    /\ UNCHANGED <<generals, initial, round, result, wild>>

\* The other side has no general: its vector is read at index 0 all the same.
\* What follows is undefined; the battle is not followed any further.
StrikeNobody(s) ==
    /\ MayStrike(s) /\ generals[Other(s)] = <<>>
    /\ wild' = TRUE /\ result' = "DRAW"
    /\ UNCHANGED <<generals, troops, initial, round, acting, dealt>>

\* The loop over the attacker's generals ends; the defender strikes if anything is left of it.
Turn ==
    /\ result = "none" /\ round <= MaxRounds /\ acting.side = "attacker" /\ ~MayStrike("attacker")
    /\ acting' = [side |-> "defender", at |-> 1]
    /\ UNCHANGED <<generals, troops, initial, round, dealt, result, wild>>

EndRound ==
    /\ result = "none" /\ round <= MaxRounds /\ acting.side = "defender" /\ ~MayStrike("defender")
    /\ round' = IF \E s \in Side : troops[s] <= 0 THEN MaxRounds + 1 ELSE round + 1
    /\ acting' = [side |-> "attacker", at |-> 1]
    /\ UNCHANGED <<generals, troops, initial, dealt, result, wild>>

Report ==
    /\ result = "none" /\ round = MaxRounds + 1
    /\ result' = IF troops["attacker"] > troops["defender"] THEN "ATTACKER_WIN"
                 ELSE IF troops["defender"] > troops["attacker"] THEN "DEFENDER_WIN" ELSE "DRAW"
    /\ UNCHANGED <<generals, troops, initial, round, acting, dealt, wild>>

Next == (\E s \in Side : Strike(s) \/ StrikeNobody(s)) \/ Turn \/ EndRound \/ Report

Spec == Init /\ [][Next]_battleVars

-----------------------------------------------------------------------------
(***************************************************************************)
(* The report adds up: what a side lost is what the actions of the rounds  *)
(* say the other did to it, nobody loses more troops than it brought, and  *)
(* a side that is wiped out does not win.                                  *)
(***************************************************************************)
ReportAddsUp ==
    \A s \in Side :
        /\ troops[s] >= 0 /\ troops[s] = initial[s] - dealt[Other(s)]
        /\ troops[s] = 0 => result # (IF s = "attacker" THEN "ATTACKER_WIN" ELSE "DEFENDER_WIN")

(***************************************************************************)
(* Does not hold: critical_multiplier is commented as one and a half times *)
(* the damage, and calculate_damage multiplies by the 150 it returns.      *)
(***************************************************************************)
CriticalIsHalfMore ==
    \A s \in Side : \A g \in Range(generals[s]), target \in Range(generals[Other(s)]) :
        \A skill, dodge \in BOOLEAN, factor \in Factors :
            2 * calculate_damage(g, target, skill, factor, dodge, TRUE)
                <= 3 * calculate_damage(g, target, skill, factor, dodge, FALSE) + 1

\* Does not hold: a general always has a target. execute indexes an empty vector of generals.
TargetExists == ~wild
=============================================================================
