---------------------------- MODULE LoadBalancer ----------------------------
(***************************************************************************)
(* loadbalance::RoundRobinLoadBalancer, RandomLoadBalancer and             *)
(* WeightedRoundRobinLoadBalancer                                          *)
(* (include/chwell/loadbalance/load_balancer.h,                            *)
(* src/loadbalance/load_balancer.cpp).  Every method is one critical       *)
(* section of mutex_.  The list of instances is fetched from the service   *)
(* discovery when it is empty and is kept from then on, for whatever       *)
(* service is asked; what the discovery lists changes meanwhile.           *)
(* strategy_ is stored and never used.                                     *)
(***************************************************************************)
EXTENDS Integers, Functions, SequencesExt

CONSTANTS
    Backend,    \* instance ids, natural numbers so that they have an order
    serviceOf,  \* the service of an instance, its service_id
    Balancers,  \* classes that are used: a subset of {"round", "random", "weighted"}
    MaxWeight,  \* set_weight is called with weights up to this
    CursorMod   \* current_index_ is kept modulo this common multiple of all list lengths

\* What the code's types and the configuration give; weights are not negative.
BalancerAssumption ==
    /\ IsFiniteSet(Backend) /\ Backend \subseteq Nat
    /\ DOMAIN serviceOf = Backend
    /\ Balancers \subseteq {"round", "random", "weighted"} /\ MaxWeight \in Nat \ {0}
    /\ CursorMod \in Nat \ {0} /\ \A n \in 1..Cardinality(Backend) : CursorMod % n = 0

VARIABLES
    balancer,   \* the class of the balancer
    listed,     \* the instances that discover_services finds alive
    list,       \* instances_
    cursor,     \* current_index_
    weights,    \* weights_: the ones that were set
    current,    \* current_weights_: the ones that exist
    picks       \* history: selections in the present cycle; <<>> while there is none

vars == <<balancer, listed, list, cursor, weights, current, picks>>

Init ==
    /\ balancer \in Balancers
    /\ listed = Backend
    /\ list = <<>> /\ cursor = 0 /\ weights = <<>> /\ current = <<>>
    /\ picks = <<>>

get_weight(i) == IF i \in DOMAIN weights THEN weights[i] ELSE 1

Ascending(S) == {s \in SetToSeqs(S) : \A a, b \in DOMAIN s : a < b => s[a] < s[b]}

\* discover_services: the live instances of service s.
Live(s) == {i \in listed : serviceOf[i] = s}

\* What select_instance finds in instances_, of whatever service, or fetches.
\* The discovery gives the instances in no particular order; the weighted
\* balancer sorts them.
Fetched(s) ==
    IF list # <<>> THEN {list}
    ELSE IF balancer = "weighted" THEN Ascending(Live(s)) ELSE SetToSeqs(Live(s))

ServiceId == {serviceOf[i] : i \in Backend}

-----------------------------------------------------------------------------
\* The current weight of every instance of l after the increments.
Raised(l) ==
    [i \in DOMAIN current \cup ToSet(l) |->
        (IF i \in DOMAIN current THEN current[i] ELSE 0) + (IF i \in ToSet(l) THEN get_weight(i) ELSE 0)]

\* Mutant of Best: the weight alone counts.
BestByWeight(l, w) == CHOOSE a \in DOMAIN l : \A b \in DOMAIN l : get_weight(l[b]) <= get_weight(l[a])

\* The first position with the largest current weight.
Best(l, w) ==
    CHOOSE a \in DOMAIN l : \A b \in DOMAIN l : w[l[b]] < w[l[a]] \/ (w[l[b]] = w[l[a]] /\ a <= b)

TotalWeight(l) == SumFunction([a \in DOMAIN l |-> get_weight(l[a])])

\* Selections one cycle of the list is made of, and the share of an instance.
Share(l, i) == IF balancer = "weighted" /\ Len(l) > 1 THEN get_weight(i) ELSE 1
CycleLength(l) == SumFunction([a \in DOMAIN l |-> Share(l, l[a])])

\* The current weights favour nobody.
Level == \A i \in DOMAIN current : current[i] = 0

\* History: a cycle begins where the last one is complete or, if there is none,
\* where the current weights are level.
Count(l, i) ==
    LET zero == [x \in ToSet(l) |-> 0]
        begins == IF picks = <<>> THEN Level ELSE SumFunction(picks) = CycleLength(l)
        seen == IF begins THEN zero ELSE picks
    IN  picks' = IF seen = <<>> THEN <<>> ELSE [seen EXCEPT ![i] = @ + 1]

\* select_instance of the round robin.
SelectRoundRobin(s) ==
    /\ balancer = "round"
    /\ \E l \in Fetched(s) \ {<<>>} :
           /\ list' = l
           /\ cursor' = (cursor + 1) % CursorMod
           /\ Count(l, l[(cursor % Len(l)) + 1])
    /\ UNCHANGED <<balancer, listed, weights, current>>

SelectRandom(s) ==
    /\ balancer = "random"
    /\ \E l \in Fetched(s) \ {<<>>} : list' = l
    /\ UNCHANGED <<balancer, listed, cursor, weights, current, picks>>

\* select_instance of the weighted round robin: a single instance is taken
\* at once, and no instance when the weights add up to nothing.
SelectWeighted(s) ==
    /\ balancer = "weighted"
    /\ \E l \in Fetched(s) \ {<<>>} :
           LET w == Raised(l)
               i == l[Best(l, w)]
           IN  /\ list' = l
               /\ CASE Len(l) = 1         -> UNCHANGED current /\ Count(l, l[1])
                    [] Len(l) > 1 /\ TotalWeight(l) <= 0 ->
                           /\ current' = [x \in DOMAIN w |-> IF x \in DOMAIN current THEN current[x] ELSE 0]
                           /\ UNCHANGED picks
                    [] OTHER              -> current' = [w EXCEPT ![i] = @ - TotalWeight(l)] /\ Count(l, i)
    /\ UNCHANGED <<balancer, listed, cursor, weights>>

\* The caller hands over a list, for instance what the discovery gives now.
update_instances(l) ==
    /\ list' = l
    /\ current' = IF balancer = "weighted" THEN <<>> ELSE current
    /\ picks' = [x \in ToSet(l) |-> 0]
    /\ UNCHANGED <<balancer, listed, cursor, weights>>

\* A weight changes and the current weights stay as they are: the cycle under
\* way ends, and the next one begins when they are level.
set_weight(i, w) ==
    /\ weights' = [x \in DOMAIN weights \cup {i} |-> IF x = i THEN w ELSE weights[x]]
    /\ picks' = IF balancer = "weighted" /\ list # <<>> THEN <<>> ELSE picks
    /\ UNCHANGED <<balancer, listed, list, cursor, current>>

\* Instances register, time out or leave: discover_services finds others.
Relist == \E S \in SUBSET Backend : listed' = S /\ UNCHANGED <<balancer, list, cursor, weights, current, picks>>

Next ==
    \/ \E s \in ServiceId : SelectRoundRobin(s) \/ SelectRandom(s) \/ SelectWeighted(s)
    \/ \E s \in ServiceId : \E l \in SetToSeqs(Live(s)) : update_instances(l)
    \/ \E i \in Backend, w \in 0..MaxWeight : set_weight(i, w)
    \/ Relist

Spec == Init /\ [][Next]_vars

-----------------------------------------------------------------------------
TypeOK ==
    /\ balancer \in Balancers /\ listed \subseteq Backend
    /\ list \in Seq(Backend) /\ Len(list) = Cardinality(ToSet(list))
    /\ cursor \in 0..(CursorMod - 1)
    /\ DOMAIN weights \subseteq Backend /\ DOMAIN current \subseteq ToSet(list)
    /\ picks = <<>> \/ picks \in [ToSet(list) -> Nat]

\* While list and weights stay as they are, every instance is selected its
\* share of a cycle, never more often: once by the round robin, wherever the
\* cursor is, and as often as its weight by the weighted one, from wherever
\* the current weights are level. After a set_weight in the middle of a cycle
\* they are not; even so they add up to nothing, and no instance is ever ahead
\* of its share by a whole cycle of the largest weights.
FairCycle ==
    /\ picks # <<>> =>
           \A i \in DOMAIN picks :
               /\ balancer # "random" => picks[i] <= Share(list, i)
               /\ balancer # "random" /\ SumFunction(picks) = CycleLength(list) => picks[i] = Share(list, i)
    /\ SumFunction(current) = 0
    /\ \A i \in DOMAIN current : current[i] + Len(list) * MaxWeight > 0

\* Does not hold: a weight that is set counts from the next selection on, as
\* in a cycle that begins. With weights 3 and 1 two selections leave -2 and 2;
\* then 2 instead of 3 gives the second instance two of the next three.
SetWeightBegins == [][weights' # weights => \A i \in DOMAIN current : current'[i] = 0]_vars

\* Does not hold: the list only has instances that the discovery still lists.
\* It is fetched once and never again while it is not empty.
ListIsFresh == ToSet(list) \subseteq listed

\* Does not hold: whoever asks for a service is given an instance of it. The
\* list that was fetched for one service answers for every other.
AskedIsGiven ==
    [][\A s \in ServiceId : SelectRoundRobin(s) \/ SelectRandom(s) \/ SelectWeighted(s) =>
           \A i \in ToSet(list') : serviceOf[i] = s]_vars
=============================================================================
