---------------------------- MODULE CrossListAoi ----------------------------
(***************************************************************************)
(* CrossListAoi (src/src/aoi/aoi.cpp): entities threaded on two doubly     *)
(* linked lists, one in the order of x and one in the order of y. A view   *)
(* is read off the x list. The modifiers and the overload that takes a     *)
(* watcher hold mutex_; the overload that takes a position does not, so it *)
(* is a walk of several steps between which the lists change.              *)
(***************************************************************************)
EXTENDS Integers, FiniteSets, SequencesExt

CONSTANTS
    Node,           \* entity ids
    Place,          \* the positions <<x, y>> callers pass
    Radius,         \* config_.view_range
    None            \* the null pointer

\* Holds of the constants of every instance.
ListAssumption ==
    /\ IsFiniteSet(Node) /\ None \notin Node
    /\ Place \subseteq Int \X Int /\ None \notin Place /\ Radius \in Int

VARIABLES
    nodes,          \* nodes_: id -> position, None when there is no node
    head,           \* head[1], head[2]: head_x_, head_y_
    next, prev,     \* next[a][n]: the pointers of node n on list a
    walk            \* the caller of the unlocked overload: where it looks from
                    \* and the node it is about to read

listVars == <<nodes, head, next, prev, walk>>

Axis == {1, 2}
Linked == {n \in Node : nodes[n] # None}
Idle == [from |-> None, at |-> None]
InRange(p, q) == \A a \in Axis : p[a] - Radius <= q[a] /\ q[a] <= p[a] + Radius

TypeOK ==
    /\ nodes \in [Node -> Place \cup {None}]
    /\ head \in [Axis -> Node \cup {None}]
    /\ {next, prev} \subseteq [Axis -> [Node -> Node \cup {None}]]
    /\ walk \in [from : Place \cup {None}, at : Node \cup {None}]

Init ==
    /\ nodes = [n \in Node |-> None]
    /\ head = [a \in Axis |-> None]
    /\ next = [a \in Axis |-> [n \in Node |-> None]]
    /\ prev = next
    /\ walk = Idle

-----------------------------------------------------------------------------
\* The nodes of a list, from its head through the next pointers.
Order(h, nx) ==
    CHOOSE o \in BoundedSeq(Node, Cardinality(Node)) :
        /\ IF o = <<>> THEN h = None ELSE o[1] = h
        /\ \A i \in DOMAIN o : nx[o[i]] = IF i = Len(o) THEN None ELSE o[i + 1]

\* A plausible bug: a node goes behind the head whatever its key is.
InsertAfterHead(l, a, n, ps) ==
    IF l.h = None THEN [l EXCEPT !.h = n]
    ELSE [h |-> l.h,
          nx |-> [m \in Node |-> IF m = n THEN l.nx[l.h] ELSE IF m = l.h THEN n ELSE l.nx[m]],
          pv |-> [m \in Node |-> IF m = n THEN l.h ELSE IF m = l.nx[l.h] THEN n ELSE l.pv[m]]]

(***************************************************************************)
(* insert_to_x_list and insert_to_y_list on the list l = [h, nx, pv] with  *)
(* the positions ps: before the first node that is not below the new one.  *)
(* An empty list takes the node as its head and leaves its pointers alone. *)
(***************************************************************************)
Insert(l, a, n, ps) ==
    IF l.h = None THEN [l EXCEPT !.h = n]
    ELSE LET o == Order(l.h, l.nx)
             below == {i \in DOMAIN o : \A j \in 1..i : ps[o[j]][a] < ps[n][a]}
             before == IF below = {} THEN None ELSE o[Cardinality(below)]
             curr == IF before = None THEN l.h ELSE l.nx[before]
         IN [h |-> IF before = None THEN n ELSE l.h,
             nx |-> [m \in Node |-> IF m = n THEN curr ELSE IF m = before THEN n ELSE l.nx[m]],
             pv |-> [m \in Node |-> IF m = n THEN before ELSE IF m = curr THEN n ELSE l.pv[m]]]

\* remove_from_lists leaves the pointers of the node itself as they were.
remove_from_lists(l, n) ==
    LET p == l.pv[n]
        x == l.nx[n]
    IN [h |-> IF p = None THEN x ELSE l.h,
        nx |-> [m \in Node |-> IF m = p THEN x ELSE l.nx[m]],
        pv |-> [m \in Node |-> IF m = x THEN p ELSE l.pv[m]]]

List(a) == [h |-> head[a], nx |-> next[a], pv |-> prev[a]]

SetLists(l) ==
    /\ head' = [a \in Axis |-> l[a].h]
    /\ next' = [a \in Axis |-> l[a].nx]
    /\ prev' = [a \in Axis |-> l[a].pv]

Fresh(l, n) == [l EXCEPT !.nx[n] = None, !.pv[n] = None]

add_entity(n, p) ==
    /\ n \notin Linked
    /\ nodes' = [nodes EXCEPT ![n] = p]
    /\ SetLists([a \in Axis |-> Insert(Fresh(List(a), n), a, n, nodes')])
    /\ UNCHANGED walk

\* The node is destroyed with its entry of nodes_.
remove_entity(n) ==
    /\ n \in Linked
    /\ nodes' = [nodes EXCEPT ![n] = None]
    /\ SetLists([a \in Axis |-> Fresh(remove_from_lists(List(a), n), n)])
    /\ UNCHANGED walk

update_entity(n, p) ==
    /\ n \in Linked
    /\ nodes' = [nodes EXCEPT ![n] = p]
    /\ SetLists([a \in Axis |-> Insert(remove_from_lists(List(a), n), a, n, nodes')])
    /\ UNCHANGED walk

\* get_entities_in_view(x, y) as the overload with a watcher runs it, under the lock.
get_entities_in_view(p) ==
    LET o == Order(head[1], next[1])
    IN {o[i] : i \in {j \in DOMAIN o : /\ \A k \in 1..j : nodes[o[k]][1] <= p[1] + Radius
                                       /\ InRange(p, nodes[o[j]])}}

\* The same loop without the lock: one node a step; past the view or the list it returns.
WalkStart(p) ==
    /\ walk.from = None
    /\ walk' = [from |-> p, at |-> head[1]]
    /\ UNCHANGED <<nodes, head, next, prev>>

WalkStep ==
    /\ walk.from # None
    /\ walk' = IF walk.at = None \/ walk.at \notin Linked THEN Idle
               ELSE IF nodes[walk.at][1] > walk.from[1] + Radius THEN Idle
               ELSE [walk EXCEPT !.at = next[1][walk.at]]
    /\ UNCHANGED <<nodes, head, next, prev>>

Next ==
    \/ \E n \in Node : remove_entity(n) \/ \E p \in Place : add_entity(n, p) \/ update_entity(n, p)
    \/ \E p \in Place : WalkStart(p)
    \/ WalkStep

Spec == Init /\ [][Next]_listVars

-----------------------------------------------------------------------------
(***************************************************************************)
(* The break of get_entities_in_view never hides an entity: after any      *)
(* sequence of add_entity, update_entity and remove_entity the locked      *)
(* query returns exactly the entities within view_range of the position.   *)
(***************************************************************************)
ViewExact ==
    \A p \in Place : get_entities_in_view(p) = {n \in Linked : InRange(p, nodes[n])}

(***************************************************************************)
(* Does not hold: the walk never stands on a destroyed node. The overload  *)
(* get_entities_in_view(int, int) takes no lock, so remove_entity can free *)
(* the node it is about to read.                                           *)
(***************************************************************************)
WalksLiveNodes == walk.at # None => walk.at \in Linked
=============================================================================
