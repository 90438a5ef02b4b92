---------------------------- MODULE NodeRegistry ----------------------------
(***************************************************************************)
(* cluster::NodeRegistry (include/chwell/cluster/node_registry.h) and the  *)
(* loadbalance::ConsistentHashLoadBalancer it selects nodes with           *)
(* (src/loadbalance/consistent_hash.cpp).  Every method of the registry is *)
(* one critical section.                                                   *)
(*                                                                         *)
(* The hash is any function: hashOf gives the places of a node's virtual   *)
(* nodes on the ring.  A ring is the set of its virtual nodes, each a pair *)
(* of place and node: a node that is added twice is in the vector twice,   *)
(* which neither the selection nor the removal can tell.                   *)
(***************************************************************************)
EXTENDS Naturals, FiniteSetsExt

CONSTANTS
    Server,     \* node ids
    ServerType, \* values of node_type
    hashOf,     \* hashOf[n]: the hashes of the virtual nodes of n
    Place       \* the values of the hash: a finite set of naturals

\* Virtual nodes of different nodes do not collide (std::sort would leave the
\* order of equal hashes open).
HashAssumption ==
    /\ Place \subseteq Nat
    /\ hashOf \in [Server -> (SUBSET Place) \ {{}}]
    /\ \A m, n \in Server : m # n => hashOf[m] \cap hashOf[n] = {}

VARIABLES
    nodes,  \* nodes_: type and online of every node that was ever entered
    ring    \* service_ring_ (and service_instances_, which has the same nodes)

vars == <<nodes, ring>>

Group == ServerType \cup {"__all__"}

Init == nodes = <<>> /\ ring = [g \in Group |-> {}]

Members(r) == {v[2] : v \in r}

-----------------------------------------------------------------------------
add_instance(r, n) == r \cup (hashOf[n] \X {n})

remove_instance(r, n) == {v \in r : v[2] # n}

\* Mutant of select_instance: the hash modulo the number of nodes.
selectModulo(r, h) ==
    LET places == {v[1] : v \in r}
        at == {p \in places : Cardinality({q \in places : q < p}) = h % Cardinality(places)}
    IN  (CHOOSE v \in r : v[1] \in at)[2]

\* lower_bound: the first virtual node at or after the hash of the key, else
\* the first of all.
select_instance(r, h) ==
    LET places == {v[1] : v \in r}
        after == {p \in places : p >= h}
        at == Min(IF after # {} THEN after ELSE places)
    IN  (CHOOSE v \in r : v[1] = at)[2]

\* register_node enters the node into the ring of its type, and leaves alone
\* the ring of the type it had before.
register_node(n, t) ==
    /\ nodes' = [x \in DOMAIN nodes \cup {n} |-> IF x = n THEN [type |-> t, online |-> TRUE] ELSE nodes[x]]
    /\ ring' = [ring EXCEPT ![t] = add_instance(@, n)]

unregister_node(n) ==
    /\ n \in DOMAIN nodes
    /\ nodes' = [nodes EXCEPT ![n].online = FALSE]
    /\ ring' = [ring EXCEPT ![nodes[n].type] = remove_instance(@, n)]

\* load_from_yaml_node: everything is replaced by the nodes of the file, which
\* are entered into the ring of their type and into "__all__".  A node without
\* an id or a port is skipped.
load_from_yaml_node(file) ==
    /\ nodes' = [n \in DOMAIN file |-> [type |-> file[n], online |-> TRUE]]
    /\ ring' = [g \in Group |-> UNION {hashOf[n] \X {n} : n \in {x \in DOMAIN file : g \in {file[x], "__all__"}}}]

\* select_node_by_hash: a node, or the empty set for false.  The ring decides;
\* when the node it names is not online nobody else is tried.
select_node_by_hash(h, g) ==
    IF ring[g] = {} THEN {}
    ELSE {n \in {select_instance(ring[g], h)} : n \in DOMAIN nodes /\ nodes[n].online}

\* find_nodes_by_type; "__all__" stands for the empty type.
find_nodes_by_type(g) ==
    {n \in DOMAIN nodes : nodes[n].online /\ (g = "__all__" \/ nodes[n].type = g)}

Next ==
    \/ \E n \in Server, t \in ServerType : register_node(n, t)
    \/ \E n \in Server : unregister_node(n)
    \/ \E S \in SUBSET Server : \E file \in [S -> ServerType] : load_from_yaml_node(file)

Spec == Init /\ [][Next]_vars

-----------------------------------------------------------------------------
TypeOK ==
    /\ DOMAIN nodes \subseteq Server
    /\ \A n \in DOMAIN nodes : nodes[n] \in [type : ServerType, online : BOOLEAN]
    /\ \A g \in Group : ring[g] \subseteq Place \X Server

\* "确保节点增减时最小化数据迁移" (consistent_hash.h:13): when nodes come and go, by
\* single registrations or by a new file, a key moves only to a node that is
\* new in its group or away from one that left it.
MinimalMovement ==
    [][\A g \in Group, h \in Place :
           ring[g] # {} /\ ring'[g] # {} =>
               LET was == select_instance(ring[g], h)
                   is == select_instance(ring'[g], h)
               IN  was # is => is \notin Members(ring[g]) \/ was \notin Members(ring'[g])]_vars

\* Does not hold: a node that is selected for a type is one of its online
\* nodes, and there is one whenever the type has such a node.  A node that
\* registers under another type stays in its old ring; a node that leaves
\* stays in "__all__", and one that registers by itself never enters it.
SelectsOnlineOfType ==
    \A g \in Group, h \in Place :
        /\ select_node_by_hash(h, g) \subseteq find_nodes_by_type(g)
        /\ find_nodes_by_type(g) # {} => select_node_by_hash(h, g) # {}
=============================================================================
