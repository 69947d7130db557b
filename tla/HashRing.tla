------------------------------ MODULE HashRing ------------------------------
(***************************************************************************)
(* ConsistentHashRing of aim/common/hashring.py, in several instances:     *)
(* every agent builds its own, and all have to give a key to the same      *)
(* nodes.                                                                  *)
(*                                                                         *)
(* The code keeps a list of stars sorted by their hash, stars of one hash  *)
(* in the order in which they came.  Such a list is here a function: for   *)
(* each hash that has stars, the sequence of their nodes.                  *)
(*                                                                         *)
(* MD5 is represented by tables: StarHash[n] has the hashes of             *)
(* str(n) + str(x) for x = 0, 1, ..., and KeyHash[k] that of the key k.    *)
(* The stars of one node are distinct strings, and have distinct hashes.   *)
(* Those of two nodes need not be ("n" with "10" and "n1" with "0"): the   *)
(* ring may have several stars of one hash.                                *)
(***************************************************************************)
EXTENDS Naturals, Sequences, FiniteSets

CONSTANTS Instances, \* instances of the class
          Nodes,     \* identifiers of nodes
          Weights,   \* weights of a node (None counts as 1, default_weight)
          Vnodes,    \* stars of a node of weight 1
          Replicas,  \* number of nodes that serve a key
          HashSpace, \* number of hashes
          StarHash,
          RingKeys,  \* keys that are assigned
          KeyHash

ASSUME RingAssumption ==
    /\ Vnodes \in Nat \ {0} /\ Replicas \in Nat \ {0} /\ HashSpace \in Nat
    /\ Weights \subseteq Nat \ {0}
    /\ \A n \in Nodes :
          /\ StarHash[n] \in Seq(0..(HashSpace - 1))
          /\ \A w \in Weights : Vnodes * w <= Len(StarHash[n])
          /\ \A x, y \in DOMAIN StarHash[n] :
                StarHash[n][x] = StarHash[n][y] => x = y
    /\ KeyHash \in [RingKeys -> 0..(HashSpace - 1)]

VARIABLES nodes, \* nodes[i], _nodes: the weight of each node of the ring
          ring   \* ring[i], _ring: the nodes of the stars of each hash

ringVars == <<nodes, ring>>

\* _hashi: the hashes of the stars of a node.
Hashi(n, w) == {StarHash[n][x] : x \in 1..(Vnodes * w)}

\* bisect.insort of the stars of a node: after the stars that are equal.
WithNode(r, n, w) ==
    [h \in DOMAIN r \cup Hashi(n, w) |->
        IF h \notin Hashi(n, w) THEN r[h]
        ELSE IF h \in DOMAIN r THEN Append(r[h], n) ELSE <<n>>]

\* list.remove(Star(x)) for the stars of a node: the first star that is equal goes,
\* whatever its node.
WithoutNode(r, n, w) ==
    LET gone == {h \in DOMAIN r \cap Hashi(n, w) : Len(r[h]) = 1}
    IN  [h \in DOMAIN r \ gone |-> IF h \in Hashi(n, w) THEN Tail(r[h]) ELSE r[h]]

-----------------------------------------------------------------------------
(* assign_key, on a ring that is not empty.                                *)

\* Fault for the mutants: the hash is taken modulo the number of stars.
PositionModulo(r, k) ==
    CHOOSE h \in DOMAIN r :
        Cardinality({g \in DOMAIN r : g < h}) = KeyHash[k] % Cardinality(DOMAIN r)

\* bisect.bisect and the turn of the ring: the first star after the key.
Position(r, k) ==
    LET after == {h \in DOMAIN r : h > KeyHash[k]}
        among == IF after = {} THEN DOMAIN r ELSE after
    IN  CHOOSE h \in among : \A g \in among : h <= g

\* The stars, as places of the list: a hash and an index among its stars.
Places(r) == UNION {{h} \X DOMAIN r[h] : h \in DOMAIN r}

\* In anti clockwise motion from the star <<p, 1>> the list is gone through from
\* there to its beginning, and then from its end.
Passed(p, s) == s[1] < p \/ s = <<p, 1>>

Sooner(p, s, t) ==
    IF Passed(p, s) # Passed(p, t) THEN Passed(p, s)
    ELSE s[1] > t[1] \/ (s[1] = t[1] /\ s[2] > t[2])

\* Fault for the mutants: a node is taken again for each of its stars.
OthersRepeated(r, given) == Places(r)

\* The stars whose node is not in the result yet.
Others(r, given) ==
    {s \in Places(r) : \A x \in DOMAIN given : given[x] # r[s[1]][s[2]]}

\* The result grows by the node of the first such star that is met, if any.
Longer(r, p, given) ==
    IF Others(r, given) = {} THEN given
    ELSE LET s == CHOOSE s \in Others(r, given) :
                     \A t \in Others(r, given) \ {s} : Sooner(p, s, t)
         IN  Append(given, r[s[1]][s[2]])

\* The node of the star that follows the key, and the nodes met from there, up to
\* the number of replicas.
AssignKey(r, k) ==
    LET p == Position(r, k)
        given[x \in Nat] == IF x = 0 THEN <<r[p][1]>> ELSE Longer(r, p, given[x - 1])
    IN  given[Replicas - 1]

-----------------------------------------------------------------------------
EmptyRing == [h \in {} |-> <<>>]

RingInit ==
    /\ nodes = [i \in Instances |-> [n \in {} |-> 0]]
    /\ ring = [i \in Instances |-> EmptyRing]

\* Fault for the mutants: the stars of the old weight stay.
AddNodeTwice(i, n, w) ==
    /\ ring' = [ring EXCEPT ![i] = WithNode(ring[i], n, w)]
    /\ nodes' = [nodes EXCEPT ![i] = [m \in DOMAIN nodes[i] \cup {n} |->
                                         IF m = n THEN w ELSE nodes[i][m]]]

\* add_node: a node that is there already is removed first (its weight may have
\* changed).  add_nodes does this for one node after the other.
AddNode(i, n, w) ==
    /\ ring' = [ring EXCEPT ![i] =
                   WithNode(IF n \in DOMAIN nodes[i]
                            THEN WithoutNode(ring[i], n, nodes[i][n])
                            ELSE ring[i], n, w)]
    /\ nodes' = [nodes EXCEPT ![i] = [m \in DOMAIN nodes[i] \cup {n} |->
                                         IF m = n THEN w ELSE nodes[i][m]]]

RemoveNode(i, n) ==
    /\ n \in DOMAIN nodes[i]
    /\ ring' = [ring EXCEPT ![i] = WithoutNode(ring[i], n, nodes[i][n])]
    /\ nodes' = [nodes EXCEPT ![i] = [m \in DOMAIN nodes[i] \ {n} |-> nodes[i][m]]]

RingNext ==
    \E i \in Instances, n \in Nodes :
        (\E w \in Weights : AddNode(i, n, w)) \/ RemoveNode(i, n)

RingSpec == RingInit /\ [][RingNext]_ringVars

-----------------------------------------------------------------------------
(* Properties.                                                             *)

\* The stars of distinct nodes are distinct, as they are when all names have the
\* same length.
StarsApart ==
    \A m, n \in Nodes :
        \A x \in DOMAIN StarHash[m], y \in DOMAIN StarHash[n] :
            StarHash[m][x] = StarHash[n][y] => m = n

\* Every instance has nodes with weights, and stars of these nodes.
RingTypeOK ==
    \A i \in Instances :
        /\ DOMAIN nodes[i] \subseteq Nodes
        /\ \A n \in DOMAIN nodes[i] : nodes[i][n] \in Weights
        /\ \A h \in DOMAIN ring[i] :
              /\ h \in 0..(HashSpace - 1)
              /\ ring[i][h] # <<>> /\ ring[i][h] \in Seq(Nodes)

\* The class "guarantees is results to be reproducible by different instances
\* given the same configuration" (hashring.py:54): the assignment of a key does
\* not depend on the order in which the nodes came to the ring, nor on the nodes
\* and weights that it had before.
Reproducible ==
    \A i, j \in Instances :
        nodes[i] = nodes[j] =>
            \/ DOMAIN ring[i] = {} /\ DOMAIN ring[j] = {}
            \/ /\ DOMAIN ring[i] # {} /\ DOMAIN ring[j] # {}
               /\ \A k \in RingKeys : AssignKey(ring[i], k) = AssignKey(ring[j], k)

\* Once there are nodes, a key is given to as many distinct ones as asked for, or
\* to all of them.
EnoughReplicas ==
    \A i \in Instances :
        DOMAIN nodes[i] # {} =>
            \A k \in RingKeys :
                LET given == AssignKey(ring[i], k)
                IN  /\ \A x, y \in DOMAIN given : given[x] = given[y] => x = y
                    /\ \A x \in DOMAIN given : given[x] \in DOMAIN nodes[i]
                    /\ \/ Len(given) = Replicas
                       \/ /\ Len(given) < Replicas
                          /\ \A n \in DOMAIN nodes[i] :
                                \E x \in DOMAIN given : given[x] = n

\* Consistent hashing: a node that comes takes keys from the others and moves no
\* key between them; one that goes leaves the keys of the others alone.
KeyStays(old, new, was, is) ==
    \/ new = old
    \/ new \notin DOMAIN was
    \/ old \notin DOMAIN is
    \/ was[new] # is[new]
    \/ was[old] # is[old]

FewKeysMove ==
    [][\A i \in Instances, k \in RingKeys :
          DOMAIN ring[i] # {} /\ DOMAIN ring'[i] # {} =>
              KeyStays(AssignKey(ring[i], k)[1], AssignKey(ring'[i], k)[1],
                       nodes[i], nodes'[i])]_ringVars
=============================================================================
