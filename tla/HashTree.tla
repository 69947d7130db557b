------------------------------ MODULE HashTree ------------------------------
(***************************************************************************)
(* The structured hash tree of aim/common/hashtree/structured_tree.py: the *)
(* representation that every universe of the agent keeps of a root (an ACI *)
(* tenant, for instance), and whose diff() decides what is pushed to APIC  *)
(* and to the AIM database.                                                *)
(*                                                                         *)
(* A key of the code is a tuple of parts.  What the algorithm uses of it   *)
(* is the set of its prefixes, so keys are here the elements of a set Keys *)
(* and Anc[k] is the set of the keys that are prefixes of k, k included.   *)
(*                                                                         *)
(* SHA-256 is taken to be free of collisions: the partial hash of a node   *)
(* is what is hashed (its attributes, or the mark of a dummy), and its     *)
(* full hash is the set of <<key, partial hash>> pairs folded into it.     *)
(* full_hash is STORED in the node, as in the code, and only recomputed    *)
(* along the stack of nodes that an operation hands to                     *)
(* _recalculate_parents_stack.                                             *)
(***************************************************************************)
EXTENDS Naturals, FiniteSets

CONSTANTS Keys,      \* the keys that occur
          Anc,       \* Anc[k]: the keys that are prefixes of k, and k itself
          Attrs,     \* attribute values of a node, hashed
          DummyHash, \* _hash_attributes(key=..., _dummy=True)
          Trees      \* names of the trees: one per universe that is compared

\* Anc is the prefix relation of tuples: reflexive, transitive, antisymmetric,
\* and the prefixes of a key form a chain ...
ASSUME AncAssumption ==
    /\ Anc \in [Keys -> SUBSET Keys]
    /\ \A k \in Keys : k \in Anc[k]
    /\ \A k \in Keys : \A j \in Anc[k] : Anc[j] \subseteq Anc[k]
    /\ \A j, k \in Keys : j \in Anc[k] /\ k \in Anc[j] => j = k
    /\ \A k \in Keys : \A i, j \in Anc[k] : i \in Anc[j] \/ j \in Anc[i]

\* ... that is finite: any of its parts has a shortest key, and a key of more
\* than one part has a parent.
ASSUME DepthAssumption ==
    /\ \A k \in Keys : \A S \in SUBSET Anc[k] :
           S # {} => \E m \in S : \A i \in S : m \in Anc[i]
    /\ \A k \in Keys : Anc[k] # {k} => \E p \in Anc[k] : Anc[p] = Anc[k] \ {k}

ASSUME DummyHashAssumption == DummyHash \notin Attrs

VARIABLE tree   \* tree[n]: a function from the keys of its nodes to nodes

vars == <<tree>>

Partials == Attrs \cup {DummyHash}

Node == [dummy   : BOOLEAN,
         partial : Partials,                  \* partial_hash
         error   : BOOLEAN,
         full    : SUBSET (Keys \X Partials)] \* full_hash

IsTree(t) == DOMAIN t \subseteq Keys /\ t \in [DOMAIN t -> Node]

EmptyTree == [k \in {} |-> [dummy |-> TRUE, partial |-> DummyHash,
                            error |-> FALSE, full |-> {}]]

-----------------------------------------------------------------------------
(* Navigation.                                                             *)

\* The nodes of t at or below key k.
Below(t, k) == {j \in DOMAIN t : k \in Anc[j]}

\* c is a child of k: nothing lies between them.
IsChild(c, k) == c # k /\ Anc[c] = Anc[k] \cup {c}

\* add() refuses a key that does not start like the root of the tree.
SameRoot(t, k) == \A j \in DOMAIN t : Anc[j] \cap Anc[k] # {}

\* Faults for the mutants: only the node that was touched is hashed again; the
\* partial hashes are left out of the full hash.
RecalculateLast(t, stack) ==
    [k \in DOMAIN t |->
        IF k \notin stack \/ \E s \in stack \ {k} : k \in Anc[s] THEN t[k]
        ELSE [t[k] EXCEPT !.full =
                {<<k, t[k].partial>>}
                \cup UNION {t[c].full : c \in {c \in DOMAIN t : IsChild(c, k)}}]]

RecalculateNoPartial(t, stack) ==
    [k \in DOMAIN t |->
        IF k \notin stack THEN t[k]
        ELSE [t[k] EXCEPT !.full = {<<j>> : j \in Below(t, k)}]]

\* _recalculate_parents_stack: from the deepest node of the stack upwards, the
\* full hash of a node is computed from its partial hash and from the full
\* hashes of its children: recomputed ones for the children in the stack, the
\* stored ones for the others.
Recalculate(t, stack) ==
    [k \in DOMAIN t |->
        IF k \notin stack THEN t[k]
        ELSE LET chain == {s \in stack : k \in Anc[s]}
                 off   == {c \in DOMAIN t \ stack :
                              \E s \in chain : IsChild(c, s)}
             IN  [t[k] EXCEPT !.full =
                     {<<s, t[s].partial>> : s \in chain}
                     \cup UNION {t[c].full : c \in off}]]

\* Fault for the mutants: only the last node of the stack is considered.
RemovableLast(t, stack) ==
    {k \in stack : Below(t, k) = {k} /\ t[k].dummy}

\* The nodes of the stack that _clear_stack_from_dummies removes: going up from
\* the end of the stack, dummies that have no child left.
Removable(t, stack) ==
    {k \in stack : \A j \in Below(t, k) : j \in stack /\ t[j].dummy}

\* _clear_stack_from_dummies, then _recalculate_parents_stack on what is left.
Settle(t, stack) ==
    LET gone == Removable(t, stack)
    IN  Recalculate([k \in DOMAIN t \ gone |-> t[k]], stack \ gone)

-----------------------------------------------------------------------------
(* The operations of StructuredHashTree.                                   *)

\* Fault for the mutants: a node that is there already keeps its attributes.
AddNodeKeepsHash(t, k, a, e) ==
    LET new   == [dummy |-> FALSE, error |-> e, full |-> {},
                  partial |-> IF k \in DOMAIN t /\ ~t[k].dummy THEN t[k].partial ELSE a]
        dummy == [dummy |-> TRUE, partial |-> DummyHash, error |-> FALSE,
                  full |-> {}]
        grown == [j \in DOMAIN t \cup Anc[k] |->
                     IF j = k THEN new ELSE IF j \in DOMAIN t THEN t[j] ELSE dummy]
    IN  Recalculate(grown, Anc[k])

\* add(): missing ancestors are created as dummies (set_child keeps the ones
\* that are there), the node itself gets its hash and its error mark.
AddNode(t, k, a, e) ==
    LET dummy == [dummy |-> TRUE, partial |-> DummyHash, error |-> FALSE,
                  full |-> {}]
        grown == [j \in DOMAIN t \cup Anc[k] |->
                     IF j = k THEN [dummy |-> FALSE, partial |-> a, error |-> e,
                                    full |-> {}]
                     ELSE IF j \in DOMAIN t THEN t[j] ELSE dummy]
    IN  Recalculate(grown, Anc[k])

\* pop(): the subtree goes, then the dummies that it leaves without children.
PopNode(t, k) ==
    IF k \notin DOMAIN t THEN t
    ELSE Settle([j \in DOMAIN t \ Below(t, k) |-> t[j]], Anc[k] \ {k})

\* clear(): the node becomes a dummy and keeps its error mark and its children.
ClearNode(t, k) ==
    IF k \notin DOMAIN t THEN t
    ELSE Settle([t EXCEPT ![k].dummy = TRUE, ![k].partial = DummyHash,
                          ![k].full = {}], Anc[k])

\* include() of two nodes, the second of which add() refuses: the nodes added
\* so far are popped again.
IncludeRefused(t, k, a, e) == PopNode(AddNode(t, k, a, e), k)

-----------------------------------------------------------------------------
(* diff(): the operations that transform `other' into `self'.              *)

\* Fault for the mutants: the recursion is cut on equal partial hashes.
ReachedByPartial(self, other, k) ==
    \A j \in (Anc[k] \ {k}) \cap DOMAIN self \cap DOMAIN other :
        self[j].partial # other[j].partial

\* _diff_children reaches k: it goes below a common node only when the full
\* hashes of its two versions differ.
Reached(self, other, k) ==
    \A j \in (Anc[k] \ {k}) \cap DOMAIN self \cap DOMAIN other :
        self[j].full # other[j].full

\* _get_subtree_keys skips dummies and nodes in error, not what is below them.
Listed(n) == ~n.dummy /\ ~n.error

\* A common node that is reported: a partial hash that differs, no error mark.
Reported(self, other, k) ==
    /\ self[k].partial # other[k].partial
    /\ ~(self[k].error \/ other[k].error)

DiffRemove(self, other) ==
    {k \in DOMAIN other :
        /\ Reached(self, other, k)
        /\ IF k \in DOMAIN self
           THEN Reported(self, other, k) /\ self[k].dummy
           ELSE Listed(other[k])}

DiffAdd(self, other) ==
    {k \in DOMAIN self :
        /\ Reached(self, other, k)
        /\ IF k \in DOMAIN other
           THEN Reported(self, other, k) /\ ~self[k].dummy
           ELSE Listed(self[k])}

-----------------------------------------------------------------------------
Init == tree = [n \in Trees |-> EmptyTree]

Add(n, k, a, e) ==
    /\ SameRoot(tree[n], k)
    /\ tree' = [tree EXCEPT ![n] = AddNode(@, k, a, e)]

Pop(n, k) ==
    /\ k \in DOMAIN tree[n]
    /\ tree' = [tree EXCEPT ![n] = PopNode(@, k)]

Clear(n, k) ==
    /\ k \in DOMAIN tree[n]
    /\ tree' = [tree EXCEPT ![n] = ClearNode(@, k)]

Include(n, k, a, e, refused) ==
    /\ SameRoot(tree[n], k)
    /\ ~SameRoot(AddNode(tree[n], k, a, e), refused)
    /\ tree' = [tree EXCEPT ![n] = IncludeRefused(@, k, a, e)]

Next ==
    \E n \in Trees, k \in Keys :
        \/ \E a \in Attrs, e \in BOOLEAN :
               \/ Add(n, k, a, e)
               \/ \E r \in Keys : Include(n, k, a, e, r)
        \/ Pop(n, k)
        \/ Clear(n, k)

Spec == Init /\ [][Next]_vars

-----------------------------------------------------------------------------
(* Properties.                                                             *)

\* Every tree is a function from keys to well-formed nodes.
TypeOK ==
    /\ tree = [n \in Trees |-> tree[n]]
    /\ \A n \in Trees : IsTree(tree[n])

\* A tree is closed under prefixes: a node hangs from its parent, up to the
\* root (the path that _get_node_and_parent_stack follows exists).
Rooted(t) == \A k \in DOMAIN t : Anc[k] \subseteq DOMAIN t

\* There is one root: add() raises MultipleRootTreeError otherwise.
OneRoot(t) == \A j, k \in DOMAIN t : Anc[j] \cap Anc[k] # {}

\* The dummy mark is what the partial hash says it is, so that comparing
\* partial hashes tells a dummy from a node.
DummyHashed(t) == \A k \in DOMAIN t : t[k].dummy <=> t[k].partial = DummyHash

\* The STORED full hash of every node is the hash of its whole subtree, although
\* each operation only recomputes the hashes along one path.
FullHashed(t) ==
    \A k \in DOMAIN t :
        t[k].full = {<<j, t[j].partial>> : j \in Below(t, k)}

\* No dummy is a leaf: dummies whose children are gone go with them.
NoBarrenDummy(t) ==
    \A k \in DOMAIN t : \E j \in Below(t, k) : ~t[j].dummy

WellFormed(t) ==
    /\ Rooted(t)
    /\ OneRoot(t)
    /\ DummyHashed(t)
    /\ FullHashed(t)

\* The stored hashes are right and the shape is sound after any sequence of
\* add, pop, clear and failed include.
TreesWellFormed == \A n \in Trees : WellFormed(tree[n])

\* No operation leaves a childless dummy behind: an emptied tree has no root,
\* which is how the agent recognises a tenant that can be deleted.
NoBarrenDummies == \A n \in Trees : NoBarrenDummy(tree[n])

\* What diff() has to report, said without hashes and without pruning: the nodes
\* that differ, but for the ones marked in error on a side that has them.
LiveKeys(t) == {k \in DOMAIN t : ~t[k].dummy}

Marked(t, k) == k \in DOMAIN t /\ t[k].error

RefRemove(self, other) ==
    {k \in LiveKeys(other) \ LiveKeys(self) :
        ~Marked(self, k) /\ ~Marked(other, k)}

RefAdd(self, other) ==
    {k \in LiveKeys(self) :
        /\ k \notin LiveKeys(other) \/ self[k].partial # other[k].partial
        /\ ~Marked(self, k) /\ ~Marked(other, k)}

\* Pruning on stored full hashes loses nothing: diff() reports exactly the nodes
\* that the reference definition reports.
DiffExact ==
    \A m, n \in Trees :
        /\ DiffRemove(tree[m], tree[n]) = RefRemove(tree[m], tree[n])
        /\ DiffAdd(tree[m], tree[n]) = RefAdd(tree[m], tree[n])
=============================================================================
