-------------------------- MODULE HashTree_proofs --------------------------
(***************************************************************************)
(* Proofs about HashTree, for every set of keys, attributes and trees.     *)
(*                                                                         *)
(* The inductive invariant is Good(t) for each tree: well typed, closed    *)
(* under prefixes, one root, dummies hashed as dummies, stored full hashes *)
(* right and no dummy without a live node below it.  The heart of the      *)
(* argument is RecalculateCorrect: hashing again the nodes of one path is  *)
(* enough when the nodes off the path still store the right hash.          *)
(***************************************************************************)
EXTENDS DiffRounds, TLAPS

Content(t, k) == {<<j, t[j].partial>> : j \in Below(t, k)}

\* The nodes handed to _recalculate_parents_stack: a set of nodes of t that is
\* closed under prefixes.
IsStack(t, stack) ==
    /\ stack \subseteq DOMAIN t
    /\ \A s \in stack : Anc[s] \subseteq stack

\* Off the stack, the stored hashes are right.
HashedOff(t, stack) == \A c \in DOMAIN t \ stack : t[c].full = Content(t, c)

Good(t) == IsTree(t) /\ WellFormed(t) /\ NoBarrenDummy(t)

\* r is t without some of its dummies.
Trimmed(t, r) ==
    /\ DOMAIN r \subseteq DOMAIN t
    /\ \A k \in DOMAIN t \ DOMAIN r : t[k].dummy
    /\ \A k \in DOMAIN r : /\ r[k].dummy = t[k].dummy
                           /\ r[k].partial = t[k].partial
                           /\ r[k].error = t[k].error

\* What clear() does to a tree that has key k, hashes aside.
Cleared(t, k, r) ==
    /\ DOMAIN r \subseteq DOMAIN t
    /\ \A j \in DOMAIN t \ DOMAIN r : j = k \/ t[j].dummy
    /\ \A j \in DOMAIN r : /\ r[j].error = t[j].error
                           /\ j = k => r[j].dummy
                           /\ j # k => /\ r[j].dummy = t[j].dummy
                                       /\ r[j].partial = t[j].partial

\* What add() does to a tree, hashes aside.
Added(t, k, a, e, r) ==
    /\ DOMAIN r = DOMAIN t \cup Anc[k]
    /\ k \in DOMAIN r /\ ~r[k].dummy /\ r[k].partial = a /\ r[k].error = e
    /\ \A j \in DOMAIN t \ {k} : /\ r[j].dummy = t[j].dummy
                                 /\ r[j].partial = t[j].partial
                                 /\ r[j].error = t[j].error
    /\ \A j \in DOMAIN r \ DOMAIN t : j # k => r[j].dummy /\ ~r[j].error

-----------------------------------------------------------------------------
\* Facts about prefixes that the lemmas below use one by one.
LEMMA AncRefl == ASSUME NEW k \in Keys PROVE k \in Anc[k]
BY AncAssumption

LEMMA AncKeys == ASSUME NEW k \in Keys, NEW j \in Anc[k] PROVE j \in Keys
BY AncAssumption

LEMMA AncTrans ==
    ASSUME NEW k \in Keys, NEW j \in Anc[k], NEW i \in Anc[j] PROVE i \in Anc[k]
BY AncAssumption

LEMMA AncAnti ==
    ASSUME NEW j \in Keys, NEW k \in Keys, j \in Anc[k], k \in Anc[j]
    PROVE  j = k
BY AncAssumption

LEMMA AncChain ==
    ASSUME NEW k \in Keys, NEW i \in Anc[k], NEW j \in Anc[k]
    PROVE  i \in Anc[j] \/ j \in Anc[i]
BY AncAssumption

\* A node below k that is not on the stack lies at or below a child, off the
\* stack, of a node of the stack that is itself at or below k.
LEMMA OffStack ==
    ASSUME NEW t, DOMAIN t \subseteq Keys, Rooted(t),
           NEW stack, IsStack(t, stack),
           NEW k \in stack, NEW j \in Below(t, k), j \notin stack
    PROVE  \E c \in DOMAIN t \ stack :
              /\ j \in Below(t, c)
              /\ \E s \in stack : k \in Anc[s] /\ IsChild(c, s)
<1>1. /\ j \in Keys /\ j \in DOMAIN t /\ k \in Anc[j] /\ k \in Keys
      /\ Anc[j] \subseteq DOMAIN t /\ Anc[j] \subseteq Keys
  BY AncKeys DEF Below, IsStack, Rooted
<1> DEFINE S == Anc[j] \ stack
<1>2. S \in SUBSET Anc[j] /\ S # {}
  BY <1>1, AncRefl
<1>3. PICK m \in S : \A i \in S : m \in Anc[i]
  BY <1>1, <1>2, DepthAssumption
<1>4. m \in Keys /\ m \in Anc[j] /\ m \notin stack /\ m \in DOMAIN t
  BY <1>1, <1>3
<1>5. k \in Anc[m] /\ k # m
  <2>1. k \in Anc[m] \/ m \in Anc[k]
    BY <1>1, <1>4, AncChain
  <2>2. m \notin Anc[k]
    BY <1>4 DEF IsStack
  <2> QED BY <2>1, <2>2, <1>4
<1>6. PICK p \in Anc[m] : Anc[p] = Anc[m] \ {m}
  BY <1>4, <1>5, DepthAssumption
<1>7. p \in Keys /\ p \in Anc[p]
  BY <1>4, <1>6, AncKeys, AncRefl
<1>8. p # m
  BY <1>6, <1>7
<1>9. p \in stack
  <2>1. CASE p \in S
    <3>1. m \in Anc[p]
      BY <1>3, <2>1
    <3> QED BY <3>1, <1>6
  <2>2. CASE p \notin S
    <3>1. p \in Anc[j]
      BY <1>1, <1>4, <1>6, AncTrans
    <3> QED BY <3>1, <2>2
  <2> QED BY <2>1, <2>2
<1>10. k \in Anc[p]
  BY <1>5, <1>6
<1>11. IsChild(m, p)
  BY <1>4, <1>6, <1>8, AncRefl DEF IsChild
<1>12. j \in Below(t, m)
  BY <1>1, <1>4 DEF Below
<1> QED BY <1>4, <1>9, <1>10, <1>11, <1>12

\* What is below k: the part of the stack at or below k, and what is below the
\* children that hang off that part.
LEMMA BelowSplit ==
    ASSUME NEW t, DOMAIN t \subseteq Keys, Rooted(t),
           NEW stack, IsStack(t, stack), NEW k \in stack
    PROVE  LET chain == {s \in stack : k \in Anc[s]}
               off   == {c \in DOMAIN t \ stack : \E s \in chain : IsChild(c, s)}
           IN  Below(t, k) = chain \cup UNION {Below(t, c) : c \in off}
<1> DEFINE chain == {s \in stack : k \in Anc[s]}
           off   == {c \in DOMAIN t \ stack : \E s \in chain : IsChild(c, s)}
<1>1. ASSUME NEW j \in Below(t, k)
      PROVE  j \in chain \cup UNION {Below(t, c) : c \in off}
  <2>1. CASE j \in stack
    BY <1>1, <2>1 DEF Below
  <2>2. CASE j \notin stack
    BY <1>1, <2>2, OffStack
  <2> QED BY <2>1, <2>2
<1>2. ASSUME NEW j \in chain PROVE j \in Below(t, k)
  BY DEF Below, IsStack
<1>3. ASSUME NEW c \in off, NEW j \in Below(t, c) PROVE j \in Below(t, k)
  <2>1. PICK s \in chain : IsChild(c, s)
    OBVIOUS
  <2>2. s \in Keys /\ c \in Keys /\ j \in Keys /\ k \in Anc[s] /\ c \in Anc[j]
    BY DEF IsStack, Below
  <2>3. s \in Anc[c]
    BY <2>1, <2>2, AncRefl DEF IsChild
  <2>4. s \in Anc[j]
    BY <2>2, <2>3, AncTrans
  <2>5. k \in Anc[j]
    BY <2>2, <2>4, AncTrans
  <2> QED BY <2>5 DEF Below
<1> QED BY <1>1, <1>2, <1>3

\* _recalculate_parents_stack makes every stored hash right, and changes nothing
\* else.
LEMMA RecalculateCorrect ==
    ASSUME NEW t, IsTree(t), Rooted(t),
           NEW stack, IsStack(t, stack), HashedOff(t, stack)
    PROVE  LET r == Recalculate(t, stack)
           IN  /\ IsTree(r)
               /\ DOMAIN r = DOMAIN t
               /\ \A k \in DOMAIN t : /\ r[k].dummy = t[k].dummy
                                      /\ r[k].partial = t[k].partial
                                      /\ r[k].error = t[k].error
               /\ FullHashed(r)
<1> DEFINE r == Recalculate(t, stack)
<1> DEFINE Chain(k) == {s \in stack : k \in Anc[s]}
           Off(k) == {c \in DOMAIN t \ stack : \E s \in Chain(k) : IsChild(c, s)}
           Hash(k) == {<<s, t[s].partial>> : s \in Chain(k)}
                      \cup UNION {t[c].full : c \in Off(k)}
<1>0. DOMAIN t \subseteq Keys /\ t \in [DOMAIN t -> Node]
  BY DEF IsTree
<1>1. /\ DOMAIN r = DOMAIN t
      /\ \A k \in DOMAIN t : r[k] = IF k \notin stack THEN t[k]
                                    ELSE [t[k] EXCEPT !.full = Hash(k)]
  BY DEF Recalculate
<1>2. ASSUME NEW k \in stack PROVE Hash(k) = Content(t, k)
  <2>1. Below(t, k) = Chain(k) \cup UNION {Below(t, c) : c \in Off(k)}
    BY <1>0, BelowSplit
  <2>2. \A c \in Off(k) : t[c].full = {<<j, t[j].partial>> : j \in Below(t, c)}
    BY DEF HashedOff, Content
  <2> QED BY <2>1, <2>2 DEF Content
<1>3. \A k \in DOMAIN t : Content(t, k) \in SUBSET (Keys \X Partials)
  BY <1>0 DEF Content, Below, Node
<1>4. ASSUME NEW k \in DOMAIN t
      PROVE  /\ r[k] \in Node
             /\ r[k].dummy = t[k].dummy
             /\ r[k].partial = t[k].partial
             /\ r[k].error = t[k].error
             /\ r[k].full = Content(t, k)
  <2>1. t[k] \in Node
    BY <1>0
  <2>2. CASE k \in stack
    <3>1. r[k] = [t[k] EXCEPT !.full = Content(t, k)]
      BY <1>1, <1>2, <2>2
    <3>2. Content(t, k) \in SUBSET (Keys \X Partials)
      BY <1>3
    <3> QED BY <3>1, <3>2, <2>1 DEF Node
  <2>3. CASE k \notin stack
    BY <1>1, <2>1, <2>3 DEF HashedOff
  <2> QED BY <2>2, <2>3
<1>5. IsTree(r)
  <2>1. r = [k \in DOMAIN t |-> r[k]]
    BY DEF Recalculate
  <2> QED BY <1>0, <1>1, <1>4, <2>1 DEF IsTree
<1>6. FullHashed(r)
  <2>1. \A k \in DOMAIN t : Below(r, k) = Below(t, k)
    BY <1>1 DEF Below
  <2>2. ASSUME NEW k \in DOMAIN t
        PROVE  r[k].full = {<<j, r[j].partial>> : j \in Below(r, k)}
    <3>1. \A j \in Below(t, k) : r[j].partial = t[j].partial
      BY <1>4 DEF Below
    <3> QED BY <1>4, <2>1, <3>1 DEF Content
  <2> QED BY <1>1, <2>2 DEF FullHashed
<1> QED BY <1>1, <1>4, <1>5, <1>6

\* _clear_stack_from_dummies followed by _recalculate_parents_stack: a tree that
\* is sound but for the nodes of the stack becomes sound.
LEMMA SettleCorrect ==
    ASSUME NEW t, IsTree(t), Rooted(t), OneRoot(t), DummyHashed(t),
           NEW stack, IsStack(t, stack), HashedOff(t, stack),
           \A k \in DOMAIN t \ stack : \E j \in Below(t, k) : ~t[j].dummy
    PROVE  Good(Settle(t, stack)) /\ Trimmed(t, Settle(t, stack))
<1> DEFINE gone == Removable(t, stack)
           u == [k \in DOMAIN t \ gone |-> t[k]]
           left == stack \ gone
           r == Recalculate(u, left)
<1>0. DOMAIN t \subseteq Keys /\ t \in [DOMAIN t -> Node] /\ gone \subseteq stack
  BY DEF IsTree, Removable
<1>1. DOMAIN u = DOMAIN t \ gone /\ \A k \in DOMAIN u : u[k] = t[k]
  OBVIOUS
<1>2. ASSUME NEW a \in gone, NEW j \in Below(t, a) PROVE j \in gone
  <2>1. j \in stack /\ t[j].dummy /\ j \in Keys /\ a \in Anc[j]
    BY <1>0 DEF Removable, Below
  <2>2. ASSUME NEW i \in Below(t, j) PROVE i \in Below(t, a)
    BY <1>0, <2>1, AncTrans DEF Below
  <2> QED BY <2>1, <2>2 DEF Removable
<1>3. IsTree(u)
  BY <1>0, <1>1 DEF IsTree
<1>4. ASSUME NEW k \in DOMAIN u PROVE Anc[k] \subseteq DOMAIN u
  BY <1>1, <1>2 DEF Rooted, Below
<1>5. Rooted(u)
  BY <1>4 DEF Rooted
<1>6. IsStack(u, left)
  BY <1>1, <1>4 DEF IsStack
<1>7. ASSUME NEW c \in DOMAIN u \ left PROVE Below(u, c) = Below(t, c)
  <2>1. c \notin stack /\ c \in DOMAIN t
    BY <1>1
  <2>2. ASSUME NEW j \in Below(t, c), j \in gone PROVE FALSE
    BY <1>0, <2>1, <2>2 DEF Below, IsStack
  <2> QED BY <1>1, <2>2 DEF Below
<1>8. HashedOff(u, left)
  <2>1. ASSUME NEW c \in DOMAIN u \ left PROVE u[c].full = Content(u, c)
    <3>1. t[c].full = Content(t, c) /\ u[c] = t[c]
      BY <1>1 DEF HashedOff
    <3>2. Below(u, c) = Below(t, c)
      BY <1>7
    <3>3. \A j \in Below(u, c) : u[j] = t[j]
      BY <1>1 DEF Below
    <3> QED BY <3>1, <3>2, <3>3 DEF Content
  <2> QED BY <2>1 DEF HashedOff
<1> HIDE DEF gone, u, left
<1>9. /\ IsTree(r) /\ DOMAIN r = DOMAIN u /\ FullHashed(r)
      /\ \A k \in DOMAIN u : /\ r[k].dummy = u[k].dummy
                             /\ r[k].partial = u[k].partial
                             /\ r[k].error = u[k].error
  BY <1>3, <1>5, <1>6, <1>8, RecalculateCorrect
<1>10. Rooted(r) /\ OneRoot(r) /\ DummyHashed(r)
  BY <1>1, <1>5, <1>9 DEF Rooted, OneRoot, DummyHashed
<1>11. NoBarrenDummy(r)
  <2>1. ASSUME NEW k \in DOMAIN u, NEW j \in Below(t, k), ~t[j].dummy
        PROVE  j \in Below(r, k) /\ ~r[j].dummy
    <3>1. j \notin gone /\ j \in DOMAIN t
      BY <1>0, <2>1, AncRefl DEF gone, Removable, Below
    <3> QED BY <1>1, <1>9, <2>1, <3>1 DEF Below
  <2>2. ASSUME NEW k \in DOMAIN u PROVE \E j \in Below(t, k) : ~t[j].dummy
    <3>1. CASE k \notin stack
      BY <1>1, <3>1
    <3>2. CASE k \in stack
      <4>1. PICK j \in Below(t, k) : ~(j \in stack /\ t[j].dummy)
        BY <1>1, <3>2 DEF gone, Removable
      <4>2. CASE j \in stack
        BY <4>1, <4>2
      <4>3. CASE j \notin stack
        <5>1. PICK i \in Below(t, j) : ~t[i].dummy
          BY <4>1, <4>3 DEF Below
        <5>2. i \in Below(t, k)
          BY <1>0, <4>1, <5>1, AncTrans DEF Below
        <5> QED BY <5>1, <5>2
      <4> QED BY <4>2, <4>3
    <3> QED BY <3>1, <3>2
  <2> QED BY <1>9, <2>1, <2>2 DEF NoBarrenDummy
<1>12. Settle(t, stack) = r
  BY DEF Settle, gone, u, left
<1>13. Trimmed(t, r)
  <2>1. \A k \in gone : t[k].dummy
    BY <1>0, AncRefl DEF gone, Removable, Below, IsStack
  <2> QED BY <1>1, <1>9, <2>1 DEF Trimmed
<1> QED BY <1>9, <1>10, <1>11, <1>12, <1>13 DEF Good, WellFormed

-----------------------------------------------------------------------------
\* add() keeps a tree good.
LEMMA AddCorrect ==
    ASSUME NEW t, Good(t), NEW k \in Keys, SameRoot(t, k),
           NEW a \in Attrs, NEW e \in BOOLEAN
    PROVE  /\ Good(AddNode(t, k, a, e))
           /\ Added(t, k, a, e, AddNode(t, k, a, e))
<1> DEFINE dummy == [dummy |-> TRUE, partial |-> DummyHash, error |-> FALSE,
                     full |-> {}]
           node == [dummy |-> FALSE, partial |-> a, error |-> e, full |-> {}]
           g == [j \in DOMAIN t \cup Anc[k] |->
                    IF j = k THEN node
                    ELSE IF j \in DOMAIN t THEN t[j] ELSE dummy]
           r == Recalculate(g, Anc[k])
<1>0. /\ DOMAIN t \subseteq Keys /\ t \in [DOMAIN t -> Node]
      /\ Rooted(t) /\ OneRoot(t) /\ DummyHashed(t) /\ FullHashed(t)
      /\ NoBarrenDummy(t) /\ Anc[k] \subseteq Keys /\ k \in Anc[k]
  BY AncKeys, AncRefl DEF Good, IsTree, WellFormed
<1>1. dummy \in Node /\ node \in Node
  BY DEF Node, Partials
<1>2. /\ DOMAIN g = DOMAIN t \cup Anc[k]
      /\ g[k] = node
      /\ \A j \in DOMAIN t \ {k} : g[j] = t[j]
      /\ \A j \in Anc[k] \ DOMAIN t : j # k => g[j] = dummy
  BY <1>0
<1>3. IsTree(g)
  BY <1>0, <1>1 DEF IsTree
<1>4. Rooted(g)
  BY <1>0, <1>2, AncTrans DEF Rooted
<1>5. IsStack(g, Anc[k])
  BY <1>0, <1>2, AncTrans DEF IsStack
<1>6. OneRoot(g)
  <2>1. ASSUME NEW i \in Anc[k], NEW j \in Anc[k] PROVE Anc[i] \cap Anc[j] # {}
    BY <1>0, AncChain, AncRefl
  <2>2. ASSUME NEW i \in Anc[k], NEW j \in DOMAIN t PROVE Anc[i] \cap Anc[j] # {}
    <3>1. PICK x \in Anc[j] : x \in Anc[k]
      BY DEF SameRoot
    <3>2. CASE x \in Anc[i]
      BY <3>1, <3>2
    <3>3. CASE i \in Anc[x]
      BY <1>0, <3>1, <3>3, AncTrans, AncRefl
    <3> QED BY <3>1, <3>2, <3>3, AncChain
  <2>3. ASSUME NEW i \in DOMAIN g, NEW j \in DOMAIN g
        PROVE  Anc[i] \cap Anc[j] # {}
    <3>1. CASE i \in Anc[k] /\ j \in Anc[k]
      BY <2>1, <3>1
    <3>2. CASE i \in Anc[k] /\ j \in DOMAIN t
      BY <2>2, <3>2
    <3>3. CASE i \in DOMAIN t /\ j \in Anc[k]
      BY <2>2, <3>3
    <3>4. CASE i \in DOMAIN t /\ j \in DOMAIN t
      BY <1>0, <3>4 DEF OneRoot
    <3> QED BY <1>2, <3>1, <3>2, <3>3, <3>4
  <2> QED BY <2>3 DEF OneRoot
<1>7. DummyHashed(g)
  <2>1. a # DummyHash
    BY DummyHashAssumption
  <2> QED BY <1>0, <1>2, <2>1 DEF DummyHashed
<1>8. ASSUME NEW c \in DOMAIN g \ Anc[k]
      PROVE  /\ c \in DOMAIN t /\ g[c] = t[c] /\ Below(g, c) = Below(t, c)
             /\ \A j \in Below(t, c) : g[j] = t[j]
  <2>1. ASSUME NEW j \in Anc[k] PROVE c \notin Anc[j]
    BY <1>0, AncTrans
  <2> QED BY <1>0, <1>2, <2>1 DEF Below
<1>9. HashedOff(g, Anc[k])
  <2>1. ASSUME NEW c \in DOMAIN g \ Anc[k] PROVE g[c].full = Content(g, c)
    <3>1. t[c].full = {<<j, t[j].partial>> : j \in Below(t, c)}
      BY <1>0, <1>8 DEF FullHashed
    <3>2. /\ g[c] = t[c] /\ Below(g, c) = Below(t, c)
          /\ \A j \in Below(t, c) : g[j] = t[j]
      BY <1>8
    <3> HIDE DEF g
    <3> QED BY <3>1, <3>2 DEF Content
  <2> QED BY <2>1 DEF HashedOff
<1> HIDE DEF g, node, dummy
<1>10. /\ IsTree(r) /\ DOMAIN r = DOMAIN g /\ FullHashed(r)
       /\ \A j \in DOMAIN g : /\ r[j].dummy = g[j].dummy
                              /\ r[j].partial = g[j].partial
                              /\ r[j].error = g[j].error
  BY <1>3, <1>4, <1>5, <1>9, RecalculateCorrect
<1>11. Rooted(r) /\ OneRoot(r) /\ DummyHashed(r)
  BY <1>4, <1>6, <1>7, <1>10 DEF Rooted, OneRoot, DummyHashed
<1>12. NoBarrenDummy(r)
  <2>1. ~g[k].dummy
    BY <1>2 DEF node
  <2>2. ASSUME NEW j \in Anc[k] PROVE k \in Below(r, j) /\ ~r[k].dummy
    BY <1>0, <1>2, <1>10, <2>1 DEF Below
  <2>3. ASSUME NEW j \in DOMAIN g \ Anc[k]
        PROVE  \E i \in Below(r, j) : ~r[i].dummy
    <3>1. PICK i \in Below(t, j) : ~t[i].dummy
      BY <1>0, <1>8 DEF NoBarrenDummy
    <3>2. i \in Below(g, j) /\ g[i] = t[i]
      BY <1>8, <3>1
    <3> QED BY <1>10, <3>1, <3>2 DEF Below
  <2> QED BY <1>10, <2>2, <2>3 DEF NoBarrenDummy
<1>13. AddNode(t, k, a, e) = r
  BY DEF AddNode, g, node, dummy
<1>14. Added(t, k, a, e, r)
  <2>1. /\ node.dummy = FALSE /\ node.partial = a /\ node.error = e
        /\ dummy.dummy = TRUE /\ dummy.error = FALSE
    BY DEF node, dummy
  <2>2. \A j \in DOMAIN r \ DOMAIN t : j # k => g[j] = dummy
    BY <1>2, <1>10
  <2>3. /\ DOMAIN r = DOMAIN t \cup Anc[k] /\ k \in DOMAIN g
        /\ g[k] = node /\ \A j \in DOMAIN t \ {k} : g[j] = t[j]
    BY <1>0, <1>2, <1>10
  <2> HIDE DEF r
  <2> QED BY <1>10, <2>1, <2>2, <2>3 DEF Added
<1> QED BY <1>10, <1>11, <1>12, <1>13, <1>14 DEF Good, WellFormed

\* pop() keeps a tree good.
LEMMA PopCorrect ==
    ASSUME NEW t, Good(t), NEW k \in Keys PROVE Good(PopNode(t, k))
<1>1. CASE k \notin DOMAIN t
  BY <1>1 DEF PopNode
<1>2. CASE k \in DOMAIN t
  <2> DEFINE u == [j \in DOMAIN t \ Below(t, k) |-> t[j]]
             stack == Anc[k] \ {k}
  <2>0. /\ DOMAIN t \subseteq Keys /\ t \in [DOMAIN t -> Node]
        /\ Rooted(t) /\ OneRoot(t) /\ DummyHashed(t) /\ FullHashed(t)
        /\ NoBarrenDummy(t) /\ Anc[k] \subseteq Keys /\ k \in Anc[k]
    BY AncKeys, AncRefl DEF Good, IsTree, WellFormed
  <2>1. DOMAIN u = DOMAIN t \ Below(t, k) /\ \A j \in DOMAIN u : u[j] = t[j]
    OBVIOUS
  <2>2. IsTree(u) /\ OneRoot(u) /\ DummyHashed(u)
    BY <2>0, <2>1 DEF IsTree, OneRoot, DummyHashed
  <2>3. Rooted(u)
    <3>1. ASSUME NEW j \in DOMAIN u, NEW i \in Anc[j] PROVE i \in DOMAIN u
      <4>1. i \in DOMAIN t
        BY <2>0, <2>1 DEF Rooted
      <4>2. k \notin Anc[i]
        BY <2>0, <2>1, AncTrans DEF Below
      <4> QED BY <2>1, <4>1, <4>2 DEF Below
    <3> QED BY <3>1 DEF Rooted
  <2>4. IsStack(u, stack)
    <3>1. ASSUME NEW s \in stack PROVE s \in DOMAIN u
      <4>1. k \notin Anc[s]
        BY <2>0, AncAnti
      <4> QED BY <1>2, <2>0, <2>1, <4>1 DEF Below, Rooted
    <3>2. ASSUME NEW s \in stack, NEW i \in Anc[s] PROVE i \in stack
      BY <2>0, AncTrans, AncAnti
    <3> QED BY <3>1, <3>2 DEF IsStack
  <2>5. ASSUME NEW c \in DOMAIN u \ stack PROVE Below(u, c) = Below(t, c)
    <3>1. ASSUME NEW j \in Below(t, c), k \in Anc[j] PROVE FALSE
      <4>1. c \in Anc[j] /\ j \in Keys /\ c \in DOMAIN t /\ k \notin Anc[c]
        BY <2>0, <2>1 DEF Below
      <4>2. c \in Anc[k]
        BY <3>1, <4>1, AncChain
      <4>3. c # k
        BY <2>0, <4>1
      <4> QED BY <4>2, <4>3
    <3> QED BY <2>1, <3>1 DEF Below
  <2>6. HashedOff(u, stack)
    <3>1. ASSUME NEW c \in DOMAIN u \ stack PROVE u[c].full = Content(u, c)
      <4>1. t[c].full = {<<j, t[j].partial>> : j \in Below(t, c)} /\ u[c] = t[c]
        BY <2>0, <2>1 DEF FullHashed
      <4>2. Below(u, c) = Below(t, c) /\ \A j \in Below(u, c) : u[j] = t[j]
        BY <2>1, <2>5 DEF Below
      <4> QED BY <4>1, <4>2 DEF Content
    <3> QED BY <3>1 DEF HashedOff
  <2>7. \A c \in DOMAIN u \ stack : \E j \in Below(u, c) : ~u[j].dummy
    <3>1. ASSUME NEW c \in DOMAIN u \ stack
          PROVE  \E j \in Below(u, c) : ~u[j].dummy
      <4>1. PICK j \in Below(t, c) : ~t[j].dummy
        BY <2>0, <2>1 DEF NoBarrenDummy
      <4>2. j \in Below(u, c) /\ u[j] = t[j]
        BY <2>1, <2>5, <4>1 DEF Below
      <4> QED BY <4>1, <4>2
    <3> QED BY <3>1
  <2> HIDE DEF u, stack
  <2>8. Good(Settle(u, stack))
    BY <2>2, <2>3, <2>4, <2>6, <2>7, SettleCorrect
  <2>9. PopNode(t, k) = Settle(u, stack)
    BY <1>2 DEF PopNode, u, stack
  <2> QED BY <2>8, <2>9
<1> QED BY <1>1, <1>2

\* clear() keeps a tree good.
LEMMA ClearCorrect ==
    ASSUME NEW t, Good(t), NEW k \in Keys
    PROVE  /\ Good(ClearNode(t, k))
           /\ k \in DOMAIN t => Cleared(t, k, ClearNode(t, k))
<1>1. CASE k \notin DOMAIN t
  BY <1>1 DEF ClearNode
<1>2. CASE k \in DOMAIN t
  <2> DEFINE u == [t EXCEPT ![k].dummy = TRUE, ![k].partial = DummyHash,
                            ![k].full = {}]
  <2>0. /\ DOMAIN t \subseteq Keys /\ t \in [DOMAIN t -> Node]
        /\ Rooted(t) /\ OneRoot(t) /\ DummyHashed(t) /\ FullHashed(t)
        /\ NoBarrenDummy(t) /\ Anc[k] \subseteq Keys /\ k \in Anc[k]
    BY AncKeys, AncRefl DEF Good, IsTree, WellFormed
  <2>1. /\ DOMAIN u = DOMAIN t
        /\ \A j \in DOMAIN t \ {k} : u[j] = t[j]
        /\ u[k].dummy = TRUE /\ u[k].partial = DummyHash
        /\ u[k].error = t[k].error
        /\ u[k] \in Node
        /\ u = [j \in DOMAIN t |-> u[j]]
    <3>1. t[k] \in Node
      BY <1>2, <2>0
    <3>2. u[k] = [t[k] EXCEPT !.dummy = TRUE, !.partial = DummyHash, !.full = {}]
      BY <1>2, <2>0
    <3> DEFINE v == [t[k] EXCEPT !.dummy = TRUE, !.partial = DummyHash, !.full = {}]
    <3>3. /\ v \in Node /\ v.dummy = TRUE /\ v.partial = DummyHash
          /\ v.error = t[k].error
      BY <3>1 DEF Node, Partials
    <3> HIDE DEF u, v
    <3>4. u[k] = v
      BY <3>2 DEF v
    <3>5. /\ u[k] \in Node /\ u[k].dummy = TRUE /\ u[k].partial = DummyHash
          /\ u[k].error = t[k].error
      BY <3>3, <3>4
    <3> QED BY <1>2, <2>0, <3>5 DEF u
  <2> HIDE DEF u
  <2>2. IsTree(u) /\ OneRoot(u) /\ DummyHashed(u) /\ Rooted(u)
    BY <2>0, <2>1 DEF IsTree, OneRoot, DummyHashed, Rooted
  <2>3. IsStack(u, Anc[k])
    BY <1>2, <2>0, <2>1, AncTrans DEF IsStack, Rooted
  <2>4. ASSUME NEW c \in DOMAIN u \ Anc[k]
        PROVE  /\ c \in DOMAIN t /\ u[c] = t[c] /\ Below(u, c) = Below(t, c)
               /\ \A j \in Below(t, c) : u[j] = t[j]
    BY <2>0, <2>1 DEF Below
  <2>5. HashedOff(u, Anc[k])
    <3>1. ASSUME NEW c \in DOMAIN u \ Anc[k] PROVE u[c].full = Content(u, c)
      <4>1. t[c].full = {<<j, t[j].partial>> : j \in Below(t, c)}
        BY <2>0, <2>4 DEF FullHashed
      <4> QED BY <2>4, <4>1 DEF Content
    <3> QED BY <3>1 DEF HashedOff
  <2>6. \A c \in DOMAIN u \ Anc[k] : \E j \in Below(u, c) : ~u[j].dummy
    <3>1. ASSUME NEW c \in DOMAIN u \ Anc[k]
          PROVE  \E j \in Below(u, c) : ~u[j].dummy
      <4>1. PICK j \in Below(t, c) : ~t[j].dummy
        BY <2>0, <2>4 DEF NoBarrenDummy
      <4> QED BY <2>4, <4>1
    <3> QED BY <3>1
  <2>7. Good(Settle(u, Anc[k])) /\ Trimmed(u, Settle(u, Anc[k]))
    BY <2>2, <2>3, <2>5, <2>6, SettleCorrect
  <2>8. ClearNode(t, k) = Settle(u, Anc[k])
    BY <1>2 DEF ClearNode, u
  <2>9. ASSUME NEW r, Trimmed(u, r) PROVE Cleared(t, k, r)
    BY <2>1, <2>9 DEF Trimmed, Cleared
  <2> QED BY <2>7, <2>8, <2>9
<1> QED BY <1>1, <1>2

-----------------------------------------------------------------------------
AllGood == tree = [n \in Trees |-> tree[n]] /\ \A n \in Trees : Good(tree[n])

\* Every operation keeps every tree good.
LEMMA AllGoodInductive ==
    /\ Init => AllGood
    /\ AllGood /\ [Next]_vars => AllGood'
<1>1. ASSUME Init PROVE AllGood
  <2>1. tree = [n \in Trees |-> EmptyTree]
    BY <1>1 DEF Init
  <2>2. DOMAIN EmptyTree = {} /\ EmptyTree \in [{} -> Node]
    BY DEF EmptyTree
  <2>3. Good(EmptyTree)
    BY <2>2 DEF Good, IsTree, WellFormed, NoBarrenDummy, Rooted, OneRoot,
                DummyHashed, FullHashed
  <2> QED BY <2>1, <2>3 DEF AllGood
<1>2. ASSUME AllGood, [Next]_vars PROVE AllGood'
  <2>1. CASE UNCHANGED vars
    BY <1>2, <2>1 DEF AllGood, vars
  <2>2. ASSUME NEW n \in Trees, NEW t, Good(t), tree' = [tree EXCEPT ![n] = t]
        PROVE  AllGood'
    BY <1>2, <2>2 DEF AllGood
  <2>3. ASSUME NEW n \in Trees, NEW k \in Keys, NEW a \in Attrs,
               NEW e \in BOOLEAN, Add(n, k, a, e)
        PROVE  AllGood'
    <3>1. Good(tree[n]) /\ SameRoot(tree[n], k)
      BY <1>2, <2>3 DEF AllGood, Add
    <3>2. Good(AddNode(tree[n], k, a, e))
      BY <3>1, AddCorrect
    <3>3. tree' = [tree EXCEPT ![n] = AddNode(tree[n], k, a, e)]
      BY <2>3 DEF Add
    <3> QED BY <2>2, <3>2, <3>3
  <2>4. ASSUME NEW n \in Trees, NEW k \in Keys, NEW a \in Attrs,
               NEW e \in BOOLEAN, NEW r \in Keys, Include(n, k, a, e, r)
        PROVE  AllGood'
    <3>1. Good(tree[n]) /\ SameRoot(tree[n], k)
      BY <1>2, <2>4 DEF AllGood, Include
    <3>2. Good(AddNode(tree[n], k, a, e))
      BY <3>1, AddCorrect
    <3>3. Good(IncludeRefused(tree[n], k, a, e))
      BY <3>2, PopCorrect DEF IncludeRefused
    <3>4. tree' = [tree EXCEPT ![n] = IncludeRefused(tree[n], k, a, e)]
      BY <2>4 DEF Include
    <3> QED BY <2>2, <3>3, <3>4
  <2>5. ASSUME NEW n \in Trees, NEW k \in Keys, Pop(n, k) PROVE AllGood'
    <3>1. Good(PopNode(tree[n], k))
      BY <1>2, PopCorrect DEF AllGood
    <3> QED BY <2>2, <2>5, <3>1 DEF Pop
  <2>6. ASSUME NEW n \in Trees, NEW k \in Keys, Clear(n, k) PROVE AllGood'
    <3>1. Good(ClearNode(tree[n], k))
      BY <1>2, ClearCorrect DEF AllGood
    <3> QED BY <2>2, <2>6, <3>1 DEF Clear
  <2> QED BY <1>2, <2>1, <2>3, <2>4, <2>5, <2>6 DEF Next
<1> QED BY <1>1, <1>2

LEMMA AllGoodAlways == Spec => []AllGood
BY AllGoodInductive, PTL DEF Spec

\* Type correctness of StructuredHashTree: every operation leaves functions from
\* keys to well-formed nodes.
THEOREM TypeCorrect == Spec => []TypeOK
<1>1. AllGood => TypeOK
  BY DEF AllGood, Good, TypeOK
<1> QED BY <1>1, AllGoodAlways, PTL

\* After any sequence of add, pop, clear and failed include, the stored full
\* hash of every node is the hash of its whole subtree (and the tree is closed
\* under prefixes, has one root and hashes dummies as dummies).
THEOREM HashesCorrect == Spec => []TreesWellFormed
<1>1. AllGood => TreesWellFormed
  BY DEF AllGood, Good, TreesWellFormed
<1> QED BY <1>1, AllGoodAlways, PTL

\* No operation leaves a dummy without a live node below it: an emptied tree has
\* no root at all.
THEOREM DummiesCorrect == Spec => []NoBarrenDummies
<1>1. AllGood => NoBarrenDummies
  BY DEF AllGood, Good, NoBarrenDummies
<1> QED BY <1>1, AllGoodAlways, PTL

-----------------------------------------------------------------------------
\* A node that one tree has with a partial hash that the other tree does not have
\* for it makes the full hashes of all its common ancestors differ: _diff_children
\* gets to it.
LEMMA DifferenceReached ==
    ASSUME NEW s, NEW o, Good(s), Good(o), NEW k \in Keys,
           \/ k \in DOMAIN s /\ (k \in DOMAIN o => s[k].partial # o[k].partial)
           \/ k \in DOMAIN o /\ (k \in DOMAIN s => s[k].partial # o[k].partial)
    PROVE  Reached(s, o, k)
<1> SUFFICES ASSUME NEW j \in Anc[k], j \in DOMAIN s, j \in DOMAIN o,
                    s[j].full = o[j].full
             PROVE  FALSE
  BY DEF Reached
<1>1. /\ s[j].full = {<<i, s[i].partial>> : i \in Below(s, j)}
      /\ o[j].full = {<<i, o[i].partial>> : i \in Below(o, j)}
  BY DEF Good, WellFormed, FullHashed
<1>2. CASE k \in DOMAIN s /\ (k \in DOMAIN o => s[k].partial # o[k].partial)
  <2>1. <<k, s[k].partial>> \in s[j].full
    BY <1>1, <1>2 DEF Below
  <2>2. PICK i \in Below(o, j) : <<k, s[k].partial>> = <<i, o[i].partial>>
    BY <1>1, <2>1
  <2> QED BY <1>2, <2>2 DEF Below
<1>3. CASE k \in DOMAIN o /\ (k \in DOMAIN s => s[k].partial # o[k].partial)
  <2>1. <<k, o[k].partial>> \in o[j].full
    BY <1>1, <1>3 DEF Below
  <2>2. PICK i \in Below(s, j) : <<k, o[k].partial>> = <<i, s[i].partial>>
    BY <1>1, <2>1
  <2> QED BY <1>3, <2>2 DEF Below
<1> QED BY <1>2, <1>3

\* diff() of two good trees reports what the reference definition reports.
LEMMA DiffCorrect ==
    ASSUME NEW s, NEW o, Good(s), Good(o)
    PROVE  /\ DiffRemove(s, o) = RefRemove(s, o)
           /\ DiffAdd(s, o) = RefAdd(s, o)
<1>0. /\ DOMAIN s \subseteq Keys /\ DOMAIN o \subseteq Keys
      /\ \A k \in DOMAIN s : s[k].dummy <=> s[k].partial = DummyHash
      /\ \A k \in DOMAIN o : o[k].dummy <=> o[k].partial = DummyHash
  BY DEF Good, IsTree, WellFormed, DummyHashed
<1>1. \A k \in DiffRemove(s, o) : k \in RefRemove(s, o)
  BY <1>0 DEF DiffRemove, RefRemove, LiveKeys, Marked, Listed, Reported
<1>2. ASSUME NEW k \in RefRemove(s, o) PROVE k \in DiffRemove(s, o)
  <2>1. k \in DOMAIN o /\ k \in Keys
    BY <1>0 DEF RefRemove, LiveKeys
  <2>2. k \in DOMAIN s => s[k].partial # o[k].partial
    BY <1>0 DEF RefRemove, LiveKeys
  <2>3. Reached(s, o, k)
    BY <2>1, <2>2, DifferenceReached
  <2> QED BY <1>0, <2>1, <2>2, <2>3
          DEF DiffRemove, RefRemove, LiveKeys, Marked, Listed, Reported
<1>3. \A k \in DiffAdd(s, o) : k \in RefAdd(s, o)
  BY <1>0 DEF DiffAdd, RefAdd, LiveKeys, Marked, Listed, Reported
<1>4. ASSUME NEW k \in RefAdd(s, o) PROVE k \in DiffAdd(s, o)
  <2>1. k \in DOMAIN s /\ k \in Keys
    BY <1>0 DEF RefAdd, LiveKeys
  <2>2. k \in DOMAIN o => s[k].partial # o[k].partial
    BY <1>0 DEF RefAdd, LiveKeys
  <2>3. Reached(s, o, k)
    BY <2>1, <2>2, DifferenceReached
  <2> QED BY <1>0, <2>1, <2>2, <2>3
          DEF DiffAdd, RefAdd, LiveKeys, Marked, Listed, Reported
<1> QED BY <1>1, <1>2, <1>3, <1>4

\* Pruning the comparison on stored hashes loses no difference and invents none,
\* for every pair of trees that the operations can produce.
THEOREM DiffIsExact == Spec => []DiffExact
<1>1. AllGood => DiffExact
  BY DiffCorrect DEF AllGood, DiffExact
<1> QED BY <1>1, AllGoodAlways, PTL

-----------------------------------------------------------------------------
(* The cycles of DiffRounds.                                               *)

\* The state y of the cycles that reconcile the current tree o with the desired
\* tree s.  What remains to be cleared covers all that has to be removed; what
\* remains to be added covers all that has to be added, unless a dummy in error
\* may uncover a difference in the first cycle.
RoundOK(s, o, y) ==
    /\ \A k \in DOMAIN s : SameRoot(o, k)
    /\ \A k \in y.clear : k \in LiveKeys(o) /\ k \notin LiveKeys(s)
    /\ \A k \in y.add : k \in LiveKeys(s)
    /\ \A k \in RefRemove(s, o) : k \in y.clear
    /\ y.round = 2 => y.clear = {}
    /\ y.round = 1 /\ ~y.stale => /\ ~MarkedDummy(o)
                                  /\ \A k \in y.clear : ~o[k].error
    /\ (y.stale => y.round = 2) => \A k \in RefAdd(s, o) : k \in y.add

\* The cycles start as RoundOK says.
LEMMA RoundStarts ==
    ASSUME NEW s, NEW o, Good(s), Good(o), NEW y \in Sync,
           \A k \in DOMAIN s : SameRoot(o, k),
           y.clear = DiffRemove(s, o), y.add = DiffAdd(s, o),
           y.round = 1 => y.stale = MarkedDummy(o),
           y.round = 2 => RefRemove(s, o) = {}
    PROVE  RoundOK(s, o, y)
<1>1. y.clear = RefRemove(s, o) /\ y.add = RefAdd(s, o)
  BY DiffCorrect
<1>2. \A k \in RefRemove(s, o) : /\ k \in LiveKeys(o) /\ k \notin LiveKeys(s)
                                 /\ ~o[k].error
  BY DEF RefRemove, LiveKeys, Marked
<1>3. \A k \in RefAdd(s, o) : k \in LiveKeys(s)
  BY DEF RefAdd
<1> QED BY <1>1, <1>2, <1>3 DEF RoundOK

\* clear() of a key of the diff keeps RoundOK.
LEMMA RoundClears ==
    ASSUME NEW s, NEW o, Good(s), Good(o), NEW y \in Sync, RoundOK(s, o, y),
           NEW k \in y.clear, NEW r, Cleared(o, k, r), NEW z \in Sync,
           z.clear = y.clear \ {k}, z.add = y.add,
           z.round = y.round, z.stale = y.stale
    PROVE  RoundOK(s, r, z)
<1>1. k \in LiveKeys(o) /\ k \in DOMAIN o
  BY DEF RoundOK, LiveKeys
<1>2. \A j \in LiveKeys(r) : j \in LiveKeys(o) /\ j # k
  BY DEF LiveKeys, Cleared
<1>3. \A j \in LiveKeys(o) : j # k => j \in LiveKeys(r)
  BY DEF LiveKeys, Cleared
<1>4. \A j \in DOMAIN s : SameRoot(r, j)
  BY DEF RoundOK, Cleared, SameRoot
<1>5. \A j \in z.clear : j \in LiveKeys(r) /\ j \notin LiveKeys(s)
  BY <1>3 DEF RoundOK
<1>6. ASSUME NEW j \in RefRemove(s, r) PROVE j \in z.clear
  <2>1. j \in LiveKeys(r) /\ j \notin LiveKeys(s) /\ ~Marked(s, j) /\ ~Marked(r, j)
    BY DEF RefRemove
  <2>2. j \in LiveKeys(o) /\ j # k /\ ~Marked(o, j)
    BY <1>2, <2>1 DEF Marked, Cleared, LiveKeys
  <2> QED BY <2>1, <2>2 DEF RefRemove, RoundOK
<1>7. z.round = 2 => z.clear = {}
  BY DEF RoundOK
<1>8. ASSUME z.round = 1, ~z.stale
      PROVE  /\ ~MarkedDummy(r)
             /\ \A j \in z.clear : ~r[j].error
  <2>1. ~MarkedDummy(o) /\ \A j \in y.clear : ~o[j].error
    BY <1>8 DEF RoundOK
  <2>2. ASSUME NEW j \in DOMAIN r, r[j].dummy, r[j].error PROVE FALSE
    <3>1. j \in DOMAIN o /\ o[j].error
      BY <2>2 DEF Cleared
    <3>2. j # k => o[j].dummy
      BY <2>2 DEF Cleared
    <3> QED BY <2>1, <3>1, <3>2 DEF MarkedDummy
  <2>3. ASSUME NEW j \in z.clear PROVE ~r[j].error
    <3>1. j \in DOMAIN r /\ j \in y.clear
      BY <1>5 DEF LiveKeys
    <3> QED BY <2>1, <3>1 DEF Cleared
  <2> QED BY <2>2, <2>3 DEF MarkedDummy
<1>9. ASSUME z.stale => z.round = 2, NEW j \in RefAdd(s, r) PROVE j \in z.add
  <2>1. y.round = 1 /\ ~y.stale
    BY <1>9 DEF RoundOK, Sync
  <2>2. ~MarkedDummy(o)
    BY <2>1 DEF RoundOK
  <2>3. /\ j \in LiveKeys(s) /\ ~Marked(s, j) /\ ~Marked(r, j)
        /\ j \notin LiveKeys(r) \/ s[j].partial # r[j].partial
    BY DEF RefAdd
  <2>4. j # k
    BY <2>3 DEF RoundOK
  <2>5. ~Marked(o, j)
    <3>1. CASE j \in DOMAIN r
      BY <2>3, <2>4, <3>1 DEF Marked, Cleared
    <3>2. CASE j \notin DOMAIN r
      BY <2>2, <2>4, <3>2 DEF Marked, Cleared, MarkedDummy
    <3> QED BY <3>1, <3>2
  <2>6. j \notin LiveKeys(o) \/ s[j].partial # o[j].partial
    <3>1. CASE j \in LiveKeys(o)
      <4>1. j \in LiveKeys(r) /\ j \in DOMAIN r
        BY <1>3, <2>4, <3>1 DEF LiveKeys
      <4>2. r[j].partial = o[j].partial
        BY <2>4, <4>1 DEF Cleared
      <4> QED BY <2>3, <4>1, <4>2
    <3> QED BY <3>1
  <2>7. j \in RefAdd(s, o)
    BY <2>3, <2>5, <2>6 DEF RefAdd
  <2> QED BY <2>1, <2>7 DEF RoundOK
<1>10. \A j \in z.add : j \in LiveKeys(s)
  BY DEF RoundOK
<1> QED BY <1>4, <1>5, <1>6, <1>7, <1>8, <1>9, <1>10 DEF RoundOK

\* add() of a key of the diff keeps RoundOK.
LEMMA RoundAdds ==
    ASSUME NEW s, NEW o, Good(s), Good(o), NEW y \in Sync, RoundOK(s, o, y),
           NEW k \in y.add, NEW e \in BOOLEAN,
           NEW r, Added(o, k, s[k].partial, e, r), NEW z \in Sync,
           z.clear = y.clear, z.add = y.add \ {k},
           z.round = y.round, z.stale = y.stale
    PROVE  RoundOK(s, r, z)
<1>0. /\ DOMAIN s \subseteq Keys /\ DOMAIN o \subseteq Keys
      /\ Rooted(s) /\ OneRoot(s)
  BY DEF Good, IsTree, WellFormed
<1>1. k \in LiveKeys(s) /\ k \in DOMAIN s /\ k \in Keys
  BY <1>0 DEF RoundOK, LiveKeys
<1>2. \A j \in LiveKeys(r) : j = k \/ j \in LiveKeys(o)
  BY DEF LiveKeys, Added
<1>3. \A j \in LiveKeys(o) : j # k => j \in LiveKeys(r)
  BY DEF LiveKeys, Added
<1>4. ASSUME NEW j \in DOMAIN s, NEW i \in DOMAIN r PROVE Anc[i] \cap Anc[j] # {}
  <2>1. CASE i \in DOMAIN o
    BY <2>1 DEF RoundOK, SameRoot
  <2>2. CASE i \in Anc[k]
    BY <1>0, <1>1, <2>2 DEF Rooted, OneRoot
  <2> QED BY <2>1, <2>2 DEF Added
<1>5. \A j \in z.clear : j \in LiveKeys(r) /\ j \notin LiveKeys(s)
  BY <1>1, <1>3 DEF RoundOK
<1>6. ASSUME NEW j \in RefRemove(s, r) PROVE j \in z.clear
  <2>1. j \in LiveKeys(r) /\ j \notin LiveKeys(s) /\ ~Marked(s, j) /\ ~Marked(r, j)
    BY DEF RefRemove
  <2>2. j \in LiveKeys(o) /\ j # k /\ j \in DOMAIN o
    BY <1>1, <1>2, <2>1 DEF LiveKeys
  <2>3. ~Marked(o, j)
    BY <2>1, <2>2 DEF Marked, Added
  <2> QED BY <2>1, <2>2, <2>3 DEF RefRemove, RoundOK
<1>7. ASSUME z.round = 1, ~z.stale
      PROVE  /\ ~MarkedDummy(r)
             /\ \A j \in z.clear : ~r[j].error
  <2>1. ~MarkedDummy(o) /\ \A j \in y.clear : ~o[j].error
    BY <1>7 DEF RoundOK
  <2>2. ASSUME NEW j \in DOMAIN r, r[j].dummy, r[j].error PROVE FALSE
    <3>1. j # k
      BY <2>2 DEF Added
    <3>2. j \in DOMAIN o
      BY <2>2, <3>1 DEF Added
    <3> QED BY <2>1, <2>2, <3>1, <3>2 DEF MarkedDummy, Added
  <2>3. ASSUME NEW j \in z.clear PROVE ~r[j].error
    <3>1. j \in DOMAIN o /\ j # k /\ j \in y.clear
      BY <1>1 DEF RoundOK, LiveKeys
    <3> QED BY <2>1, <3>1 DEF Added
  <2> QED BY <2>2, <2>3 DEF MarkedDummy
<1>8. ASSUME z.stale => z.round = 2, NEW j \in RefAdd(s, r) PROVE j \in z.add
  <2>1. /\ j \in LiveKeys(s) /\ ~Marked(s, j) /\ ~Marked(r, j)
        /\ j \notin LiveKeys(r) \/ s[j].partial # r[j].partial
    BY DEF RefAdd
  <2>2. j # k
    <3>1. k \in LiveKeys(r) /\ r[k].partial = s[k].partial
      BY DEF LiveKeys, Added
    <3> QED BY <2>1, <3>1
  <2>3. ~Marked(o, j)
    BY <2>1, <2>2 DEF Marked, Added
  <2>4. j \notin LiveKeys(o) \/ s[j].partial # o[j].partial
    BY <1>3, <2>1, <2>2 DEF LiveKeys, Added
  <2>5. j \in RefAdd(s, o)
    BY <2>1, <2>3, <2>4 DEF RefAdd
  <2> QED BY <1>8, <2>2, <2>5 DEF RoundOK
<1>9. /\ \A j \in DOMAIN s : SameRoot(r, j)
      /\ \A j \in z.add : j \in LiveKeys(s)
      /\ z.round = 2 => z.clear = {}
  BY <1>4 DEF RoundOK, SameRoot
<1> QED BY <1>5, <1>6, <1>7, <1>8, <1>9 DEF RoundOK

\* All trees are good, and a reconciliation that is under way is as RoundOK says.
RoundInv ==
    /\ AllGood
    /\ \/ sync = Idle
       \/ /\ sync \in Sync /\ sync.self # sync.other
          /\ RoundOK(tree[sync.self], tree[sync.other], sync)

\* A state of the cycles is not the state in which there is none.
LEMMA SyncNotIdle == ASSUME NEW y \in Sync PROVE y # Idle
<1>1. y.round # 0
  BY DEF Sync
<1>2. Idle.round = 0
  BY DEF Idle
<1> QED BY <1>1, <1>2

\* The operations that a cycle carries out are operations of HashTree.
LEMMA RoundOperations ==
    ASSUME RoundInv, RoundNext
    PROVE  [Next]_vars
<1>1. CASE Change
  BY <1>1 DEF Change
<1>2. ASSUME NEW k \in Keys, DeleteOne(k) PROVE Next
  <2>1. sync \in Sync /\ Clear(sync.other, k)
    BY <1>2 DEF DeleteOne, RoundInv
  <2>2. sync.other \in Trees
    BY <2>1 DEF Sync
  <2> QED BY <2>1, <2>2 DEF Next
<1>3. ASSUME NEW k \in Keys, NEW e \in BOOLEAN, CreateOne(k, e) PROVE Next
  <2>1. /\ sync \in Sync /\ k \in sync.add
        /\ RoundOK(tree[sync.self], tree[sync.other], sync)
        /\ Add(sync.other, k, tree[sync.self][k].partial, e)
    BY <1>3 DEF CreateOne, RoundInv
  <2>2. sync.other \in Trees /\ sync.self \in Trees
    BY <2>1 DEF Sync
  <2>3. Good(tree[sync.self]) /\ k \in LiveKeys(tree[sync.self])
    BY <2>1, <2>2 DEF RoundInv, AllGood, RoundOK
  <2>4. tree[sync.self][k].partial \in Attrs
    BY <2>3 DEF LiveKeys, Good, IsTree, WellFormed, DummyHashed, Node, Partials
  <2> QED BY <2>1, <2>2, <2>4 DEF Next
<1>4. CASE \E m, n \in Trees : Reconcile(m, n)
  BY <1>4 DEF Reconcile, vars
<1>5. CASE ReconcileAgain
  BY <1>5 DEF ReconcileAgain, vars
<1>6. CASE Settled
  BY <1>6 DEF Settled, vars
<1> QED BY <1>1, <1>2, <1>3, <1>4, <1>5, <1>6 DEF RoundNext

\* Every step keeps the trees good and the cycles as RoundOK says.
LEMMA RoundInductive ==
    /\ RoundInit => RoundInv
    /\ RoundInv /\ [RoundNext]_roundVars => RoundInv'
<1>1. RoundInit => RoundInv
  BY AllGoodInductive DEF RoundInit, RoundInv
<1>2. ASSUME RoundInv, [RoundNext]_roundVars PROVE RoundInv'
  <2>1. CASE UNCHANGED roundVars
    <3>1. UNCHANGED vars /\ UNCHANGED tree /\ UNCHANGED sync
      BY <2>1 DEF roundVars, vars
    <3>2. AllGood'
      BY <1>2, <3>1, AllGoodInductive DEF RoundInv
    <3> QED BY <1>2, <3>1, <3>2 DEF RoundInv
  <2>2. CASE RoundNext
    <3>1. AllGood /\ AllGood'
      BY <1>2, <2>2, RoundOperations, AllGoodInductive DEF RoundInv
    <3>2. CASE Change
      BY <3>1, <3>2 DEF Change, RoundInv
    <3>3. CASE Settled
      BY <3>1, <3>3 DEF Settled, RoundInv
    <3>4. ASSUME NEW m \in Trees, NEW n \in Trees, Reconcile(m, n) PROVE RoundInv'
      <4>1. Good(tree[m]) /\ Good(tree[n])
        BY <3>1 DEF AllGood
      <4>2. /\ DiffRemove(tree[m], tree[n]) \subseteq Keys
            /\ DiffAdd(tree[m], tree[n]) \subseteq Keys
        BY <4>1 DEF DiffRemove, DiffAdd, Good, IsTree
      <4>3. MarkedDummy(tree[n]) \in BOOLEAN
        BY DEF MarkedDummy
      <4>4. /\ sync' \in Sync /\ sync'.self = m /\ sync'.other = n
            /\ sync'.round = 1
            /\ sync'.clear = DiffRemove(tree[m], tree[n])
            /\ sync'.add = DiffAdd(tree[m], tree[n])
            /\ sync'.stale = MarkedDummy(tree[n])
        BY <3>4, <4>2, <4>3 DEF Reconcile, Sync
      <4>5. /\ \A k \in DOMAIN tree[m] : SameRoot(tree[n], k)
            /\ tree' = tree /\ m # n
        BY <3>4 DEF Reconcile
      <4>6. RoundOK(tree[m], tree[n], sync')
        BY <4>1, <4>4, <4>5, RoundStarts
      <4> QED BY <3>1, <4>4, <4>5, <4>6 DEF RoundInv
    <3>5. ASSUME NEW k \in Keys, DeleteOne(k) PROVE RoundInv'
      <4>1. /\ sync \in Sync /\ sync.self # sync.other /\ k \in sync.clear
            /\ RoundOK(tree[sync.self], tree[sync.other], sync)
        BY <1>2, <3>5 DEF DeleteOne, RoundInv
      <4>2. PICK m \in Trees, n \in Trees : m = sync.self /\ n = sync.other
        BY <4>1 DEF Sync
      <4>3. /\ k \in DOMAIN tree[n]
            /\ tree' = [tree EXCEPT ![n] = ClearNode(tree[n], k)]
            /\ sync' = [sync EXCEPT !.clear = sync.clear \ {k}]
        BY <3>5, <4>2 DEF DeleteOne, Clear
      <4>4. Good(tree[m]) /\ Good(tree[n])
        BY <3>1 DEF AllGood
      <4>5. Cleared(tree[n], k, ClearNode(tree[n], k))
        BY <4>3, <4>4, ClearCorrect
      <4>6. /\ sync' \in Sync /\ sync'.self = m /\ sync'.other = n
            /\ sync'.round = sync.round /\ sync'.stale = sync.stale
            /\ sync'.clear = sync.clear \ {k} /\ sync'.add = sync.add
        BY <4>1, <4>2, <4>3 DEF Sync
      <4>7. tree'[m] = tree[m] /\ tree'[n] = ClearNode(tree[n], k)
        BY <3>1, <4>1, <4>2, <4>3 DEF AllGood
      <4>8. RoundOK(tree[m], ClearNode(tree[n], k), sync')
        BY <4>1, <4>2, <4>4, <4>5, <4>6, RoundClears
      <4> QED BY <3>1, <4>1, <4>2, <4>6, <4>7, <4>8 DEF RoundInv
    <3>6. ASSUME NEW k \in Keys, NEW e \in BOOLEAN, CreateOne(k, e)
          PROVE  RoundInv'
      <4>1. /\ sync \in Sync /\ sync.self # sync.other /\ k \in sync.add
            /\ RoundOK(tree[sync.self], tree[sync.other], sync)
        BY <1>2, <3>6 DEF CreateOne, RoundInv
      <4>2. PICK m \in Trees, n \in Trees : m = sync.self /\ n = sync.other
        BY <4>1 DEF Sync
      <4> DEFINE a == tree[m][k].partial
      <4>3. /\ SameRoot(tree[n], k)
            /\ tree' = [tree EXCEPT ![n] = AddNode(tree[n], k, a, e)]
            /\ sync' = [sync EXCEPT !.add = sync.add \ {k}]
        BY <3>6, <4>2 DEF CreateOne, Add
      <4>4. Good(tree[m]) /\ Good(tree[n])
        BY <3>1 DEF AllGood
      <4>5. a \in Attrs
        <5>1. k \in LiveKeys(tree[m])
          BY <4>1, <4>2 DEF RoundOK
        <5> QED BY <4>4, <5>1
                DEF LiveKeys, Good, IsTree, WellFormed, DummyHashed, Node, Partials
      <4>6. Added(tree[n], k, a, e, AddNode(tree[n], k, a, e))
        BY <4>3, <4>4, <4>5, AddCorrect
      <4>7. /\ sync' \in Sync /\ sync'.self = m /\ sync'.other = n
            /\ sync'.round = sync.round /\ sync'.stale = sync.stale
            /\ sync'.clear = sync.clear /\ sync'.add = sync.add \ {k}
        BY <4>1, <4>2, <4>3 DEF Sync
      <4>8. tree'[m] = tree[m] /\ tree'[n] = AddNode(tree[n], k, a, e)
        BY <3>1, <4>1, <4>2, <4>3 DEF AllGood
      <4>9. RoundOK(tree[m], AddNode(tree[n], k, a, e), sync')
        BY <4>1, <4>2, <4>4, <4>6, <4>7, RoundAdds
      <4> QED BY <3>1, <4>1, <4>2, <4>7, <4>8, <4>9 DEF RoundInv
    <3>7. CASE ReconcileAgain
      <4>1. /\ sync \in Sync /\ sync.self # sync.other /\ sync.clear = {}
            /\ RoundOK(tree[sync.self], tree[sync.other], sync)
        BY <1>2, <3>7 DEF ReconcileAgain, CarriedOut, RoundInv
      <4>2. PICK m \in Trees, n \in Trees : m = sync.self /\ n = sync.other
        BY <4>1 DEF Sync
      <4>3. Good(tree[m]) /\ Good(tree[n])
        BY <3>1 DEF AllGood
      <4>4. /\ DiffRemove(tree[m], tree[n]) \subseteq Keys
            /\ DiffAdd(tree[m], tree[n]) \subseteq Keys
        BY <4>3 DEF DiffRemove, DiffAdd, Good, IsTree
      <4>5. /\ tree' = tree
            /\ sync' = [sync EXCEPT !.round = 2,
                                    !.clear = DiffRemove(tree[m], tree[n]),
                                    !.add   = DiffAdd(tree[m], tree[n])]
        BY <3>7, <4>2 DEF ReconcileAgain
      <4>6. /\ sync' \in Sync /\ sync'.self = m /\ sync'.other = n
            /\ sync'.round = 2
            /\ sync'.clear = DiffRemove(tree[m], tree[n])
            /\ sync'.add = DiffAdd(tree[m], tree[n])
        BY <4>1, <4>2, <4>4, <4>5 DEF Sync
      <4>7. /\ \A k \in DOMAIN tree[m] : SameRoot(tree[n], k)
            /\ RefRemove(tree[m], tree[n]) = {}
        BY <4>1, <4>2 DEF RoundOK
      <4>8. RoundOK(tree[m], tree[n], sync')
        BY <4>3, <4>6, <4>7, RoundStarts
      <4> QED BY <3>1, <4>1, <4>2, <4>5, <4>6, <4>8 DEF RoundInv
    <3> QED BY <2>2, <3>2, <3>3, <3>4, <3>5, <3>6, <3>7 DEF RoundNext
  <2> QED BY <1>2, <2>1, <2>2
<1> QED BY <1>1, <1>2

LEMMA RoundInvAlways == RoundSpec => []RoundInv
BY RoundInductive, PTL DEF RoundSpec

\* Reconciliation touches a tree only through the operations of
\* StructuredHashTree: the cycles implement HashTree, so that all that is proved
\* of it holds while a root is being reconciled.
THEOREM RoundsImplement == RoundSpec => Spec
<1>1. RoundInit => Init
  BY DEF RoundInit
<1>2. RoundInv /\ [RoundNext]_roundVars => [Next]_vars
  <2>1. ASSUME UNCHANGED roundVars PROVE UNCHANGED vars
    BY <2>1 DEF roundVars, vars
  <2> QED BY <2>1, RoundOperations
<1> QED BY <1>1, <1>2, RoundInvAlways, PTL DEF RoundSpec, Spec

\* Type correctness: the trees, and the keys that a cycle still has to treat.
THEOREM RoundTypeCorrect == RoundSpec => []RoundTypeOK
<1>1. RoundInv => RoundTypeOK
  BY DEF RoundInv, RoundTypeOK, AllGood, Good, TypeOK
<1> QED BY <1>1, RoundInvAlways, PTL

\* The operations that diff() lists can all be carried out, in any order, and
\* they lead to trees that diff() finds equal: after one cycle, or after two when
\* the current tree had a dummy in error.
THEOREM DiffDoesConverge == RoundSpec => []DiffConverges
<1>1. ASSUME RoundInv PROVE DiffConverges
  <2> SUFFICES ASSUME sync # Idle
               PROVE  /\ \A k \in sync.clear : k \in DOMAIN tree[sync.other]
                      /\ \A k \in sync.add : SameRoot(tree[sync.other], k)
                      /\ CarriedOut /\ (sync.stale => sync.round = 2) =>
                            /\ DiffRemove(tree[sync.self], tree[sync.other]) = {}
                            /\ DiffAdd(tree[sync.self], tree[sync.other]) = {}
    BY DEF DiffConverges
  <2>1. sync \in Sync /\ RoundOK(tree[sync.self], tree[sync.other], sync)
    BY <1>1 DEF RoundInv
  <2>2. Good(tree[sync.self]) /\ Good(tree[sync.other])
    BY <1>1, <2>1 DEF RoundInv, AllGood, Sync
  <2>3. /\ \A k \in sync.clear : k \in DOMAIN tree[sync.other]
        /\ \A k \in sync.add : SameRoot(tree[sync.other], k)
    BY <2>1 DEF RoundOK, LiveKeys
  <2>4. ASSUME CarriedOut, sync.stale => sync.round = 2
        PROVE  /\ DiffRemove(tree[sync.self], tree[sync.other]) = {}
               /\ DiffAdd(tree[sync.self], tree[sync.other]) = {}
    <3>1. /\ RefRemove(tree[sync.self], tree[sync.other]) = {}
          /\ RefAdd(tree[sync.self], tree[sync.other]) = {}
      BY <2>1, <2>4 DEF RoundOK, CarriedOut
    <3> QED BY <2>2, <3>1, DiffCorrect
  <2> QED BY <2>3, <2>4
<1> QED BY <1>1, RoundInvAlways, PTL
=============================================================================
