----------------------- MODULE TenantSharding_proofs ------------------------
(* Proofs about TenantSharding, for all agents, roots, versions, intervals    *)
(* and any ring, and about the ring that the agents rely on, HashRing, for    *)
(* all nodes, weights, replicas and hashes.                                  *)
EXTENDS TenantSharding, HashRing, WellFoundedInduction, TLAPS

\* What a healthy agent serves is what it would compute now, if it has computed
\* it since the view last changed; and it has computed something not long ago.
UpToDate(a) ==
    /\ idle[a] <= ServePeriod
    /\ idle[a] < calm => served[a] = Calculated(a)

IInv == TypeOK /\ \A a \in running \ hung : UpToDate(a)

\* A share depends on the rows only through the view.
LEMMA SameShare ==
    ASSUME View' = View, NEW a \in Agents
    PROVE  Calculated(a)' = Calculated(a)
BY DEF View, Calculated

\* The ages of the rows stay natural numbers.
LEMMA OlderNat ==
    ASSUME NEW n \in Nat
    PROVE  Older(n) \in Nat
BY TimeAssumption DEF Older

LEMMA ShareIsRoots ==
    ASSUME TypeOK, NEW a \in Agents
    PROVE  Calculated(a) \subseteq Roots
BY DEF TypeOK, Calculated

\* Each action keeps the types.
LEMMA TypeStep ==
    ASSUME TypeOK, [Next]_vars
    PROVE  TypeOK'
<1> USE TimeAssumption, VersionAssumption
<1>0. CASE UNCHANGED vars
  BY <1>0 DEF TypeOK, vars
<1>1. CASE Tick
  BY <1>1, OlderNat DEF TypeOK, Tick, AtMost
<1>2. ASSUME NEW a \in Agents, NEW v \in Versions, Start(a, v)
      PROVE  TypeOK'
  BY <1>2 DEF TypeOK, Start
<1>3. ASSUME NEW a \in Agents, Heartbeat(a)
      PROVE  TypeOK'
  BY <1>3 DEF TypeOK, Heartbeat, Exit, Watched
<1>4. ASSUME NEW a \in Agents, Suicide(a)
      PROVE  TypeOK'
  BY <1>4 DEF TypeOK, Suicide, Exit, Watched
<1>5. ASSUME NEW a \in Agents, Serve(a)
      PROVE  TypeOK'
  BY <1>5, ShareIsRoots DEF TypeOK, Serve, Watched
<1>6. ASSUME NEW a \in Agents, Crash(a)
      PROVE  TypeOK'
  BY <1>6 DEF TypeOK, Crash, Exit, Fault, Watched
<1>7. ASSUME NEW a \in Agents, Hang(a)
      PROVE  TypeOK'
  BY <1>7 DEF TypeOK, Hang, Fault, Watched
<1>8. ASSUME NEW a \in Agents, Slow(a)
      PROVE  TypeOK'
  BY <1>8 DEF TypeOK, Slow, Fault, Watched
<1>9. ASSUME NEW a \in Agents, Recover(a)
      PROVE  TypeOK'
  BY <1>9 DEF TypeOK, Recover, Watched
<1>10. ASSUME NEW a \in Agents, Administer(a)
       PROVE  TypeOK'
  BY <1>10 DEF TypeOK, Administer, Fault, Watched
<1>11. ASSUME NEW r \in Roots, ChangeRoots(r)
       PROVE  TypeOK'
  BY <1>11 DEF TypeOK, ChangeRoots, Fault, Watched
<1> QED
  BY <1>0, <1>1, <1>2, <1>3, <1>4, <1>5, <1>6, <1>7, <1>8, <1>9, <1>10, <1>11
     DEF Next, AgentStep

\* A step that is watched, leaves the loops of the healthy agents alone and does
\* not change what they serve, keeps them up to date.
LEMMA WatchedStep ==
    ASSUME IInv, TypeOK', Watched, running' \ hung' \subseteq running \ hung,
           NEW b \in running' \ hung',
           idle'[b] = idle[b], served'[b] = served[b]
    PROVE  UpToDate(b)'
<1>1. b \in Agents /\ UpToDate(b)
  BY DEF IInv, TypeOK
<1>2. CASE View' = View
  BY <1>1, <1>2, SameShare DEF UpToDate, Watched
<1>3. CASE View' # View
  BY <1>1, <1>3, TimeAssumption DEF UpToDate, Watched, IInv, TypeOK
<1> QED  BY <1>2, <1>3

LEMMA Inductive ==
    ASSUME IInv, [Next]_vars
    PROVE  IInv'
<1> USE TimeAssumption
<1>t. TypeOK /\ TypeOK'
  BY TypeStep DEF IInv
<1> SUFFICES ASSUME NEW b \in running' \ hung'
             PROVE  UpToDate(b)'
  BY <1>t DEF IInv
<1>b. b \in Agents
  BY <1>t DEF TypeOK
<1>0. CASE UNCHANGED vars
  <2>1. View' = View /\ UpToDate(b)
    BY <1>0 DEF vars, View, Eligible, Alive, IsDown, IInv
  <2> QED  BY <1>0, <1>b, <2>1, SameShare DEF vars, UpToDate
<1>1. CASE Tick
  <2>1. b \in running \ hung /\ UpToDate(b) /\ idle[b] < ServePeriod
    BY <1>1 DEF Tick, IInv
  <2>2. idle'[b] = idle[b] + 1 /\ served'[b] = served[b]
    BY <1>1, <1>b, <1>t, <2>1 DEF Tick, AtMost, TypeOK
  <2>3. CASE View' = View
    <3>1. Calculated(b)' = Calculated(b)
      BY <1>b, <2>3, SameShare
    <3>2. calm' <= calm + 1
      BY <1>1, <1>t, <2>3 DEF Tick, AtMost, TypeOK
    <3> QED  BY <1>b, <1>t, <2>1, <2>2, <3>1, <3>2 DEF UpToDate, TypeOK
  <2>4. CASE View' # View
    BY <1>1, <1>b, <1>t, <2>1, <2>2, <2>4 DEF Tick, UpToDate, TypeOK
  <2> QED  BY <2>3, <2>4
<1>2. ASSUME NEW a \in Agents, NEW v \in Versions, Start(a, v)
      PROVE  UpToDate(b)'
  <2>1. calm' = 0 /\ idle'[b] <= ServePeriod
    BY <1>2, <1>b, <1>t DEF Start, IInv, UpToDate, TypeOK
  <2> QED  BY <1>b, <1>t, <2>1 DEF UpToDate, TypeOK
<1>3. ASSUME NEW a \in Agents, Heartbeat(a)
      PROVE  UpToDate(b)'
  <2>1. Watched /\ running' \ hung' \subseteq running \ hung
    BY <1>3, <1>t DEF Heartbeat, Exit, TypeOK
  <2>2. idle'[b] = idle[b] /\ served'[b] = served[b]
    BY <1>3, <1>t, <1>b DEF Heartbeat, Exit, TypeOK
  <2> QED  BY <1>t, <2>1, <2>2, WatchedStep
<1>4. ASSUME NEW a \in Agents, Suicide(a)
      PROVE  UpToDate(b)'
  <2>1. Watched /\ running' \ hung' \subseteq running \ hung
    BY <1>4, <1>t DEF Suicide, Exit, TypeOK
  <2>2. idle'[b] = idle[b] /\ served'[b] = served[b]
    BY <1>4, <1>t, <1>b DEF Suicide, Exit, TypeOK
  <2> QED  BY <1>t, <2>1, <2>2, WatchedStep
<1>5. ASSUME NEW a \in Agents, Serve(a)
      PROVE  UpToDate(b)'
  <2>1. Watched /\ running' \ hung' \subseteq running \ hung
    BY <1>5 DEF Serve
  <2>2. CASE b # a
    <3>1. idle'[b] = idle[b] /\ served'[b] = served[b]
      BY <1>5, <1>t, <1>b, <2>2 DEF Serve, TypeOK
    <3> QED  BY <1>t, <2>1, <3>1, WatchedStep
  <2>3. CASE b = a
    <3>1. idle'[b] = 0 /\ served'[b] = Calculated(b)
      BY <1>5, <1>t, <2>3 DEF Serve, TypeOK
    <3>2. CASE View' = View
      BY <1>b, <3>1, <3>2, SameShare DEF UpToDate
    <3>3. CASE View' # View
      BY <1>b, <2>1, <3>1, <3>3 DEF UpToDate, Watched
    <3> QED  BY <3>2, <3>3
  <2> QED  BY <2>2, <2>3
<1>6. ASSUME NEW a \in Agents, Crash(a)
      PROVE  UpToDate(b)'
  <2>1. Watched /\ running' \ hung' \subseteq running \ hung
    BY <1>6, <1>t DEF Crash, Exit, TypeOK
  <2>2. idle'[b] = idle[b] /\ served'[b] = served[b]
    BY <1>6, <1>t, <1>b DEF Crash, Exit, TypeOK
  <2> QED  BY <1>t, <2>1, <2>2, WatchedStep
<1>7. ASSUME NEW a \in Agents, Hang(a) \/ Slow(a) \/ Recover(a) \/ Administer(a)
      PROVE  UpToDate(b)'
  <2>1. Watched /\ running' \ hung' \subseteq running \ hung
    BY <1>7 DEF Hang, Slow, Recover, Administer
  <2>2. idle'[b] = idle[b] /\ served'[b] = served[b]
    BY <1>7 DEF Hang, Slow, Recover, Administer
  <2> QED  BY <1>t, <2>1, <2>2, WatchedStep
<1>8. ASSUME NEW r \in Roots, ChangeRoots(r)
      PROVE  UpToDate(b)'
  <2>1. Watched /\ running' \ hung' \subseteq running \ hung
    BY <1>8 DEF ChangeRoots
  <2>2. idle'[b] = idle[b] /\ served'[b] = served[b]
    BY <1>8 DEF ChangeRoots
  <2> QED  BY <1>t, <2>1, <2>2, WatchedStep
<1> QED
  BY <1>0, <1>1, <1>2, <1>3, <1>4, <1>5, <1>6, <1>7, <1>8 DEF Next, AgentStep

LEMMA Initially == Init => IInv
BY TimeAssumption, VersionAssumption DEF Init, IInv, TypeOK

\* When all healthy agents are up to date the ring decides: it has one place for
\* each root.
LEMMA RingDecides ==
    ASSUME IInv
    PROVE  SettledInTime
<1> SUFFICES ASSUME calm > ServePeriod, Eligible # {}, Eligible \subseteq running,
                    hung = {}, NEW r \in roots
             PROVE  \E a \in Eligible : Servers(r) = {a}
  BY DEF SettledInTime, ExactlyOne
<1>1. Eligible \in SUBSET Agents /\ r \in Roots
  BY DEF IInv, TypeOK, Eligible, Alive
<1>2. Owner[Eligible][r] \in Eligible
  BY <1>1, OwnerAssumption
<1>3. ASSUME NEW b \in running
      PROVE  served[b] = Calculated(b)
  <2>1. b \in Agents /\ UpToDate(b)
    BY DEF IInv, TypeOK
  <2>2. idle[b] \in Nat /\ calm \in Nat
    BY <2>1 DEF IInv, TypeOK
  <2> QED  BY <2>1, <2>2, TimeAssumption DEF UpToDate
<1>4. ASSUME NEW b \in running
      PROVE  r \in served[b] <=> b = Owner[Eligible][r]
  <2>1. served[b] = Calculated(b)
    BY <1>3
  <2>2. CASE b \in Eligible
    <3>1. served[b] = {x \in roots : Owner[Eligible][x] = b}
      BY <2>1, <2>2 DEF Calculated
    <3> QED  BY <3>1
  <2>3. CASE b \notin Eligible
    <3>1. served[b] = {}
      BY <2>1, <2>3 DEF Calculated
    <3>2. b # Owner[Eligible][r]
      BY <2>3, <1>2
    <3> QED  BY <3>1, <3>2
  <2> QED  BY <2>2, <2>3
<1>5. Servers(r) = {Owner[Eligible][r]}
  BY <1>2, <1>4 DEF Servers
<1> QED  BY <1>2, <1>5

\* The rows and what the processes keep have their types (the database columns
\* and the fields of AID).
THEOREM TypeCorrect == Spec => []TypeOK
<1>1. IInv => TypeOK
  BY DEF IInv
<1> QED  BY Initially, Inductive, <1>1, PTL DEF Spec

\* _calculate_tenants of separate agents, whatever faults there were: within the
\* serving period after the rows stop changing each root has exactly one server.
THEOREM SettledAlways == Spec => []SettledInTime
<1> QED  BY Initially, Inductive, RingDecides, PTL DEF Spec

-----------------------------------------------------------------------------
(* The ring: minima of sets of numbers, and loops.                           *)

\* A set of natural numbers has a least member.
LEMMA Least ==
    ASSUME NEW S, S \subseteq Nat, S # {}
    PROVE  \E m \in S : \A n \in S : m <= n
<1> DEFINE R == OpToRel(<, Nat)
<1>1. IsWellFoundedOn(R, Nat)
  BY NatLessThanWellFounded
<1>2. \A x, y \in Nat : <<y, x>> \in R <=> y < x
  BY DEF OpToRel
<1> HIDE DEF R
<1>3. PICK m \in S : \A y \in S : ~ (<<y, m>> \in R)
  BY <1>1, WFMin
<1>4. ASSUME NEW n \in S PROVE m <= n
  <2>1. ~(n < m)
    BY <1>2, <1>3
  <2> QED BY <2>1
<1> QED BY <1>3, <1>4

\* A bounded one has a greatest member.
LEMMA Greatest ==
    ASSUME NEW S, NEW b \in Nat, S \subseteq 0..b, S # {}
    PROVE  \E m \in S : \A n \in S : n <= m
<1> DEFINE T == {b - n : n \in S}
<1>1. T \subseteq Nat /\ T # {}
  <2>1. \A n \in S : n \in 0..b
    OBVIOUS
  <2>2. \A n \in S : b - n \in Nat
    BY <2>1
  <2> QED BY <2>2
<1> HIDE DEF T
<1>2. PICK t \in T : \A n \in T : t <= n
  BY <1>1, Least
<1>3. PICK m \in S : t = b - m
  BY <1>2 DEF T
<1>4. \A n \in S : b - m <= b - n
  BY <1>2, <1>3 DEF T
<1> QED BY <1>3, <1>4

\* Some function starts at x0 and makes every step with F.
Iterated(X, x0, F) ==
    \E g \in [Nat -> X] : g[0] = x0 /\ \A i \in Nat : g[i + 1] = F[g[i]]

\* A loop whose turns compute a value from the one before has a value after every
\* number of turns: the recursive function that describes it exists.
LEMMA Iterates ==
    ASSUME NEW X, NEW x0 \in X, NEW F \in [X -> X]
    PROVE  Iterated(X, x0, F)
<1> DEFINE IsPart(n, a) == /\ a \in [0..n -> X] /\ a[0] = x0
                           /\ \A i \in Nat : i < n => a[i + 1] = F[a[i]]
           Bad == {n \in Nat : ~\E a : IsPart(n, a)}
<1>1. Bad = {}
  <2>1. SUFFICES ASSUME Bad # {} PROVE FALSE
    OBVIOUS
  <2>2. PICK n \in Bad : \A m \in Bad : n <= m
    <3>1. Bad \subseteq Nat
      OBVIOUS
    <3> HIDE DEF Bad
    <3> QED BY <2>1, <3>1, Least
  <2>3. n # 0
    <3>1. PICK a : a = [i \in 0..0 |-> x0]
      OBVIOUS
    <3>2. IsPart(0, a)
      BY <3>1
    <3> HIDE DEF IsPart
    <3> QED BY <3>2
  <2>4. PICK a : IsPart(n - 1, a)
    <3>1. n - 1 \in Nat /\ ~(n <= n - 1)
      BY <2>3
    <3>2. n - 1 \notin Bad
      BY <2>2, <3>1
    <3> HIDE DEF IsPart
    <3> QED BY <3>1, <3>2
  <2> DEFINE b == [i \in 0..n |-> IF i = n THEN F[a[n - 1]] ELSE a[i]]
  <2>5. IsPart(n, b)
    <3>1. n \in Nat /\ n - 1 \in Nat /\ a[n - 1] \in X
      BY <2>3, <2>4
    <3>2. b \in [0..n -> X] /\ b[0] = x0
      BY <2>3, <2>4, <3>1
    <3>3. ASSUME NEW i \in Nat, i < n PROVE b[i + 1] = F[b[i]]
      <4>1. CASE i = n - 1
        BY <2>3, <3>1, <4>1
      <4>2. CASE i < n - 1
        BY <2>4, <3>1, <4>2
      <4> QED BY <3>1, <3>3, <4>1, <4>2
    <3> HIDE DEF b
    <3> QED BY <3>2, <3>3
  <2> QED BY <2>5
<1>2. \A n \in Nat : \E a : IsPart(n, a)
  BY <1>1
<1>3. ASSUME NEW n \in Nat, NEW m \in Nat, NEW a, NEW b, IsPart(n, a), IsPart(m, b),
             NEW i \in Nat, i <= n, i <= m
      PROVE  a[i] = b[i]
  <2> DEFINE Off == {j \in Nat : j <= n /\ j <= m /\ a[j] # b[j]}
  <2>1. SUFFICES ASSUME Off # {} PROVE FALSE
    BY <1>3
  <2>2. PICK j \in Off : \A l \in Off : j <= l
    BY <2>1, Least
  <2>3. j # 0
    BY <1>3
  <2>4. a[j - 1] = b[j - 1] /\ j - 1 \in Nat
    BY <2>2, <2>3
  <2>5. a[(j - 1) + 1] = F[a[j - 1]] /\ b[(j - 1) + 1] = F[b[j - 1]]
    BY <1>3, <2>2, <2>4
  <2> QED BY <2>2, <2>4, <2>5
<1> DEFINE g == [n \in Nat |-> (CHOOSE a : IsPart(n, a))[n]]
<1>4. ASSUME NEW n \in Nat PROVE IsPart(n, CHOOSE a : IsPart(n, a))
  BY <1>2
<1> HIDE DEF IsPart
<1>5. ASSUME NEW n \in Nat PROVE \E a : IsPart(n, a) /\ g[n] = a[n]
  BY <1>4
<1> HIDE DEF g
<1>6. g[0] = x0
  BY <1>5 DEF IsPart
<1>7. ASSUME NEW i \in Nat PROVE g[i] \in X /\ g[i + 1] = F[g[i]]
  <2>1. PICK a : IsPart(i, a) /\ g[i] = a[i]
    BY <1>5
  <2>2. PICK b : IsPart(i + 1, b) /\ g[i + 1] = b[i + 1]
    BY <1>5
  <2>3. a[i] = b[i]
    BY <1>3, <2>1, <2>2
  <2>4. b[i + 1] = F[b[i]] /\ a[i] \in X
    BY <2>1, <2>2 DEF IsPart
  <2> QED BY <2>1, <2>2, <2>3, <2>4
<1>8. g \in [Nat -> X]
  BY <1>7 DEF g
<1> QED BY <1>6, <1>7, <1>8 DEF Iterated

-----------------------------------------------------------------------------
(* The ring: its stars, and how a node comes and goes.                       *)

\* The ring r has the stars of the nodes nd and no other, one of each hash.
OwnStars(nd, r) ==
    /\ DOMAIN nd \subseteq Nodes
    /\ \A n \in DOMAIN nd : nd[n] \in Weights
    /\ r = [h \in DOMAIN r |-> r[h]]
    /\ \A h \in DOMAIN r : \E n \in DOMAIN nd : h \in Hashi(n, nd[n])
    /\ \A n \in DOMAIN nd : \A h \in Hashi(n, nd[n]) : h \in DOMAIN r /\ r[h] = <<n>>

\* _hashi yields at least one hash, all of them in range.
LEMMA HashiFacts ==
    ASSUME NEW n \in Nodes, NEW w \in Weights
    PROVE  /\ Hashi(n, w) \subseteq 0..(HashSpace - 1)
           /\ Hashi(n, w) # {}
           /\ \A h \in Hashi(n, w) : \E x \in DOMAIN StarHash[n] : h = StarHash[n][x]
<1>1. /\ Vnodes \in Nat /\ Vnodes # 0 /\ w \in Nat /\ w # 0
      /\ StarHash[n] \in Seq(0..(HashSpace - 1)) /\ Vnodes * w <= Len(StarHash[n])
  BY RingAssumption
<1>2. Vnodes * w \in Nat /\ Vnodes * w >= 1
  <2>1. \A a, b \in Nat : a * b \in Nat
    OBVIOUS
  <2>2. Vnodes - 1 \in Nat /\ Vnodes * w = (Vnodes - 1) * w + w
    BY <1>1
  <2>3. (Vnodes - 1) * w \in Nat
    BY <1>1, <2>1, <2>2
  <2> QED BY <1>1, <2>1, <2>2, <2>3
<1> DEFINE v == Vnodes * w
<1> HIDE DEF v
<1>3. v \in Nat /\ v >= 1 /\ v <= Len(StarHash[n])
  BY <1>1, <1>2 DEF v
<1>4. \A x \in 1..v : x \in DOMAIN StarHash[n] /\ StarHash[n][x] \in 0..(HashSpace - 1)
  <2>1. PICK s \in Seq(0..(HashSpace - 1)) : s = StarHash[n]
    BY <1>1
  <2>2. DOMAIN s = 1..Len(s) /\ Len(s) \in Nat
    BY <2>1
  <2>3. \A x \in 1..v : x \in DOMAIN s
    BY <1>3, <2>1, <2>2
  <2>4. \A x \in DOMAIN s : s[x] \in 0..(HashSpace - 1)
    <3>1. PICK H : H = 0..(HashSpace - 1)
      OBVIOUS
    <3>2. s \in Seq(H)
      BY <3>1
    <3>3. ASSUME NEW x \in 1..Len(s) PROVE s[x] \in H
      BY <3>2
    <3> QED BY <2>2, <3>1, <3>3
  <2> QED BY <2>1, <2>3, <2>4
<1>5. Hashi(n, w) = {StarHash[n][x] : x \in 1..v}
  BY DEF Hashi, v
<1> QED BY <1>3, <1>4, <1>5

\* A hash belongs to one node.
LEMMA HashiApart ==
    ASSUME StarsApart, NEW m \in Nodes, NEW n \in Nodes, NEW v \in Weights,
           NEW w \in Weights, NEW h, h \in Hashi(m, v), h \in Hashi(n, w)
    PROVE  m = n
<1>1. PICK x \in DOMAIN StarHash[m] : h = StarHash[m][x]
  BY HashiFacts
<1>2. PICK y \in DOMAIN StarHash[n] : h = StarHash[n][y]
  BY HashiFacts
<1> QED BY <1>1, <1>2 DEF StarsApart

\* Rings that have the stars of the same nodes are equal.
LEMMA OneRing ==
    ASSUME NEW nd, NEW r, NEW q, OwnStars(nd, r), OwnStars(nd, q)
    PROVE  r = q
<1>1. DOMAIN r = DOMAIN q
  BY DEF OwnStars
<1>2. \A h \in DOMAIN r : r[h] = q[h]
  BY DEF OwnStars
<1>3. r = [h \in DOMAIN r |-> r[h]] /\ q = [h \in DOMAIN q |-> q[h]]
  BY DEF OwnStars
<1> QED BY <1>1, <1>2, <1>3

\* insort of the stars of a new node.
LEMMA RingGrows ==
    ASSUME StarsApart, NEW nd, NEW r, OwnStars(nd, r),
           NEW n \in Nodes, NEW w \in Weights, n \notin DOMAIN nd,
           NEW md, DOMAIN md = DOMAIN nd \cup {n}, md[n] = w,
           \A m \in DOMAIN nd : md[m] = nd[m]
    PROVE  OwnStars(md, WithNode(r, n, w))
<1> DEFINE q == WithNode(r, n, w)
<1>1. DOMAIN q = DOMAIN r \cup Hashi(n, w)
  BY DEF WithNode
<1>2. ASSUME NEW h \in Hashi(n, w) PROVE h \notin DOMAIN r
  <2>1. SUFFICES ASSUME h \in DOMAIN r PROVE FALSE
    OBVIOUS
  <2>2. PICK m \in DOMAIN nd : h \in Hashi(m, nd[m])
    BY <2>1 DEF OwnStars
  <2>3. m = n
    BY <2>2, HashiApart DEF OwnStars
  <2> QED BY <2>3
<1>3. \A h \in Hashi(n, w) : q[h] = <<n>>
  BY <1>2 DEF WithNode
<1>4. \A h \in DOMAIN r : q[h] = r[h]
  BY <1>2 DEF WithNode
<1>5. q = [h \in DOMAIN q |-> q[h]]
  BY DEF WithNode
<1> HIDE DEF q
<1>6. /\ DOMAIN md \subseteq Nodes
      /\ \A m \in DOMAIN md : md[m] \in Weights
  BY DEF OwnStars
<1>7. \A h \in DOMAIN q : \E m \in DOMAIN md : h \in Hashi(m, md[m])
  BY <1>1 DEF OwnStars
<1>8. ASSUME NEW m \in DOMAIN md, NEW h \in Hashi(m, md[m])
      PROVE  h \in DOMAIN q /\ q[h] = <<m>>
  <2>1. CASE m = n
    BY <2>1, <1>1, <1>3
  <2>2. CASE m # n
    BY <2>2, <1>1, <1>4 DEF OwnStars
  <2> QED BY <2>1, <2>2
<1>9. OwnStars(md, q)
  BY <1>5, <1>6, <1>7, <1>8 DEF OwnStars
<1> QED BY <1>9 DEF q

\* remove of the stars of a node.
LEMMA RingShrinks ==
    ASSUME StarsApart, NEW nd, NEW r, OwnStars(nd, r), NEW n \in DOMAIN nd,
           NEW md, DOMAIN md = DOMAIN nd \ {n},
           \A m \in DOMAIN md : md[m] = nd[m]
    PROVE  OwnStars(md, WithoutNode(r, n, nd[n]))
<1> DEFINE q == WithoutNode(r, n, nd[n])
           own == Hashi(n, nd[n])
           gone == {h \in DOMAIN r \cap own : Len(r[h]) = 1}
<1>1. \A h \in own : h \in DOMAIN r /\ r[h] = <<n>>
  BY DEF OwnStars
<1>2. gone = own
  BY <1>1
<1>3. q = [h \in DOMAIN r \ gone |-> IF h \in own THEN Tail(r[h]) ELSE r[h]]
  BY DEF WithoutNode
<1> HIDE DEF gone, own, q
<1>4. /\ DOMAIN q = DOMAIN r \ own
      /\ \A h \in DOMAIN q : q[h] = r[h]
      /\ q = [h \in DOMAIN q |-> q[h]]
  BY <1>2, <1>3
<1>5. /\ DOMAIN md \subseteq Nodes
      /\ \A m \in DOMAIN md : md[m] \in Weights
  BY DEF OwnStars
<1>6. ASSUME NEW h \in DOMAIN q PROVE \E m \in DOMAIN md : h \in Hashi(m, md[m])
  <2>1. PICK m \in DOMAIN nd : h \in Hashi(m, nd[m])
    BY <1>4 DEF OwnStars
  <2>2. m # n
    BY <1>4, <2>1 DEF own
  <2> QED BY <2>1, <2>2
<1>7. ASSUME NEW m \in DOMAIN md, NEW h \in Hashi(m, md[m])
      PROVE  h \in DOMAIN q /\ q[h] = <<m>>
  <2>1. h \in DOMAIN r /\ r[h] = <<m>>
    BY DEF OwnStars
  <2>2. h \notin own
    <3>1. SUFFICES ASSUME h \in own PROVE FALSE
      OBVIOUS
    <3>2. m = n
      BY <3>1, <1>5, HashiApart DEF own, OwnStars
    <3> QED BY <3>2
  <2> QED BY <1>4, <2>1, <2>2
<1>8. OwnStars(md, q)
  BY <1>4, <1>5, <1>6, <1>7 DEF OwnStars
<1> QED BY <1>8 DEF q

-----------------------------------------------------------------------------
(* The ring: the walk of assign_key.                                         *)

\* The hashes of a ring are natural numbers below HashSpace, and a ring with nodes
\* has stars.
LEMMA RingHashes ==
    ASSUME NEW nd, NEW r, OwnStars(nd, r)
    PROVE  /\ DOMAIN r \subseteq 0..(HashSpace - 1)
           /\ DOMAIN nd # {} <=> DOMAIN r # {}
<1>1. ASSUME NEW h \in DOMAIN r PROVE h \in 0..(HashSpace - 1) /\ DOMAIN nd # {}
  <2>1. PICK n \in DOMAIN nd : h \in Hashi(n, nd[n])
    BY DEF OwnStars
  <2> QED BY <2>1, HashiFacts DEF OwnStars
<1>2. ASSUME NEW n \in DOMAIN nd PROVE DOMAIN r # {}
  <2>1. PICK h : h \in Hashi(n, nd[n])
    BY HashiFacts DEF OwnStars
  <2> QED BY <2>1 DEF OwnStars
<1> QED BY <1>1, <1>2

\* Where a key falls: on a star, before which no other one comes after the key.
LEMMA PositionFirst ==
    ASSUME NEW r, DOMAIN r # {}, DOMAIN r \subseteq 0..(HashSpace - 1),
           NEW k \in RingKeys
    PROVE  /\ Position(r, k) \in DOMAIN r
           /\ \A g \in DOMAIN r :
                 /\ g > KeyHash[k] => Position(r, k) > KeyHash[k] /\ Position(r, k) <= g
                 /\ ~(Position(r, k) > KeyHash[k]) => Position(r, k) <= g
<1> DEFINE after == {h \in DOMAIN r : h > KeyHash[k]}
           among == IF after = {} THEN DOMAIN r ELSE after
           p == CHOOSE h \in among : \A g \in among : h <= g
<1>1. p = Position(r, k)
  BY DEF Position
<1>2. among \subseteq Nat /\ among # {}
  OBVIOUS
<1>3. \E h \in among : \A g \in among : h <= g
  <2> HIDE DEF among
  <2> QED BY <1>2, Least
<1>4. p \in among /\ \A g \in among : p <= g
  <2> HIDE DEF among
  <2> QED BY <1>3
<1> HIDE DEF p
<1>5. /\ p \in DOMAIN r
      /\ \A g \in DOMAIN r : /\ g > KeyHash[k] => p > KeyHash[k] /\ p <= g
                             /\ ~(p > KeyHash[k]) => p <= g
  <2>1. CASE after = {}
    BY <1>4, <2>1
  <2>2. CASE after # {}
    BY <1>4, <2>2
  <2> QED BY <2>1, <2>2
<1> QED BY <1>1, <1>5

\* In a ring of own stars every star is the only one of its hash.
LEMMA PlacesOwn ==
    ASSUME NEW nd, NEW r, OwnStars(nd, r), NEW s
    PROVE  s \in Places(r) <=> \E h \in DOMAIN r : s = <<h, 1>>
<1>1. ASSUME NEW h \in DOMAIN r PROVE DOMAIN r[h] = {1}
  <2>1. PICK n \in DOMAIN nd : r[h] = <<n>>
    BY DEF OwnStars
  <2> QED BY <2>1
<1> QED BY <1>1 DEF Places

\* Among stars there is one that is met first.
LEMMA FirstMet ==
    ASSUME NEW nd, NEW r, OwnStars(nd, r), NEW p \in Nat,
           NEW S, S # {}, S \subseteq Places(r)
    PROVE  \E s \in S : \A t \in S \ {s} : Sooner(p, s, t)
<1>0. HashSpace \in Nat
  BY RingAssumption
<1>1. \A s \in S : \E h \in DOMAIN r : s = <<h, 1>>
  BY PlacesOwn
<1>2. DOMAIN r \subseteq 0..(HashSpace - 1)
  BY RingHashes
<1>3. \A s \in S : s = <<s[1], 1>> /\ s[2] = 1 /\ s[1] \in Nat /\ s[1] \in 0..HashSpace
  BY <1>0, <1>1, <1>2
<1>4. ASSUME NEW T, T # {}, T \subseteq S
      PROVE  \E s \in T : \A t \in T \ {s} : s[1] > t[1]
  <2> DEFINE H == {s[1] : s \in T}
  <2>1. H # {} /\ H \subseteq 0..HashSpace
    BY <1>3, <1>4
  <2>2. \E m \in H : \A h \in H : h <= m
    <3> HIDE DEF H
    <3> QED BY <1>0, <2>1, Greatest
  <2>3. PICK s \in T : \A t \in T : t[1] <= s[1]
    BY <2>2
  <2>4. ASSUME NEW t \in T \ {s} PROVE s[1] > t[1]
    <3>1. s = <<s[1], 1>> /\ t = <<t[1], 1>> /\ s[1] \in Nat /\ t[1] \in Nat
      BY <1>3, <1>4
    <3>2. s[1] # t[1]
      BY <3>1
    <3> QED BY <2>3, <3>1, <3>2
  <2> QED BY <2>3, <2>4
<1> DEFINE T == {s \in S : Passed(p, s)}
<1>5. CASE T # {}
  <2>1. PICK s \in T : \A t \in T \ {s} : s[1] > t[1]
    BY <1>4, <1>5
  <2>2. \A t : Passed(p, t) \in BOOLEAN
    BY DEF Passed
  <2>3. ASSUME NEW t \in S \ {s} PROVE Sooner(p, s, t)
    <3>1. CASE Passed(p, t)
      BY <2>1, <2>2, <3>1 DEF Sooner
    <3>2. CASE ~Passed(p, t)
      BY <2>1, <2>2, <3>2 DEF Sooner
    <3> QED BY <3>1, <3>2
  <2> QED BY <2>1, <2>3
<1>6. CASE T = {}
  <2>1. PICK s \in S : \A t \in S \ {s} : s[1] > t[1]
    BY <1>4
  <2>2. \A t : Passed(p, t) \in BOOLEAN
    BY DEF Passed
  <2>3. \A t \in S : Passed(p, t) = FALSE
    BY <1>6, <2>2
  <2> QED BY <2>1, <2>3 DEF Sooner
<1> QED BY <1>5, <1>6

\* The result of a loop step: a node of the ring that was not in the result yet, if
\* there is one.
LEMMA LongerFacts ==
    ASSUME NEW nd, NEW r, OwnStars(nd, r), NEW p \in Nat,
           NEW given \in Seq(DOMAIN nd)
    PROVE  \/ /\ Longer(r, p, given) = given
              /\ \A n \in DOMAIN nd : \E x \in DOMAIN given : given[x] = n
           \/ \E n \in DOMAIN nd : /\ Longer(r, p, given) = Append(given, n)
                                   /\ \A x \in DOMAIN given : given[x] # n
<1>1. CASE Others(r, given) = {}
  <2>1. ASSUME NEW n \in DOMAIN nd PROVE \E x \in DOMAIN given : given[x] = n
    <3>1. PICK h : h \in Hashi(n, nd[n])
      BY HashiFacts DEF OwnStars
    <3>2. h \in DOMAIN r /\ r[h] = <<n>> /\ r[h][1] = n
      BY <3>1 DEF OwnStars
    <3>3. PICK s : s = <<h, 1>>
      OBVIOUS
    <3>4. s \in Places(r) /\ r[s[1]][s[2]] = n
      BY <3>2, <3>3, PlacesOwn
    <3> QED BY <1>1, <3>4 DEF Others
  <2> QED BY <1>1, <2>1 DEF Longer
<1>2. CASE Others(r, given) # {}
  <2> DEFINE O == Others(r, given)
             First(s) == s \in O /\ \A t \in O \ {s} : Sooner(p, s, t)
             f == CHOOSE s \in O : \A t \in O \ {s} : Sooner(p, s, t)
  <2>1. O \subseteq Places(r)
    BY DEF Others
  <2>2. \E s \in O : \A t \in O \ {s} : Sooner(p, s, t)
    <3> HIDE DEF O
    <3> QED BY <1>2, <2>1, FirstMet DEF O
  <2>3. f \in O
    <3> HIDE DEF O
    <3> QED BY <2>2
  <2>4. Longer(r, p, given) = Append(given, r[f[1]][f[2]])
    BY <1>2 DEF Longer
  <2> HIDE DEF f
  <2>5. PICK h \in DOMAIN r : f = <<h, 1>>
    BY <2>1, <2>3, PlacesOwn
  <2>6. PICK n \in DOMAIN nd : r[h] = <<n>>
    BY DEF OwnStars
  <2>7. r[f[1]][f[2]] = n
    BY <2>5, <2>6
  <2>8. \A x \in DOMAIN given : given[x] # n
    BY <2>3, <2>7 DEF Others
  <2> QED BY <2>4, <2>7, <2>8
<1> QED BY <1>1, <1>2

\* What assign_key has collected after some turns of its loop.
Collected(nd, first, x, given) ==
    /\ given \in Seq(DOMAIN nd)
    /\ Len(given) \in 1..(x + 1)
    /\ given[1] = first
    /\ \A y, z \in DOMAIN given : given[y] = given[z] => y = z
    /\ \/ Len(given) = x + 1
       \/ \A n \in DOMAIN nd : \E y \in DOMAIN given : given[y] = n

\* One more turn of the loop.
LEMMA CollectedStep ==
    ASSUME NEW nd, NEW r, OwnStars(nd, r), NEW p \in Nat, NEW first,
           NEW x \in Nat, NEW given, Collected(nd, first, x, given)
    PROVE  Collected(nd, first, x + 1, Longer(r, p, given))
<1>1. /\ given \in Seq(DOMAIN nd) /\ Len(given) \in 1..(x + 1) /\ given[1] = first
      /\ \A y, z \in DOMAIN given : given[y] = given[z] => y = z
  BY DEF Collected
<1>2. CASE /\ Longer(r, p, given) = given
           /\ \A n \in DOMAIN nd : \E y \in DOMAIN given : given[y] = n
  <2>1. Len(given) \in 1..(x + 2)
    BY <1>1
  <2> QED BY <1>1, <1>2, <2>1 DEF Collected
<1>3. ASSUME NEW n \in DOMAIN nd, Longer(r, p, given) = Append(given, n),
             \A y \in DOMAIN given : given[y] # n
      PROVE  Collected(nd, first, x + 1, Longer(r, p, given))
  <2> DEFINE more == Append(given, n)
  <2>1. /\ more \in Seq(DOMAIN nd) /\ Len(more) = Len(given) + 1
        /\ more[Len(given) + 1] = n
        /\ \A y \in 1..Len(given) : more[y] = given[y]
        /\ DOMAIN more = 1..(Len(given) + 1) /\ DOMAIN given = 1..Len(given)
        /\ Len(given) \in Nat
    BY <1>1
  <2> HIDE DEF more
  <2>2. more[1] = first /\ Len(more) \in 1..(x + 2)
    BY <1>1, <2>1
  <2>3. ASSUME NEW y \in DOMAIN more, NEW z \in DOMAIN more, more[y] = more[z]
        PROVE  y = z
    <3>1. y \in DOMAIN given \/ y = Len(given) + 1
      BY <2>1
    <3>2. z \in DOMAIN given \/ z = Len(given) + 1
      BY <2>1
    <3>3. \A u \in DOMAIN given : more[u] = given[u] /\ more[u] # n
      BY <1>3, <2>1
    <3> QED BY <1>1, <2>1, <2>3, <3>1, <3>2, <3>3
  <2>4. \/ Len(more) = x + 2
        \/ \A m \in DOMAIN nd : \E y \in DOMAIN more : more[y] = m
    <3>1. CASE Len(given) = x + 1
      BY <2>1, <3>1
    <3>2. CASE \A m \in DOMAIN nd : \E y \in DOMAIN given : given[y] = m
      BY <1>3, <3>2
    <3> QED BY <3>1, <3>2 DEF Collected
  <2>5. Collected(nd, first, x + 1, more)
    <3>1. x + 2 = (x + 1) + 1
      OBVIOUS
    <3>2. Len(more) \in 1..((x + 1) + 1)
      BY <2>2, <3>1
    <3>3. \/ Len(more) = (x + 1) + 1
          \/ \A m \in DOMAIN nd : \E y \in DOMAIN more : more[y] = m
      BY <2>4, <3>1
    <3> QED BY <2>1, <2>2, <2>3, <3>2, <3>3 DEF Collected
  <2> QED BY <1>3, <2>5 DEF more
<1> QED BY <1>1, <1>2, <1>3, LongerFacts

\* assign_key returns what the loop has collected for the replicas.
LEMMA AssignKeyFacts ==
    ASSUME NEW nd, NEW r, OwnStars(nd, r), DOMAIN nd # {}, NEW k \in RingKeys
    PROVE  Collected(nd, r[Position(r, k)][1], Replicas - 1, AssignKey(r, k))
<1> DEFINE p == Position(r, k)
           X == Seq(DOMAIN nd)
           x0 == <<r[p][1]>>
           F == [g \in X |-> Longer(r, p, g)]
           Loop(g) == [x \in Nat |-> IF x = 0 THEN x0 ELSE Longer(r, p, g[x - 1])]
<1>1. DOMAIN r # {} /\ DOMAIN r \subseteq 0..(HashSpace - 1)
  BY RingHashes
<1>2. p \in DOMAIN r /\ p \in Nat
  BY <1>1, PositionFirst
<1>3. PICK m \in DOMAIN nd : r[p] = <<m>>
  BY <1>2 DEF OwnStars
<1>4. r[p][1] = m /\ x0 = <<m>> /\ x0 \in X
  BY <1>3
<1>5. AssignKey(r, k) = (CHOOSE g : g = Loop(g))[Replicas - 1]
  BY DEF AssignKey
<1> HIDE DEF p
<1>6. ASSUME NEW g \in X PROVE Longer(r, p, g) \in X
  <2>1. CASE Longer(r, p, g) = g
    BY <2>1
  <2>2. ASSUME NEW n \in DOMAIN nd, Longer(r, p, g) = Append(g, n)
        PROVE  Longer(r, p, g) \in X
    BY <2>2
  <2> QED BY <1>2, <2>1, <2>2, LongerFacts
<1>7. F \in [X -> X]
  BY <1>6
<1> HIDE DEF X, x0
<1>8. PICK g \in [Nat -> X] : g[0] = x0 /\ \A i \in Nat : g[i + 1] = F[g[i]]
  <2>1. x0 \in X
    BY <1>4
  <2> HIDE DEF F
  <2>2. Iterated(X, x0, F)
    BY <2>1, <1>7, Iterates
  <2> QED BY <2>2 DEF Iterated
<1>9. g = Loop(g)
  <2>1. ASSUME NEW x \in Nat PROVE g[x] = IF x = 0 THEN x0 ELSE Longer(r, p, g[x - 1])
    <3>1. CASE x = 0
      BY <1>8, <3>1
    <3>2. CASE x # 0
      <4>1. x - 1 \in Nat /\ (x - 1) + 1 = x
        BY <3>2
      <4>2. g[x] = F[g[x - 1]] /\ g[x - 1] \in X
        BY <1>8, <4>1
      <4> QED BY <3>2, <4>2
    <3> QED BY <3>1, <3>2
  <2> QED BY <1>8, <2>1
<1> DEFINE c == CHOOSE g_1 : g_1 = Loop(g_1)
<1>10. c = Loop(c)
  BY <1>9
<1> HIDE DEF c
<1>11. c[0] = x0 /\ \A i \in Nat : c[i + 1] = Longer(r, p, c[i])
  <2>1. ASSUME NEW i \in Nat PROVE c[i + 1] = Longer(r, p, c[i])
    <3>1. i + 1 \in Nat /\ i + 1 # 0 /\ (i + 1) - 1 = i
      OBVIOUS
    <3> QED BY <1>10, <3>1
  <2>2. c[0] = x0
    BY <1>10
  <2> QED BY <2>1, <2>2
<1> HIDE DEF Loop
<1>12. ASSUME NEW x \in Nat PROVE Collected(nd, m, x, c[x])
  <2> DEFINE Bad == {y \in Nat : ~Collected(nd, m, y, c[y])}
  <2>1. SUFFICES ASSUME Bad # {} PROVE FALSE
    OBVIOUS
  <2>2. PICK y \in Bad : \A z \in Bad : y <= z
    <3>1. Bad \subseteq Nat
      OBVIOUS
    <3> HIDE DEF Bad
    <3> QED BY <2>1, <3>1, Least
  <2>3. Collected(nd, m, 0, <<m>>)
    BY DEF Collected
  <2>4. y # 0
    BY <2>3, <1>4, <1>11
  <2>5. y - 1 \in Nat /\ ~(y <= y - 1) /\ (y - 1) + 1 = y
    BY <2>4
  <2>6. Collected(nd, m, y - 1, c[y - 1])
    BY <2>2, <2>5
  <2>7. Collected(nd, m, y, Longer(r, p, c[y - 1]))
    BY <1>2, <2>5, <2>6, CollectedStep
  <2>8. c[y] = Longer(r, p, c[y - 1])
    BY <1>11, <2>5
  <2> QED BY <2>7, <2>8
<1>13. Replicas - 1 \in Nat
  BY RingAssumption
<1>14. AssignKey(r, k) = c[Replicas - 1]
  BY <1>5 DEF c, Loop, x0, p
<1> QED BY <1>4, <1>12, <1>13, <1>14 DEF p

-----------------------------------------------------------------------------
(* The ring: its theorems.                                                   *)

\* Each instance has the stars of its nodes and no other.
RingInv ==
    /\ StarsApart
    /\ nodes = [i \in Instances |-> nodes[i]]
    /\ ring = [i \in Instances |-> ring[i]]
    /\ \A i \in Instances : OwnStars(nodes[i], ring[i])

\* add_node and remove_node keep the ring of an instance in step with its nodes.
LEMMA RingInductive ==
    /\ StarsApart /\ RingInit => RingInv
    /\ RingInv /\ [RingNext]_ringVars => RingInv'
<1>1. ASSUME StarsApart, RingInit PROVE RingInv
  <2>1. PICK nd : nd = [n \in {} |-> 0]
    OBVIOUS
  <2>2. DOMAIN nd = {} /\ DOMAIN EmptyRing = {}
    BY <2>1 DEF EmptyRing
  <2>3. EmptyRing = [h \in DOMAIN EmptyRing |-> EmptyRing[h]]
    BY DEF EmptyRing
  <2>4. OwnStars(nd, EmptyRing)
    BY <2>2, <2>3 DEF OwnStars
  <2>5. nodes = [i \in Instances |-> nd] /\ ring = [i \in Instances |-> EmptyRing]
    BY <1>1, <2>1 DEF RingInit
  <2> QED BY <1>1, <2>4, <2>5 DEF RingInv
<1>2. ASSUME RingInv, [RingNext]_ringVars PROVE RingInv'
  <2>0. StarsApart /\ StarsApart'
    BY <1>2 DEF RingInv, StarsApart
  <2>1. CASE UNCHANGED ringVars
    BY <1>2, <2>0, <2>1 DEF RingInv, ringVars
  <2>2. ASSUME NEW i \in Instances, NEW nd, NEW r, OwnStars(nd, r),
               nodes' = [nodes EXCEPT ![i] = nd], ring' = [ring EXCEPT ![i] = r]
        PROVE  RingInv'
    <3>1. /\ nodes' = [j \in Instances |-> nodes'[j]]
          /\ ring' = [j \in Instances |-> ring'[j]]
          /\ nodes'[i] = nd /\ ring'[i] = r
          /\ \A j \in Instances \ {i} : nodes'[j] = nodes[j] /\ ring'[j] = ring[j]
      BY <1>2, <2>2 DEF RingInv
    <3> QED BY <1>2, <2>0, <2>2, <3>1 DEF RingInv
  <2>3. ASSUME NEW i \in Instances, NEW n \in DOMAIN nodes[i]
        PROVE  OwnStars([m \in DOMAIN nodes[i] \ {n} |-> nodes[i][m]],
                        WithoutNode(ring[i], n, nodes[i][n]))
    <3>1. OwnStars(nodes[i], ring[i])
      BY <1>2 DEF RingInv
    <3>2. PICK md : md = [m \in DOMAIN nodes[i] \ {n} |-> nodes[i][m]]
      OBVIOUS
    <3>3. /\ DOMAIN md = DOMAIN nodes[i] \ {n}
          /\ \A m \in DOMAIN md : md[m] = nodes[i][m]
      BY <3>2
    <3>4. OwnStars(md, WithoutNode(ring[i], n, nodes[i][n]))
      BY <2>0, <3>1, <3>3, RingShrinks
    <3> QED BY <3>2, <3>4
  <2>4. ASSUME NEW i \in Instances, NEW n \in Nodes, RemoveNode(i, n) PROVE RingInv'
    BY <2>2, <2>3, <2>4 DEF RemoveNode
  <2>5. ASSUME NEW i \in Instances, NEW n \in Nodes, NEW w \in Weights, AddNode(i, n, w)
        PROVE  RingInv'
    <3>1. PICK nd, r : /\ OwnStars(nd, r) /\ n \notin DOMAIN nd
                       /\ DOMAIN nd = DOMAIN nodes[i] \ {n}
                       /\ \A m \in DOMAIN nd : nd[m] = nodes[i][m]
                       /\ r = IF n \in DOMAIN nodes[i]
                              THEN WithoutNode(ring[i], n, nodes[i][n])
                              ELSE ring[i]
      <4>1. CASE n \in DOMAIN nodes[i]
        <5>1. PICK md : md = [m \in DOMAIN nodes[i] \ {n} |-> nodes[i][m]]
          OBVIOUS
        <5>2. OwnStars(md, WithoutNode(ring[i], n, nodes[i][n]))
          BY <2>3, <4>1, <5>1
        <5>3. /\ DOMAIN md = DOMAIN nodes[i] \ {n}
              /\ \A m \in DOMAIN md : md[m] = nodes[i][m]
          BY <5>1
        <5> QED BY <4>1, <5>2, <5>3
      <4>2. CASE n \notin DOMAIN nodes[i]
        BY <1>2, <4>2 DEF RingInv
      <4> QED BY <4>1, <4>2
    <3>2. PICK md : md = [m \in DOMAIN nodes[i] \cup {n} |->
                             IF m = n THEN w ELSE nodes[i][m]]
      OBVIOUS
    <3>3. /\ DOMAIN md = DOMAIN nd \cup {n} /\ md[n] = w
          /\ \A m \in DOMAIN nd : md[m] = nd[m]
      BY <3>1, <3>2
    <3>4. OwnStars(md, WithNode(r, n, w))
      BY <2>0, <3>1, <3>3, RingGrows
    <3>5. /\ nodes' = [nodes EXCEPT ![i] = md]
          /\ ring' = [ring EXCEPT ![i] = WithNode(r, n, w)]
      BY <2>5, <3>1, <3>2 DEF AddNode
    <3> QED BY <2>2, <3>4, <3>5
  <2> QED BY <1>2, <2>1, <2>4, <2>5 DEF RingNext
<1> QED BY <1>1, <1>2

\* The invariant holds in all states of all instances.
LEMMA RingInvAlways == StarsApart /\ RingSpec => []RingInv
BY RingInductive, PTL DEF RingSpec

\* Agents that see the same members agree on who serves what: rings of the same
\* nodes and weights are equal, and so assign_key gives every key to the same
\* nodes, whatever add_node and remove_node were called before and in whatever
\* order, if the stars of distinct nodes have distinct hashes.
THEOREM RingsAgree == StarsApart /\ RingSpec => []Reproducible
<1>1. ASSUME RingInv PROVE Reproducible
  <2>1. ASSUME NEW i \in Instances, NEW j \in Instances, nodes[i] = nodes[j]
        PROVE  ring[i] = ring[j]
    BY <1>1, <2>1, OneRing DEF RingInv
  <2> QED BY <2>1 DEF Reproducible
<1> QED BY <1>1, RingInvAlways, PTL

\* assign_key: a key gets as many distinct members as there are replicas, or all members if
\* there are fewer, however often the walk meets the same ones.
THEOREM ReplicasAreEnough == StarsApart /\ RingSpec => []EnoughReplicas
<1>1. ASSUME RingInv PROVE EnoughReplicas
  <2> SUFFICES ASSUME NEW i \in Instances, DOMAIN nodes[i] # {}, NEW k \in RingKeys,
                      NEW given, given = AssignKey(ring[i], k)
               PROVE  /\ \A x, y \in DOMAIN given : given[x] = given[y] => x = y
                      /\ \A x \in DOMAIN given : given[x] \in DOMAIN nodes[i]
                      /\ \/ Len(given) = Replicas
                         \/ /\ Len(given) < Replicas
                            /\ \A n \in DOMAIN nodes[i] :
                                  \E x \in DOMAIN given : given[x] = n
    BY DEF EnoughReplicas
  <2>1. PICK first : Collected(nodes[i], first, Replicas - 1, given)
    BY <1>1, AssignKeyFacts DEF RingInv
  <2>2. Replicas \in Nat /\ (Replicas - 1) + 1 = Replicas
    BY RingAssumption
  <2>3. /\ given \in Seq(DOMAIN nodes[i]) /\ Len(given) \in 1..Replicas
        /\ \A x, y \in DOMAIN given : given[x] = given[y] => x = y
        /\ \/ Len(given) = Replicas
           \/ \A n \in DOMAIN nodes[i] : \E y \in DOMAIN given : given[y] = n
    BY <2>1, <2>2 DEF Collected
  <2>4. \A x \in DOMAIN given : given[x] \in DOMAIN nodes[i]
    BY <2>3
  <2>5. Len(given) = Replicas \/ Len(given) < Replicas
    BY <2>2, <2>3
  <2> QED BY <2>3, <2>4, <2>5
<1> QED BY <1>1, RingInvAlways, PTL

\* The first node of an assignment is that of the star that follows the key.  Two
\* rings that have both of their stars have the same one.
LEMMA SameServer ==
    ASSUME StarsApart, NEW was, NEW is, NEW r, NEW q, OwnStars(was, r),
           OwnStars(is, q), DOMAIN r # {}, DOMAIN q # {}, NEW k \in RingKeys
    PROVE  KeyStays(AssignKey(r, k)[1], AssignKey(q, k)[1], was, is)
<1>1. /\ DOMAIN r \subseteq 0..(HashSpace - 1) /\ DOMAIN was # {}
      /\ DOMAIN q \subseteq 0..(HashSpace - 1) /\ DOMAIN is # {}
  BY RingHashes
<1>2. PICK g : g = Position(r, k)
  OBVIOUS
<1>3. PICK h : h = Position(q, k)
  OBVIOUS
<1>4. /\ g \in DOMAIN r
      /\ \A x \in DOMAIN r : /\ x > KeyHash[k] => g > KeyHash[k] /\ g <= x
                             /\ ~(g > KeyHash[k]) => g <= x
  BY <1>1, <1>2, PositionFirst
<1>5. /\ h \in DOMAIN q
      /\ \A x \in DOMAIN q : /\ x > KeyHash[k] => h > KeyHash[k] /\ h <= x
                             /\ ~(h > KeyHash[k]) => h <= x
  BY <1>1, <1>3, PositionFirst
<1>6. PICK old \in DOMAIN was : g \in Hashi(old, was[old])
  BY <1>4 DEF OwnStars
<1>7. PICK new \in DOMAIN is : h \in Hashi(new, is[new])
  BY <1>5 DEF OwnStars
<1>8. r[g] = <<old>> /\ q[h] = <<new>>
  BY <1>6, <1>7 DEF OwnStars
<1>9. AssignKey(r, k)[1] = old /\ AssignKey(q, k)[1] = new
  <2>1. Collected(was, r[g][1], Replicas - 1, AssignKey(r, k))
    BY <1>1, <1>2, AssignKeyFacts
  <2>2. Collected(is, q[h][1], Replicas - 1, AssignKey(q, k))
    BY <1>1, <1>3, AssignKeyFacts
  <2>3. r[g][1] = old /\ q[h][1] = new
    BY <1>8
  <2> QED BY <2>1, <2>2, <2>3 DEF Collected
<1>10. ASSUME new \in DOMAIN was, old \in DOMAIN is,
              was[new] = is[new], was[old] = is[old]
       PROVE  new = old
  <2>1. g \in DOMAIN q /\ h \in DOMAIN r
    BY <1>6, <1>7, <1>10 DEF OwnStars
  <2>2. g \in Nat /\ h \in Nat /\ KeyHash[k] \in Nat
    BY <1>1, <1>4, <1>5, RingAssumption
  <2>3. g = h
    BY <1>4, <1>5, <2>1, <2>2
  <2>4. /\ old \in Nodes /\ new \in Nodes
        /\ was[old] \in Weights /\ is[new] \in Weights
    BY DEF OwnStars
  <2> QED BY <1>6, <1>7, <2>3, <2>4, HashiApart
<1> QED BY <1>9, <1>10 DEF KeyStays

\* add_node and remove_node move few keys: a key moves only to a node that comes or changes its
\* weight, or from one that goes or changes it.
THEOREM KeysStay == StarsApart /\ RingSpec => FewKeysMove
<1>1. ASSUME RingInv, RingInv'
      PROVE  \A i \in Instances, k \in RingKeys :
                DOMAIN ring[i] # {} /\ DOMAIN ring'[i] # {} =>
                    KeyStays(AssignKey(ring[i], k)[1], AssignKey(ring'[i], k)[1],
                             nodes[i], nodes'[i])
  <2> SUFFICES ASSUME NEW i \in Instances, NEW k \in RingKeys,
                      DOMAIN ring[i] # {}, DOMAIN ring'[i] # {}
               PROVE  KeyStays(AssignKey(ring[i], k)[1], AssignKey(ring'[i], k)[1],
                               nodes[i], nodes'[i])
    OBVIOUS
  <2>1. /\ StarsApart /\ OwnStars(nodes[i], ring[i])
        /\ OwnStars(nodes'[i], ring'[i])
    BY <1>1 DEF RingInv
  <2> QED BY <2>1, SameServer
<1>2. RingInv /\ RingInv' =>
          [\A i \in Instances, k \in RingKeys :
              DOMAIN ring[i] # {} /\ DOMAIN ring'[i] # {} =>
                  KeyStays(AssignKey(ring[i], k)[1], AssignKey(ring'[i], k)[1],
                           nodes[i], nodes'[i])]_ringVars
  BY <1>1
<1> QED BY <1>2, RingInvAlways, PTL DEF FewKeysMove

\* A ring of stars whose hashes are in range, whatever their nodes.
TypedRing(nd, r) ==
    /\ DOMAIN nd \subseteq Nodes
    /\ \A n \in DOMAIN nd : nd[n] \in Weights
    /\ \A h \in DOMAIN r : /\ h \in 0..(HashSpace - 1)
                           /\ r[h] # <<>> /\ r[h] \in Seq(Nodes)

\* insort and remove keep the types, even if stars collide.
LEMMA TypedSteps ==
    ASSUME NEW nd, NEW r, TypedRing(nd, r), NEW n \in Nodes, NEW w \in Weights
    PROVE  /\ \A h \in DOMAIN WithNode(r, n, w) :
                 /\ h \in 0..(HashSpace - 1)
                 /\ WithNode(r, n, w)[h] # <<>>
                 /\ WithNode(r, n, w)[h] \in Seq(Nodes)
           /\ \A h \in DOMAIN WithoutNode(r, n, w) :
                 /\ h \in 0..(HashSpace - 1)
                 /\ WithoutNode(r, n, w)[h] # <<>>
                 /\ WithoutNode(r, n, w)[h] \in Seq(Nodes)
<1>0. Hashi(n, w) \subseteq 0..(HashSpace - 1)
  BY HashiFacts
<1>1. ASSUME NEW h \in DOMAIN WithNode(r, n, w)
      PROVE  /\ h \in 0..(HashSpace - 1)
             /\ WithNode(r, n, w)[h] # <<>> /\ WithNode(r, n, w)[h] \in Seq(Nodes)
  <2>1. /\ h \in DOMAIN r \cup Hashi(n, w)
        /\ WithNode(r, n, w)[h] = IF h \notin Hashi(n, w) THEN r[h]
                                  ELSE IF h \in DOMAIN r THEN Append(r[h], n) ELSE <<n>>
    BY DEF WithNode
  <2>2. CASE h \in DOMAIN r
    <3>1. r[h] # <<>> /\ r[h] \in Seq(Nodes) /\ h \in 0..(HashSpace - 1)
      BY <2>2 DEF TypedRing
    <3>2. Append(r[h], n) \in Seq(Nodes) /\ Append(r[h], n) # <<>>
      BY <3>1
    <3> QED BY <2>1, <2>2, <3>1, <3>2
  <2>3. CASE h \notin DOMAIN r
    <3>1. <<n>> \in Seq(Nodes) /\ <<n>> # <<>>
      OBVIOUS
    <3> QED BY <1>0, <2>1, <2>3, <3>1
  <2> QED BY <2>2, <2>3
<1>2. ASSUME NEW h \in DOMAIN WithoutNode(r, n, w)
      PROVE  /\ h \in 0..(HashSpace - 1)
             /\ WithoutNode(r, n, w)[h] # <<>> /\ WithoutNode(r, n, w)[h] \in Seq(Nodes)
  <2>1. /\ h \in DOMAIN r
        /\ WithoutNode(r, n, w)[h] = IF h \in Hashi(n, w) THEN Tail(r[h]) ELSE r[h]
        /\ h \in Hashi(n, w) => Len(r[h]) # 1
    BY DEF WithoutNode
  <2>2. r[h] # <<>> /\ r[h] \in Seq(Nodes) /\ h \in 0..(HashSpace - 1)
    BY <2>1 DEF TypedRing
  <2>3. Len(r[h]) # 1 => Tail(r[h]) \in Seq(Nodes) /\ Tail(r[h]) # <<>>
    <3>1. PICK s \in Seq(Nodes) : s = r[h]
      BY <2>2
    <3>2. ASSUME Len(s) # 1 PROVE Tail(s) \in Seq(Nodes) /\ Len(Tail(s)) # 0
      <4>1. s # <<>> /\ Len(s) \in Nat /\ Len(s) # 0
        BY <2>2, <3>1
      <4> QED BY <3>2, <4>1
    <3> QED BY <3>1, <3>2
  <2> QED BY <2>1, <2>2, <2>3
<1> QED BY <1>1, <1>2

\* The rings of all instances have their types.
RingTyped ==
    /\ nodes = [i \in Instances |-> nodes[i]]
    /\ ring = [i \in Instances |-> ring[i]]
    /\ \A i \in Instances : TypedRing(nodes[i], ring[i])

\* The nodes and the ring of every instance keep their types through add_node and
\* remove_node, even if stars collide.
THEOREM RingTypeCorrect == RingSpec => []RingTypeOK
<1>1. RingInit => RingTyped
  <2>1. ASSUME RingInit, NEW i \in Instances PROVE TypedRing(nodes[i], ring[i])
    <3>1. DOMAIN nodes[i] = {} /\ DOMAIN ring[i] = {}
      BY <2>1 DEF RingInit, EmptyRing
    <3> QED BY <3>1 DEF TypedRing
  <2> QED BY <2>1 DEF RingInit, RingTyped
<1>2. ASSUME RingTyped, [RingNext]_ringVars PROVE RingTyped'
  <2>1. CASE UNCHANGED ringVars
    BY <1>2, <2>1 DEF RingTyped, ringVars
  <2>2. ASSUME NEW i \in Instances, NEW nd, NEW r, TypedRing(nd, r),
               nodes' = [nodes EXCEPT ![i] = nd], ring' = [ring EXCEPT ![i] = r]
        PROVE  RingTyped'
    <3>1. /\ nodes' = [j \in Instances |-> nodes'[j]]
          /\ ring' = [j \in Instances |-> ring'[j]]
          /\ nodes'[i] = nd /\ ring'[i] = r
          /\ \A j \in Instances \ {i} : nodes'[j] = nodes[j] /\ ring'[j] = ring[j]
      BY <1>2, <2>2 DEF RingTyped
    <3> QED BY <1>2, <2>2, <3>1 DEF RingTyped
  <2>3. ASSUME NEW i \in Instances, NEW n \in Nodes, RemoveNode(i, n)
        PROVE  RingTyped'
    <3>1. TypedRing(nodes[i], ring[i]) /\ n \in DOMAIN nodes[i]
      BY <1>2, <2>3 DEF RingTyped, RemoveNode
    <3>2. PICK nd : nd = [m \in DOMAIN nodes[i] \ {n} |-> nodes[i][m]]
      OBVIOUS
    <3>3. TypedRing(nd, WithoutNode(ring[i], n, nodes[i][n]))
      <4>1. nodes[i][n] \in Weights
        BY <3>1 DEF TypedRing
      <4>2. \A h \in DOMAIN WithoutNode(ring[i], n, nodes[i][n]) :
               /\ h \in 0..(HashSpace - 1)
               /\ WithoutNode(ring[i], n, nodes[i][n])[h] # <<>>
               /\ WithoutNode(ring[i], n, nodes[i][n])[h] \in Seq(Nodes)
        BY <3>1, <4>1, TypedSteps
      <4>3. DOMAIN nd \subseteq Nodes /\ \A m \in DOMAIN nd : nd[m] \in Weights
        BY <3>1, <3>2 DEF TypedRing
      <4> QED BY <4>2, <4>3 DEF TypedRing
    <3> QED BY <2>2, <2>3, <3>2, <3>3 DEF RemoveNode
  <2>4. ASSUME NEW i \in Instances, NEW n \in Nodes, NEW w \in Weights, AddNode(i, n, w)
        PROVE  RingTyped'
    <3>1. TypedRing(nodes[i], ring[i])
      BY <1>2 DEF RingTyped
    <3>2. PICK r : r = IF n \in DOMAIN nodes[i] THEN WithoutNode(ring[i], n, nodes[i][n])
                       ELSE ring[i]
      OBVIOUS
    <3>3. TypedRing(nodes[i], r)
      <4>1. CASE n \in DOMAIN nodes[i]
        <5>1. nodes[i][n] \in Weights
          BY <3>1, <4>1 DEF TypedRing
        <5>2. \A h \in DOMAIN WithoutNode(ring[i], n, nodes[i][n]) :
                 /\ h \in 0..(HashSpace - 1)
                 /\ WithoutNode(ring[i], n, nodes[i][n])[h] # <<>>
                 /\ WithoutNode(ring[i], n, nodes[i][n])[h] \in Seq(Nodes)
          BY <3>1, <5>1, TypedSteps
        <5>3. r = WithoutNode(ring[i], n, nodes[i][n])
          BY <3>2, <4>1
        <5> QED BY <3>1, <5>2, <5>3 DEF TypedRing
      <4>2. CASE n \notin DOMAIN nodes[i]
        BY <3>1, <3>2, <4>2
      <4> QED BY <4>1, <4>2
    <3>4. PICK nd : nd = [m \in DOMAIN nodes[i] \cup {n} |->
                             IF m = n THEN w ELSE nodes[i][m]]
      OBVIOUS
    <3>5. TypedRing(nd, WithNode(r, n, w))
      <4>1. \A h \in DOMAIN WithNode(r, n, w) :
               /\ h \in 0..(HashSpace - 1)
               /\ WithNode(r, n, w)[h] # <<>> /\ WithNode(r, n, w)[h] \in Seq(Nodes)
        BY <3>3, TypedSteps
      <4>2. DOMAIN nd \subseteq Nodes /\ \A m \in DOMAIN nd : nd[m] \in Weights
        BY <3>1, <3>4 DEF TypedRing
      <4> QED BY <4>1, <4>2 DEF TypedRing
    <3> QED BY <2>2, <2>4, <3>2, <3>4, <3>5 DEF AddNode
  <2> QED BY <1>2, <2>1, <2>3, <2>4 DEF RingNext
<1>3. RingTyped => RingTypeOK
  BY DEF RingTyped, RingTypeOK, TypedRing
<1> QED BY <1>1, <1>2, <1>3, PTL DEF RingSpec
=============================================================================
