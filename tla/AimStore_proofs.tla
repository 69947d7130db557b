-------------------------- MODULE AimStore_proofs --------------------------
(* Proofs about RowStore, for any number of clients, rows and epochs, and   *)
(* for any tables that are declared as TablesAssumption says (TLC evaluates *)
(* it on all of them); and about ResourceTree, for any objects of the       *)
(* classes of Schema, which are a forest as SchemaAssumption says.          *)
EXTENDS RowStore, ResourceTree, FiniteSetTheorems, SequenceTheorems, TLAPS

-----------------------------------------------------------------------------
(* The inductive invariant.  Its parts are written with the state they      *)
(* depend on as arguments, so that they can be compared between states.     *)

Entries == {"a", "b", "p", "other", "partial"}
\* Association rows without their aim_id.
Kept(r) == {x \in r.lists \X Entries \X (0..2) : x[3] # 0 <=> r.style = "chain"}
Row(ids) == [id : ids, epoch : Nat \ {0}, column : SUBSET {"p"}]

ContentIn(A, aim) == {<<t[2], t[3], t[4]>> : t \in {x \in A : x[1] = aim}}
FreshIn(R, t) == t.aim \in DOMAIN R /\ R[t.aim].epoch = t.epoch

TableOK == table \in TableChoices /\ table.twin <= Len(Classes[table.klass].id)

RowsOK ==
    /\ created \in 0..MaxRows
    /\ DOMAIN rows \subseteq 1..created
    /\ rows \in [DOMAIN rows -> Row(Ids)]

Assoc(r, D, A) ==
    \A t \in A : /\ t = <<t[1], t[2], t[3], t[4]>>
                 /\ t[1] \in D
                 /\ <<t[2], t[3], t[4]>> \in Kept(r)

Apart == \A a, b \in DOMAIN rows : rows[a].id = rows[b].id => a = b

GivenOK(r, g) == DOMAIN g \subseteq Attrs(r) /\ \A a \in DOMAIN g : g[a] \in Values(r, a)

CreateOK(r, ids, t) ==
    /\ t.id \in ids
    /\ t.aim = 0
    /\ GivenOK(r, t.given)
    /\ t.new = FromAttr(r, t.given, {})
    /\ t.column = ColumnOf(r, t.given, {})

\* An object that was read has not become older since.
ReadOK(r, ids, R, cr, t) ==
    /\ t.id \in ids
    /\ t.aim \in 1..cr
    /\ t.epoch \in Nat
    /\ t.seen \subseteq Kept(r)
    /\ t.aim \in DOMAIN R => t.epoch <= R[t.aim].epoch

\* As long as its epoch is the one that was read, so is its column.
UpdateOK(r, ids, R, cr, t) ==
    /\ ReadOK(r, ids, R, cr, t)
    /\ GivenOK(r, t.given)
    /\ t.new = FromAttr(r, t.given, t.seen)
    /\ t.column \subseteq {"p"}
    /\ t.bump \in BOOLEAN
    /\ r.style # "difference" => t.bump
    /\ FreshIn(R, t) => t.column = ColumnOf(r, t.given, R[t.aim].column)

OpenOK(r, ids, R, cr, t) ==
    \/ t = NoTxn
    \/ t.op = "create" /\ CreateOK(r, ids, t)
    \/ t.op = "update" /\ UpdateOK(r, ids, R, cr, t)
    \/ t.op = "delete" /\ ReadOK(r, ids, R, cr, t)

TxnOK ==
    /\ txn = [c \in Clients |-> txn[c]]
    /\ \A c \in Clients : OpenOK(rel, Ids, rows, created, txn[c])

\* The compare and swap keeps the association rows too: unless a deletion has lost its
\* race, an object with the epoch that was read has the rows that were read.
SeenIn(r, R, A, t) ==
    (t.op = "update" /\ FreshIn(R, t) /\ r.style # "difference") => t.seen = ContentIn(A, t.aim)
Current == \A c \in Clients \ torn : SeenIn(rel, rows, assoc, txn[c])

IInv == TableOK /\ RowsOK /\ Assoc(rel, DOMAIN rows, assoc) /\ Apart /\ TxnOK /\ Current

-----------------------------------------------------------------------------
(* Relations, requests and the rows that they become.                      *)

\* Every table that a behaviour may be about is declared as the proofs need it.
LEMMA RelationOK ==
    ASSUME TableOK
    PROVE  table.klass \in Klasses /\ WellKept(rel)
<1>1. ASSUME NEW k \in Klasses, NEW twin \in 0..6, table = Tabled(k, twin, NoRelation)
      PROVE  table.klass \in Klasses /\ WellKept(rel)
  <2>1. table.klass = k /\ rel = NoRelation
    BY <1>1 DEF Tabled, rel
  <2>2. WellKept(NoRelation)
    BY DEF WellKept, NoRelation, Relation
  <2> QED  BY <2>1, <2>2
<1>2. ASSUME NEW k \in Related, NEW x \in DbModelMap[k].relations, table = Tabled(k, 0, x)
      PROVE  table.klass \in Klasses /\ WellKept(rel)
  <2>1. table.klass = k /\ rel = x
    BY <1>2 DEF Tabled, rel
  <2> QED  BY <2>1, TablesAssumption
<1> QED  BY <1>1, <1>2 DEF TableOK, TableChoices

LEMMA ShortValues ==
    ASSUME NEW r, NEW a, NEW list \in Values(r, a)
    PROVE  list \in ShortLists
<1>1. \A x, y \in Entries : <<>> \in ShortLists /\ <<x>> \in ShortLists /\ <<x, y>> \in ShortLists
  BY DEF ShortLists, Entries
<1>2. {<<>>, <<"p">>, <<"a">>, <<"b">>, <<"other", "a">>, <<"b", "a">>, <<"a", "b">>, <<"partial", "a">>}
        \subseteq ShortLists
  BY <1>1 DEF Entries
<1> QED  BY <1>2 DEF Values

LEMMA ShortList ==
    ASSUME NEW list \in ShortLists
    PROVE  \A i \in DOMAIN list : i \in 1..2 /\ list[i] \in Entries
BY DEF ShortLists, Entries

\* Rows are stored under an attribute of the association table.
LEMMA TagOK ==
    ASSUME NEW r, WellKept(r), NEW a \in r.lists \cup r.names
    PROVE  Tag(r, a) \in r.lists /\ (r.style # "domains" => Tag(r, a) = a)
BY DEF WellKept, Tag

LEMMA RowsOfOK ==
    ASSUME NEW r, NEW a \in r.lists, NEW list \in ShortLists
    PROVE  RowsOf(r, a, list) \subseteq Kept(r)
<1> SUFFICES ASSUME NEW i \in DOMAIN list
             PROVE  <<a, list[i], IF r.style = "chain" THEN i ELSE 0>> \in Kept(r)
  BY DEF RowsOf
<1>1. i \in 1..2 /\ list[i] \in Entries
  BY ShortList
<1> QED  BY <1>1 DEF Kept

LEMMA FromAttrOK ==
    ASSUME NEW r, WellKept(r), NEW g, GivenOK(r, g), NEW content \in SUBSET Kept(r)
    PROVE  FromAttr(r, g, content) \subseteq Kept(r)
<1>1. ASSUME NEW a \in DOMAIN g \cap (r.lists \cup r.names)
      PROVE  RowsOf(r, Tag(r, a), g[a]) \subseteq Kept(r)
  <2>1. Tag(r, a) \in r.lists
    BY TagOK
  <2>2. g[a] \in ShortLists
    BY ShortValues DEF GivenOK
  <2> QED  BY <2>1, <2>2, RowsOfOK
<1> QED  BY <1>1 DEF FromAttr

LEMMA ColumnOK ==
    ASSUME NEW r, WellKept(r), NEW g, GivenOK(r, g), NEW column \in SUBSET {"p"}
    PROVE  /\ ColumnOf(r, g, column) \in SUBSET {"p"}
           /\ \A a \in r.columns : ColumnOf(r, g, column) = IF a \in DOMAIN g THEN Range(g[a]) ELSE column
<1>1. CASE r.columns \cap DOMAIN g = {}
  BY <1>1 DEF ColumnOf
<1>2. ASSUME NEW a \in r.columns \cap DOMAIN g
      PROVE  ColumnOf(r, g, column) = Range(g[a]) /\ Range(g[a]) \in SUBSET {"p"} /\ r.columns = {a}
  <2>1. r.columns = {a}
    BY DEF WellKept
  <2>2. (CHOOSE c \in r.columns : TRUE) = a
    BY <2>1
  <2>3. g[a] \in {<<>>, <<"p">>}
    BY DEF GivenOK, Values
  <2>4. Range(g[a]) \in SUBSET {"p"}
    BY <2>3 DEF Range
  <2> QED  BY <2>1, <2>2, <2>4 DEF ColumnOf
<1> QED  BY <1>1, <1>2

\* A request is typed, whatever attributes it gives.
LEMMA RequestsOK ==
    ASSUME NEW r, NEW as \in SUBSET Attrs(r), NEW g \in Requests(r, as)
    PROVE  GivenOK(r, g)
BY DEF Requests, GivenOK

LEMMA PartialsOK ==
    ASSUME NEW r, NEW g \in Partials(r) \cup Requests(r, Attrs(r))
    PROVE  GivenOK(r, g)
<1>1. \E as \in SUBSET Attrs(r) : g \in Requests(r, as)
  BY DEF Partials
<1> QED  BY <1>1, RequestsOK

-----------------------------------------------------------------------------
(* What a flush does to the association rows.                              *)

LEMMA InContent ==
    ASSUME NEW r, NEW D, NEW A, Assoc(r, D, A), NEW aim, NEW x \in Kept(r)
    PROVE  x \in ContentIn(A, aim) <=> <<aim, x[1], x[2], x[3]>> \in A
<1>0. x = <<x[1], x[2], x[3]>>
  BY DEF Kept
<1>1. ASSUME x \in ContentIn(A, aim)
      PROVE  <<aim, x[1], x[2], x[3]>> \in A
  <2>1. PICK t \in A : t[1] = aim /\ x = <<t[2], t[3], t[4]>>
    BY <1>1 DEF ContentIn
  <2>2. t = <<t[1], t[2], t[3], t[4]>>
    BY DEF Assoc
  <2>3. x[1] = t[2] /\ x[2] = t[3] /\ x[3] = t[4]
    BY <2>1
  <2> QED  BY <2>1, <2>2, <2>3
<1>2. ASSUME <<aim, x[1], x[2], x[3]>> \in A
      PROVE  x \in ContentIn(A, aim)
  <2> DEFINE t == <<aim, x[1], x[2], x[3]>>
  <2>1. t \in A /\ t[1] = aim /\ <<t[2], t[3], t[4]>> = <<x[1], x[2], x[3]>>
    BY <1>2
  <2> QED  BY <1>0, <2>1 DEF ContentIn
<1> QED  BY <1>1, <1>2

LEMMA ContentKept ==
    ASSUME NEW r, NEW D, NEW A, Assoc(r, D, A), NEW aim
    PROVE  ContentIn(A, aim) \subseteq Kept(r)
BY DEF Assoc, ContentIn

LEMMA InUnder ==
    ASSUME NEW r, NEW aim, NEW b, NEW C \in SUBSET Kept(r), NEW x \in Kept(r)
    PROVE  <<b, x[1], x[2], x[3]>> \in Under(aim, C) <=> b = aim /\ x \in C
<1>0. \A y \in Kept(r) : y = <<y[1], y[2], y[3]>>
  BY DEF Kept
<1>1. ASSUME <<b, x[1], x[2], x[3]>> \in Under(aim, C)
      PROVE  b = aim /\ x \in C
  <2>1. PICK y \in C : <<b, x[1], x[2], x[3]>> = <<aim, y[1], y[2], y[3]>>
    BY <1>1 DEF Under
  <2>2. b = aim /\ x[1] = y[1] /\ x[2] = y[2] /\ x[3] = y[3]
    BY <2>1
  <2>3. x = y
    BY <1>0, <2>2
  <2> QED  BY <2>2, <2>3
<1> QED  BY <1>1 DEF Under

\* A flush deletes rows Dr and inserts rows Ad of one object.
Flushed(A, aim, Dr, Ad) == (A \ Under(aim, Dr)) \cup Under(aim, Ad)

LEMMA FlushAssoc ==
    ASSUME NEW r, NEW D, NEW A, Assoc(r, D, A), NEW aim,
           NEW Dr \in SUBSET Kept(r), NEW Ad \in SUBSET Kept(r),
           NEW E, D \subseteq E, Ad # {} => aim \in E
    PROVE  Assoc(r, E, Flushed(A, aim, Dr, Ad))
<1> SUFFICES ASSUME NEW t \in Flushed(A, aim, Dr, Ad)
             PROVE  t = <<t[1], t[2], t[3], t[4]>> /\ t[1] \in E /\ <<t[2], t[3], t[4]>> \in Kept(r)
  BY DEF Assoc
<1>1. CASE t \in A
  BY <1>1 DEF Assoc
<1>2. CASE t \in Under(aim, Ad)
  <2>1. PICK y \in Ad : t = <<aim, y[1], y[2], y[3]>>
    BY <1>2 DEF Under
  <2>2. y = <<y[1], y[2], y[3]>> /\ y \in Kept(r)
    BY DEF Kept
  <2>3. t[1] = aim /\ t[2] = y[1] /\ t[3] = y[2] /\ t[4] = y[3]
    BY <2>1
  <2> QED  BY <2>1, <2>2, <2>3
<1> QED  BY <1>1, <1>2 DEF Flushed

LEMMA FlushContent ==
    ASSUME NEW r, NEW D, NEW A, Assoc(r, D, A), NEW aim,
           NEW Dr \in SUBSET Kept(r), NEW Ad \in SUBSET Kept(r)
    PROVE  /\ ContentIn(Flushed(A, aim, Dr, Ad), aim) = (ContentIn(A, aim) \ Dr) \cup Ad
           /\ \A b : b # aim => ContentIn(Flushed(A, aim, Dr, Ad), b) = ContentIn(A, b)
<1> DEFINE B == Flushed(A, aim, Dr, Ad)
<1>1. Assoc(r, D \cup {aim}, B)
  BY FlushAssoc
<1>2. \A b : ContentIn(B, b) \subseteq Kept(r) /\ ContentIn(A, b) \subseteq Kept(r)
  BY <1>1, ContentKept
<1>3. ASSUME NEW b, NEW x \in Kept(r)
      PROVE  x \in ContentIn(B, b) <=> \/ x \in ContentIn(A, b) /\ ~(b = aim /\ x \in Dr)
                                       \/ b = aim /\ x \in Ad
  <2> DEFINE t == <<b, x[1], x[2], x[3]>>
  <2>1. x \in ContentIn(B, b) <=> t \in B
    BY <1>1, InContent
  <2>2. x \in ContentIn(A, b) <=> t \in A
    BY InContent
  <2>3. t \in Under(aim, Dr) <=> b = aim /\ x \in Dr
    BY InUnder
  <2>4. t \in Under(aim, Ad) <=> b = aim /\ x \in Ad
    BY InUnder
  <2> HIDE DEF t
  <2> QED  BY <2>1, <2>2, <2>3, <2>4 DEF Flushed
<1> HIDE DEF B
<1>4. ContentIn(B, aim) = (ContentIn(A, aim) \ Dr) \cup Ad
  BY <1>2, <1>3
<1>5. ASSUME NEW b, b # aim
      PROVE  ContentIn(B, b) = ContentIn(A, b)
  BY <1>2, <1>3, <1>5
<1> QED  BY <1>4, <1>5 DEF B

-----------------------------------------------------------------------------
(* What a reader gets.                                                     *)

\* from_attr() only touches rows of the attributes that are given.
LEMMA Untouched ==
    ASSUME NEW r, WellKept(r), NEW g, GivenOK(r, g), NEW seen \in SUBSET Kept(r), r.style # "domains",
           NEW a, a \notin DOMAIN g, NEW x, x[1] = a
    PROVE  x \in FromAttr(r, g, seen) <=> x \in seen
<1> DEFINE touched == DOMAIN g \cap (r.lists \cup r.names)
<1>1. \A b \in touched : Tag(r, b) = b /\ b # a
  BY TagOK
<1>2. \A b \in touched : x \notin RowsOf(r, Tag(r, b), g[b])
  BY <1>1 DEF RowsOf
<1>3. \A b \in touched : x[1] # Tag(r, b)
  BY <1>1
<1> QED  BY <1>2, <1>3 DEF FromAttr

LEMMA NothingTouched ==
    ASSUME NEW r, NEW g, NEW seen, DOMAIN g \cap (r.lists \cup r.names) = {}
    PROVE  FromAttr(r, g, seen) = seen
BY DEF FromAttr

\* An attribute that is not given is read as before, whatever other transactions have
\* written since it was read.
LEMMA OtherShown ==
    ASSUME NEW r, WellKept(r), NEW g, GivenOK(r, g), NEW seen \in SUBSET Kept(r), r.style # "domains",
           NEW a \in r.lists, a \notin DOMAIN g, NEW C \in SUBSET Kept(r), NEW col, NEW col2,
           NEW new, new = FromAttr(r, g, seen)
    PROVE  Shown(r, col2, (C \ (seen \ new)) \cup (new \ seen), a) = Shown(r, col, C, a)
<1> DEFINE C2 == (C \ (seen \ new)) \cup (new \ seen)
<1>0. r.names = {} /\ a \notin r.columns
  BY DEF WellKept
<1>1. CASE r.style = "chain"
  <2>1. r.lists = {a}
    BY <1>1 DEF WellKept
  <2>2. new = seen
    BY <1>0, <2>1, NothingTouched
  <2>3. C2 = C
    BY <2>2
  <2> QED  BY <1>0, <1>1, <2>3 DEF Shown
<1>2. CASE r.style # "chain"
  <2>1. \A x : x[1] = a => (x \in C2 <=> x \in C)
    BY Untouched
  <2>2. {x \in C2 : a \in r.names \/ x[1] = a} = {x \in C : a \in r.names \/ x[1] = a}
    BY <2>1, <1>0
  <2> HIDE DEF C2
  <2> QED  BY <1>0, <1>2, <2>2 DEF Shown, C2
<1> QED  BY <1>1, <1>2


LEMMA RowsEntries ==
    ASSUME NEW r, NEW l, NEW list \in ShortLists
    PROVE  \A e : e \in Range(Complete(list)) <=> \E t \in RowsOf(r, l, list) : t[2] = e
<1>1. Range(Complete(list)) = Range(list) \ {"partial"}
  BY OrderAssumption
<1>2. ASSUME NEW e \in Range(list), e # "partial"
      PROVE  \E t \in RowsOf(r, l, list) : t[2] = e
  <2>1. PICK i \in DOMAIN list : list[i] = e
    BY DEF Range
  <2> DEFINE t == <<l, list[i], IF r.style = "chain" THEN i ELSE 0>>
  <2>2. t \in RowsOf(r, l, list) /\ t[2] = e
    BY <1>2, <2>1 DEF RowsOf
  <2> QED  BY <2>2
<1>3. ASSUME NEW t \in RowsOf(r, l, list)
      PROVE  t[2] \in Range(list) /\ t[2] # "partial"
  BY DEF RowsOf, Range
<1> QED  BY <1>1, <1>2, <1>3

\* The attribute a of a request as a reader gets it afterwards.
Expected(r, g, a) ==
    LET all == UNION {Range(Complete(g[b])) : b \in DOMAIN g \cap (r.lists \cup r.names)}
    IN  IF r.style = "domains"
        THEN IF a \in r.names THEN all \ r.foreign ELSE all
        ELSE AsRead(r, Complete(g[a]))

LEMMA GivenShown ==
    ASSUME NEW r, WellKept(r), NEW g, GivenOK(r, g), NEW C \in SUBSET Kept(r),
           NEW a \in DOMAIN g, NEW column \in SUBSET {"p"}
    PROVE  Shown(r, ColumnOf(r, g, column), FromAttr(r, g, C), a) = Expected(r, g, a)
<1> DEFINE touched == DOMAIN g \cap (r.lists \cup r.names)
           F == FromAttr(r, g, C)
<1>0. a \in Attrs(r) /\ g[a] \in ShortLists
  BY ShortValues DEF GivenOK
<1>1. \A x \in C : x[1] \in r.lists
  BY DEF Kept
<1>2. \A x : x \in F <=> \/ x \in C /\ \A b \in touched : x[1] # Tag(r, b)
                         \/ \E b \in touched : x \in RowsOf(r, Tag(r, b), g[b])
  BY DEF FromAttr
<1>3. \A b \in touched : g[b] \in ShortLists
  BY ShortValues DEF GivenOK
<1> HIDE DEF F
<1>4. CASE a \in r.columns
  <2>1. r.style # "domains" /\ r.style # "chain"
    BY <1>4 DEF WellKept
  <2>2. ColumnOf(r, g, column) = Range(g[a])
    BY <1>4, ColumnOK
  <2>3. g[a] \in {<<>>, <<"p">>}
    BY <1>4 DEF GivenOK, Values
  <2>4. "partial" \notin Range(g[a])
    BY <2>3 DEF Range
  <2>5. Range(Complete(g[a])) = Range(g[a])
    <3>1. Range(Complete(g[a])) = Range(g[a]) \ {"partial"}
      BY <1>0, OrderAssumption, Zenon
    <3> QED  BY <2>4, <3>1, Zenon
  <2> QED  BY <1>4, <2>1, <2>2, <2>5 DEF Shown, Expected, AsRead
<1>5. CASE a \notin r.columns /\ r.style = "chain"
  <2>1. r.lists = {a} /\ r.names = {} /\ touched = {a} /\ Tag(r, a) = a
    BY <1>0, <1>5 DEF WellKept, Attrs, Tag
  <2>2. F = RowsOf(r, a, g[a])
    BY <1>1, <1>2, <2>1
  <2>3. {<<t[2], t[3]>> : t \in RowsOf(r, a, g[a])}
          = {<<g[a][i], i>> : i \in {j \in DOMAIN g[a] : g[a][j] # "partial"}}
    <3> DEFINE K == {j \in DOMAIN g[a] : g[a][j] # "partial"}
    <3>1. RowsOf(r, a, g[a]) = {<<a, g[a][i], i>> : i \in K}
      BY <1>5 DEF RowsOf
    <3>2. \A t \in RowsOf(r, a, g[a]) : \E i \in K : <<t[2], t[3]>> = <<g[a][i], i>>
      BY <3>1
    <3>3. ASSUME NEW i \in K
          PROVE  \E t \in RowsOf(r, a, g[a]) : <<t[2], t[3]>> = <<g[a][i], i>>
      <4>1. <<a, g[a][i], i>> \in RowsOf(r, a, g[a])
        BY <3>1
      <4> QED  BY <4>1
    <3> QED  BY <3>2, <3>3
  <2>4. InOrder({<<t[2], t[3]>> : t \in F}) = Complete(g[a])
    BY <1>0, <2>2, <2>3, OrderAssumption
  <2> QED  BY <1>5, <2>4 DEF Shown, Expected, AsRead, F
<1>6. CASE a \notin r.columns /\ r.style = "domains"
  <2>1. PICK l \in r.lists : r.lists = {l}
    BY <1>6 DEF WellKept
  <2>2. \A b : Tag(r, b) = l
    BY <1>6, <2>1 DEF Tag
  <2>3. a \in touched
    BY <1>0, <1>6 DEF Attrs
  <2>4. \A x : x \in F <=> \E b \in touched : x \in RowsOf(r, l, g[b])
    BY <1>1, <1>2, <2>1, <2>2, <2>3
  <2>5. \A x \in F : a \in r.names \/ x[1] = a
    <3>1. \A x \in F : x[1] = l
      BY <2>4 DEF RowsOf
    <3> QED  BY <3>1, <2>1, <1>0, <1>6 DEF Attrs
  <2>6. {t[2] : t \in {x \in F : a \in r.names \/ x[1] = a}}
          = UNION {Range(Complete(g[b])) : b \in touched}
    <3>1. \A b \in touched : \A e : e \in Range(Complete(g[b])) <=> \E t \in RowsOf(r, l, g[b]) : t[2] = e
      BY <1>3, RowsEntries
    <3>2. {x \in F : a \in r.names \/ x[1] = a} = F
      BY <2>5
    <3> QED  BY <2>4, <3>1, <3>2
  <2> QED  BY <1>6, <2>6 DEF Shown, Expected, F
<1>7. CASE a \notin r.columns /\ r.style \notin {"chain", "domains"}
  <2>1. r.names = {} /\ a \in r.lists /\ a \in touched
    BY <1>0, <1>7 DEF WellKept, Attrs
  <2>2. \A b : Tag(r, b) = b
    BY <1>7 DEF Tag
  <2>3. \A b \in touched : \A x \in RowsOf(r, b, g[b]) : x[1] = b
    BY DEF RowsOf
  <2>4. \A x : (x \in F /\ x[1] = a) <=> x \in RowsOf(r, a, g[a])
    BY <1>2, <2>1, <2>2, <2>3
  <2>5. {x \in F : a \in r.names \/ x[1] = a} = RowsOf(r, a, g[a])
    BY <2>1, <2>4
  <2>6. {t[2] : t \in RowsOf(r, a, g[a])} = Range(Complete(g[a]))
    BY <1>0, RowsEntries
  <2> QED  BY <1>7, <2>1, <2>5, <2>6 DEF Shown, Expected, AsRead, F
<1> QED  BY <1>4, <1>5, <1>6, <1>7


-----------------------------------------------------------------------------
(* Transactions that are open while others commit.                         *)

\* Rows keep their aim_id, and whatever changes them raises their epoch.
Ages(R, R2, cr) ==
    \A a \in 1..cr : a \in DOMAIN R2 =>
        a \in DOMAIN R /\ (R2[a] = R[a] \/ R2[a].epoch > R[a].epoch)

LEMMA OpenCases ==
    ASSUME NEW r, NEW ids, NEW R, NEW cr, NEW t, OpenOK(r, ids, R, cr, t)
    PROVE  /\ t.op = "create" => CreateOK(r, ids, t)
           /\ t.op = "update" => UpdateOK(r, ids, R, cr, t) /\ ReadOK(r, ids, R, cr, t)
           /\ t.op = "delete" => ReadOK(r, ids, R, cr, t)
BY DEF OpenOK, NoTxn, UpdateOK

LEMMA StillRead ==
    ASSUME NEW r, NEW ids, NEW R, NEW R2, NEW cr \in Nat, NEW cr2 \in Nat, NEW t,
           R \in [DOMAIN R -> Row(ids)], R2 \in [DOMAIN R2 -> Row(ids)],
           Ages(R, R2, cr), cr <= cr2, ReadOK(r, ids, R, cr, t)
    PROVE  /\ ReadOK(r, ids, R2, cr2, t)
           /\ FreshIn(R2, t) => FreshIn(R, t) /\ R2[t.aim] = R[t.aim]
<1>1. t.aim \in 1..cr /\ t.epoch \in Nat /\ (t.aim \in DOMAIN R => t.epoch <= R[t.aim].epoch)
  BY DEF ReadOK
<1>2. CASE t.aim \in DOMAIN R2
  <2>1. t.aim \in DOMAIN R /\ (R2[t.aim] = R[t.aim] \/ R2[t.aim].epoch > R[t.aim].epoch)
    BY <1>1, <1>2 DEF Ages
  <2>2. R[t.aim].epoch \in Nat /\ R2[t.aim].epoch \in Nat
    BY <1>2, <2>1 DEF Row
  <2>3. t.epoch <= R2[t.aim].epoch
    BY <1>1, <2>1, <2>2
  <2>4. R2[t.aim].epoch = t.epoch => R2[t.aim] = R[t.aim] /\ R[t.aim].epoch = t.epoch
    BY <1>1, <2>1, <2>2
  <2>5. t.aim \in 1..cr2
    BY <1>1
  <2> QED  BY <2>1, <2>3, <2>4, <2>5 DEF ReadOK, FreshIn
<1>3. CASE t.aim \notin DOMAIN R2
  <2>1. t.aim \in 1..cr2
    BY <1>1
  <2> QED  BY <1>3, <2>1 DEF ReadOK, FreshIn
<1> QED  BY <1>2, <1>3

LEMMA StillOpen ==
    ASSUME NEW r, NEW ids, NEW R, NEW R2, NEW cr \in Nat, NEW cr2 \in Nat, NEW t,
           R \in [DOMAIN R -> Row(ids)], R2 \in [DOMAIN R2 -> Row(ids)],
           Ages(R, R2, cr), cr <= cr2, OpenOK(r, ids, R, cr, t)
    PROVE  OpenOK(r, ids, R2, cr2, t)
<1>1. CASE t = NoTxn
  BY <1>1 DEF OpenOK
<1>2. CASE t.op = "create" /\ CreateOK(r, ids, t)
  BY <1>2 DEF OpenOK
<1>3. CASE t.op = "update" /\ UpdateOK(r, ids, R, cr, t)
  <2>1. ReadOK(r, ids, R, cr, t)
    BY <1>3 DEF UpdateOK
  <2>2. /\ ReadOK(r, ids, R2, cr2, t)
        /\ FreshIn(R2, t) => FreshIn(R, t) /\ R2[t.aim] = R[t.aim]
    BY <2>1, StillRead
  <2>3. UpdateOK(r, ids, R2, cr2, t)
    BY <1>3, <2>2 DEF UpdateOK
  <2> QED  BY <1>3, <2>3 DEF OpenOK
<1>4. CASE t.op = "delete" /\ ReadOK(r, ids, R, cr, t)
  <2>1. ReadOK(r, ids, R2, cr2, t)
    BY <1>4, StillRead
  <2> QED  BY <1>4, <2>1 DEF OpenOK
<1> QED  BY <1>1, <1>2, <1>3, <1>4 DEF OpenOK

LEMMA StillSeen ==
    ASSUME NEW r, NEW ids, NEW R, NEW R2, NEW cr \in Nat, NEW cr2 \in Nat, NEW t, NEW A, NEW A2,
           R \in [DOMAIN R -> Row(ids)], R2 \in [DOMAIN R2 -> Row(ids)],
           Ages(R, R2, cr), cr <= cr2, OpenOK(r, ids, R, cr, t), SeenIn(r, R, A, t),
           (t.op = "update" /\ FreshIn(R2, t) /\ R2[t.aim] = R[t.aim] /\ r.style # "difference") =>
               ContentIn(A2, t.aim) = ContentIn(A, t.aim)
    PROVE  SeenIn(r, R2, A2, t)
<1> SUFFICES ASSUME t.op = "update", FreshIn(R2, t), r.style # "difference"
             PROVE  t.seen = ContentIn(A2, t.aim)
  BY DEF SeenIn
<1>1. ReadOK(r, ids, R, cr, t)
  BY OpenCases
<1>2. FreshIn(R, t) /\ R2[t.aim] = R[t.aim]
  BY <1>1, StillRead
<1> QED  BY <1>2 DEF SeenIn

\* What a step of one client has to show of the transactions of all.
LEMMA TxnStep ==
    ASSUME IInv, table' = table, NEW c \in Clients, NEW T,
           RowsOK', created <= created', Ages(rows, rows', created),
           txn' = [txn EXCEPT ![c] = T],
           OpenOK(rel, Ids, rows', created', T),
           SeenIn(rel, rows', assoc', T),
           torn \subseteq torn' \cup {c},
           \A d \in Clients \ torn' :
               (/\ d # c /\ txn[d].op = "update" /\ FreshIn(rows', txn[d])
                /\ rows'[txn[d].aim] = rows[txn[d].aim] /\ rel.style # "difference") =>
                   ContentIn(assoc', txn[d].aim) = ContentIn(assoc, txn[d].aim)
    PROVE  TxnOK' /\ Current'
<1>1. rel' = rel /\ Ids' = Ids
  BY DEF rel, Ids
<1>2. /\ created \in Nat /\ created' \in Nat
      /\ rows \in [DOMAIN rows -> Row(Ids)] /\ rows' \in [DOMAIN rows' -> Row(Ids)]
  BY <1>1 DEF IInv, RowsOK
<1>3. txn' = [d \in Clients |-> txn'[d]] /\ txn'[c] = T /\ \A d \in Clients : d # c => txn'[d] = txn[d]
  BY DEF IInv, TxnOK
<1>4. \A d \in Clients : OpenOK(rel, Ids, rows, created, txn[d])
  BY DEF IInv, TxnOK
<1>5. ASSUME NEW d \in Clients
      PROVE  OpenOK(rel, Ids, rows', created', txn'[d])
  <2>1. CASE d = c
    BY <2>1, <1>3
  <2>2. CASE d # c
    <3>1. OpenOK(rel, Ids, rows', created', txn[d])
      BY <1>2, <1>4, StillOpen
    <3> QED  BY <2>2, <3>1, <1>3
  <2> QED  BY <2>1, <2>2
<1>6. ASSUME NEW d \in Clients \ torn'
      PROVE  SeenIn(rel, rows', assoc', txn'[d])
  <2>1. CASE d = c
    BY <2>1, <1>3
  <2>2. CASE d # c
    <3>1. SeenIn(rel, rows, assoc, txn[d])
      BY <2>2 DEF IInv, Current
    <3>2. SeenIn(rel, rows', assoc', txn[d])
      BY <1>2, <1>4, <2>2, <3>1, StillSeen
    <3> QED  BY <2>2, <3>2, <1>3
  <2> QED  BY <2>1, <2>2
<1>7. TxnOK'
  BY <1>1, <1>3, <1>5 DEF TxnOK
<1>8. Current'
  BY <1>1, <1>6 DEF Current
<1> QED  BY <1>7, <1>8

\* The end of a transaction.
LEMMA NoTxnOK ==
    ASSUME NEW r, NEW ids, NEW R, NEW cr, NEW A
    PROVE  OpenOK(r, ids, R, cr, NoTxn) /\ SeenIn(r, R, A, NoTxn)
BY DEF OpenOK, SeenIn, NoTxn


-----------------------------------------------------------------------------
(* The steps.                                                              *)

\* A step that writes nothing.
LEMMA UnwrittenStep ==
    ASSUME IInv, NEW c \in Clients, NEW T, UNCHANGED <<table, rows, assoc, created>>,
           txn' = [txn EXCEPT ![c] = T],
           OpenOK(rel, Ids, rows, created, T), SeenIn(rel, rows, assoc, T),
           torn \subseteq torn' \cup {c}
    PROVE  IInv'
<1>1. rel' = rel /\ Ids' = Ids
  BY DEF rel, Ids
<1>2. TableOK' /\ RowsOK' /\ Assoc(rel, DOMAIN rows, assoc)' /\ Apart'
  <2>1. TableOK' /\ Apart'
    BY DEF IInv, TableOK, Apart
  <2>2. RowsOK'
    BY <1>1 DEF IInv, RowsOK
  <2>3. Assoc(rel, DOMAIN rows, assoc)'
    BY <1>1 DEF IInv
  <2> QED  BY <2>1, <2>2, <2>3
<1>3. Ages(rows, rows', created) /\ created <= created'
  BY DEF Ages, IInv, RowsOK
<1>4. TxnOK' /\ Current'
  BY <1>2, <1>3, TxnStep
<1> QED  BY <1>2, <1>4 DEF IInv

LEMMA BeginStep ==
    ASSUME IInv, NEW c \in Clients, NEW id \in Ids,
           \/ \E given \in Requests(rel, Attrs(rel)) : BeginCreate(c, id, given)
           \/ \E given \in Partials(rel) \cup Requests(rel, Attrs(rel)) : BeginUpdate(c, id, given)
           \/ BeginDelete(c, id)
    PROVE  IInv' /\ last' = Quiet
<1>0. WellKept(rel)
  BY RelationOK DEF IInv
<1>1. ASSUME NEW T, Begins(c, T), OpenOK(rel, Ids, rows, created, T), SeenIn(rel, rows, assoc, T)
      PROVE  IInv' /\ last' = Quiet
  BY <1>1, UnwrittenStep DEF Begins
<1>2. ASSUME NEW given \in Requests(rel, Attrs(rel)), BeginCreate(c, id, given)
      PROVE  IInv' /\ last' = Quiet
  <2> DEFINE T == [op |-> "create", id |-> id, aim |-> 0, given |-> given,
                   new |-> FromAttr(rel, given, {}), column |-> ColumnOf(rel, given, {})]
  <2>1. Begins(c, T)
    BY <1>2 DEF BeginCreate
  <2>2. T.op = "create" /\ CreateOK(rel, Ids, T)
    BY RequestsOK DEF CreateOK
  <2>3. OpenOK(rel, Ids, rows, created, T) /\ SeenIn(rel, rows, assoc, T)
    BY <2>2 DEF OpenOK, SeenIn
  <2> HIDE DEF T
  <2> QED  BY <2>1, <2>3, <1>1
<1>3. \A aim \in DOMAIN rows : /\ aim \in 1..created /\ rows[aim].epoch \in Nat
                               /\ rows[aim].column \in SUBSET {"p"}
                               /\ Content(aim) = ContentIn(assoc, aim) /\ Content(aim) \subseteq Kept(rel)
  <2>1. \A aim : Content(aim) = ContentIn(assoc, aim)
    BY DEF Content, ContentIn
  <2>2. \A aim : ContentIn(assoc, aim) \subseteq Kept(rel)
    BY ContentKept DEF IInv
  <2> QED  BY <2>1, <2>2 DEF IInv, RowsOK, Row
<1>4. ASSUME NEW given \in Partials(rel) \cup Requests(rel, Attrs(rel)), BeginUpdate(c, id, given)
      PROVE  IInv' /\ last' = Quiet
  <2>1. PICK aim \in DOMAIN rows : Begins(c, Updating(id, aim, given))
    BY <1>4 DEF BeginUpdate, Found
  <2> DEFINE T == Updating(id, aim, given)
  <2>2. /\ T.op = "update" /\ T.id = id /\ T.aim = aim /\ T.epoch = rows[aim].epoch /\ T.given = given
        /\ T.seen = Content(aim) /\ T.new = FromAttr(rel, given, Content(aim))
        /\ T.column = ColumnOf(rel, given, rows[aim].column) /\ T.bump = Bumps(given, aim)
    BY DEF Updating
  <2> HIDE DEF T
  <2>3. GivenOK(rel, given)
    BY PartialsOK
  <2>4. T.bump \in BOOLEAN /\ (rel.style # "difference" => T.bump)
    BY <2>2 DEF Bumps
  <2>5. T.column \subseteq {"p"}
    BY <1>0, <1>3, <2>2, <2>3, ColumnOK
  <2>6. ReadOK(rel, Ids, rows, created, T)
    BY <1>3, <2>2 DEF ReadOK
  <2>7. UpdateOK(rel, Ids, rows, created, T)
    BY <2>2, <2>3, <2>4, <2>5, <2>6 DEF UpdateOK
  <2>8. OpenOK(rel, Ids, rows, created, T) /\ SeenIn(rel, rows, assoc, T)
    BY <1>3, <2>2, <2>7 DEF OpenOK, SeenIn
  <2> QED  BY <2>1, <2>8, <1>1 DEF T
<1>5. CASE BeginDelete(c, id)
  <2>1. PICK aim \in DOMAIN rows :
            Begins(c, [op |-> "delete", id |-> id, aim |-> aim, epoch |-> rows[aim].epoch,
                       given |-> <<>>, seen |-> Content(aim)])
    BY <1>5 DEF BeginDelete, Found
  <2> DEFINE T == [op |-> "delete", id |-> id, aim |-> aim, epoch |-> rows[aim].epoch,
                   given |-> <<>>, seen |-> Content(aim)]
  <2>2. T.op = "delete" /\ ReadOK(rel, Ids, rows, created, T)
    BY <1>3 DEF ReadOK
  <2>3. OpenOK(rel, Ids, rows, created, T) /\ SeenIn(rel, rows, assoc, T)
    BY <2>2 DEF OpenOK, SeenIn
  <2>4. Begins(c, T)
    BY <2>1
  <2> HIDE DEF T
  <2> QED  BY <2>3, <2>4, <1>1
<1> QED  BY <1>2, <1>4, <1>5

LEMMA EndedFields ==
    ASSUME NEW end, NEW t, NEW aim, NEW whole, NEW e, e = Ended(end, t, aim, whole)
    PROVE  /\ e.end = end /\ e.op = t.op /\ e.id = t.id /\ e.aim = aim
           /\ e.given = t.given /\ e.whole = whole
BY DEF Ended

\* A transaction that fails or is rolled back.
LEMMA FailStep ==
    ASSUME IInv, NEW c \in Clients, Refuse(c) \/ Rollback(c)
    PROVE  IInv' /\ last'.end # "done" /\ last'.op = txn[c].op /\ last'.id = txn[c].id
<1>1. /\ UNCHANGED <<table, rows, assoc, created>>
      /\ txn' = [txn EXCEPT ![c] = NoTxn] /\ torn' = torn \ {c}
  BY DEF Refuse, Rollback, Ends
<1>2. IInv'
  BY <1>1, NoTxnOK, UnwrittenStep
<1>3. \E end \in {"refused", "rolled back"} : last' = Ended(end, txn[c], txn[c].aim, c \notin torn)
  BY DEF Refuse, Rollback, Ends
<1>4. PICK end \in {"refused", "rolled back"} : \E whole : last' = Ended(end, txn[c], txn[c].aim, whole)
  BY <1>3, Zenon
<1>5. last'.end = end /\ last'.op = txn[c].op /\ last'.id = txn[c].id
  <2>1. PICK whole : last' = Ended(end, txn[c], txn[c].aim, whole)
    BY <1>4
  <2> QED  BY <2>1 DEF Ended
<1> QED  BY <1>2, <1>5

\* A creation that commits: the aim_id is new, and so are all the rows with it.
LEMMA CreateStep ==
    ASSUME IInv, NEW c \in Clients, CommitCreate(c), CreateAllowed(txn[c])
    PROVE  /\ IInv'
           /\ last'.end = "done" /\ last'.op = "create" /\ last'.given = txn[c].given
           /\ last'.aim \in DOMAIN rows'
           /\ rows'[last'.aim].column = ColumnOf(rel, txn[c].given, {})
           /\ ContentIn(assoc', last'.aim) = FromAttr(rel, txn[c].given, {})
           /\ GivenOK(rel, txn[c].given) /\ table' = table
<1> DEFINE t == txn[c]
           aim == created + 1
<1>1. /\ t.op = "create" /\ created < MaxRows
      /\ rows' = [a \in DOMAIN rows \cup {aim} |->
                    IF a = aim THEN [id |-> t.id, epoch |-> 1, column |-> t.column] ELSE rows[a]]
      /\ assoc' = assoc \cup Under(aim, t.new)
      /\ created' = aim /\ torn' = torn \ {c} /\ table' = table
      /\ txn' = [txn EXCEPT ![c] = NoTxn]
      /\ last' = Ended("done", t, aim, c \notin torn)
  BY DEF CommitCreate, Ends
<1>2. rel' = rel /\ Ids' = Ids /\ TableOK'
  BY <1>1 DEF rel, Ids, IInv, TableOK
<1>3. /\ WellKept(rel) /\ table.klass \in Klasses
      /\ created \in Nat /\ created + 1 \in Nat /\ DOMAIN rows \subseteq 1..created
      /\ aim \notin DOMAIN rows /\ rows \in [DOMAIN rows -> Row(Ids)] /\ Assoc(rel, DOMAIN rows, assoc)
  BY RelationOK, BoundAssumption DEF IInv, RowsOK
<1>4. CreateOK(rel, Ids, t)
  BY <1>1, OpenCases DEF IInv, TxnOK
<1>5. t.new \subseteq Kept(rel) /\ t.column \in SUBSET {"p"} /\ t.id \in Ids /\ GivenOK(rel, t.given)
  BY <1>3, <1>4, FromAttrOK, ColumnOK DEF CreateOK
<1> HIDE DEF t, aim
<1>6. [id |-> t.id, epoch |-> 1, column |-> t.column] \in Row(Ids)
  BY <1>5 DEF Row
<1>7. rows' \in [DOMAIN rows' -> Row(Ids)] /\ DOMAIN rows' = DOMAIN rows \cup {aim}
  BY <1>1, <1>3, <1>6
<1>8. RowsOK'
  <2>1. created' \in 0..MaxRows
    BY <1>1, <1>3, BoundAssumption DEF aim
  <2>2. DOMAIN rows' \subseteq 1..created'
    BY <1>1, <1>3, <1>7 DEF aim
  <2> QED  BY <1>2, <1>7, <2>1, <2>2 DEF RowsOK
<1>9. assoc' = Flushed(assoc, aim, {}, t.new)
  BY <1>1 DEF Flushed, Under
<1>10. Assoc(rel, DOMAIN rows, assoc)'
  BY <1>2, <1>3, <1>5, <1>7, <1>9, FlushAssoc
<1>11. Apart'
  <2>1. \A a \in DOMAIN rows : rows[a].id # t.id
    BY <1>3, TablesAssumption DEF CreateAllowed, Clash, Unique, t
  <2>2. \A a \in DOMAIN rows' : rows'[a].id = IF a = aim THEN t.id ELSE rows[a].id
    BY <1>1
  <2> QED  BY <1>7, <2>1, <2>2 DEF Apart, IInv
<1>12. Ages(rows, rows', created) /\ created <= created'
  BY <1>1, <1>3 DEF Ages, aim
<1>13. /\ ContentIn(assoc', aim) = (ContentIn(assoc, aim) \ {}) \cup t.new
       /\ \A b : b # aim => ContentIn(assoc', b) = ContentIn(assoc, b)
  BY <1>3, <1>5, <1>9, FlushContent
<1>14. ContentIn(assoc, aim) = {}
  BY <1>3 DEF ContentIn, Assoc
<1>15. TxnOK' /\ Current'
  <2>1. \A d \in Clients : txn[d].op = "update" => txn[d].aim # aim
    <3>1. \A d \in Clients : txn[d].op = "update" => txn[d].aim \in 1..created
      BY OpenCases DEF IInv, TxnOK, ReadOK
    <3> QED  BY <3>1, <1>3 DEF aim
  <2> QED  BY <1>1, <1>8, <1>12, <1>13, <2>1, NoTxnOK, TxnStep
<1>16. IInv'
  BY <1>2, <1>8, <1>10, <1>11, <1>15 DEF IInv
<1>17. /\ last'.end = "done" /\ last'.op = "create" /\ last'.given = t.given /\ last'.aim = aim
       /\ rows'[aim].column = t.column
  BY <1>1, EndedFields
<1> QED  BY <1>1, <1>4, <1>5, <1>7, <1>13, <1>14, <1>16, <1>17 DEF CreateOK, t


\* An update that commits.  The rows it deletes and inserts are computed from what it
\* has read; Current makes them those of the object.
LEMMA UpdateStep ==
    ASSUME IInv, NEW c \in Clients, CommitUpdate(c), UpdateAllowed(txn[c])
    PROVE  /\ IInv'
           /\ last'.end = "done" /\ last'.op = "update" /\ last'.aim = txn[c].aim
           /\ last'.given = txn[c].given /\ last'.whole = (c \notin torn)
           /\ table' = table /\ DOMAIN rows' = DOMAIN rows
           /\ UpdateOK(rel, Ids, rows, created, txn[c])
           /\ txn[c].bump => FreshIn(rows, txn[c])
           /\ txn[c].aim \in DOMAIN rows =>
                 rows'[txn[c].aim].column =
                     IF txn[c].bump THEN txn[c].column ELSE rows[txn[c].aim].column
           /\ ContentIn(assoc', txn[c].aim) =
                 (ContentIn(assoc, txn[c].aim) \ (txn[c].seen \ txn[c].new)) \cup (txn[c].new \ txn[c].seen)
<1> DEFINE t == txn[c]
           aim == t.aim
<1>1. /\ t.op = "update"
      /\ rows' = IF t.bump
                 THEN [rows EXCEPT ![aim].epoch = @ + 1, ![aim].column = t.column]
                 ELSE rows
      /\ assoc' = (assoc \ Under(aim, Dropped(t))) \cup Under(aim, Added(t))
      /\ torn' = torn \ {c} /\ table' = table /\ created' = created
      /\ txn' = [txn EXCEPT ![c] = NoTxn]
      /\ last' = Ended("done", t, aim, c \notin torn)
  BY DEF CommitUpdate, Ends
<1>2. rel' = rel /\ Ids' = Ids /\ TableOK'
  BY <1>1 DEF rel, Ids, IInv, TableOK
<1>3. /\ WellKept(rel) /\ created \in Nat
      /\ rows \in [DOMAIN rows -> Row(Ids)] /\ Assoc(rel, DOMAIN rows, assoc)
  BY RelationOK, BoundAssumption DEF IInv, RowsOK
<1>4. UpdateOK(rel, Ids, rows, created, t) /\ ReadOK(rel, Ids, rows, created, t)
  BY <1>1, OpenCases DEF IInv, TxnOK
<1>5. /\ (t.bump => FreshIn(rows, t)) /\ (Added(t) # {} => aim \in DOMAIN rows)
  BY DEF UpdateAllowed, Fresh, FreshIn
<1>6. t.seen \subseteq Kept(rel) /\ t.new \subseteq Kept(rel)
  BY <1>3, <1>4, FromAttrOK DEF UpdateOK, ReadOK
<1>7. t.column \in SUBSET {"p"} /\ t.bump \in BOOLEAN
  BY <1>4 DEF UpdateOK
<1> HIDE DEF t, aim
<1>8. ASSUME t.bump
      PROVE  /\ aim \in DOMAIN rows /\ DOMAIN rows' = DOMAIN rows
             /\ rows' \in [DOMAIN rows -> Row(Ids)]
             /\ \A a \in DOMAIN rows : a # aim => rows'[a] = rows[a]
             /\ rows'[aim].id = rows[aim].id /\ rows'[aim].column = t.column
             /\ rows'[aim].epoch > rows[aim].epoch /\ rows'[aim] # rows[aim]
  <2>1. aim \in DOMAIN rows
    BY <1>5, <1>8 DEF FreshIn, aim
  <2>2. rows[aim] \in Row(Ids) /\ rows[aim].epoch \in Nat /\ rows[aim].epoch > 0
    BY <1>3, <2>1 DEF Row
  <2> DEFINE e == rows[aim].epoch + 1
             new == [rows[aim] EXCEPT !.epoch = e, !.column = t.column]
  <2>3. e \in Nat \ {0} /\ e > rows[aim].epoch
    BY <2>2
  <2>4. rows' = [rows EXCEPT ![aim] = new]
    BY <1>1, <1>8, <1>3, <2>1, <2>2 DEF Row
  <2> HIDE DEF e
  <2>5. new \in Row(Ids) /\ new.id = rows[aim].id /\ new.column = t.column /\ new.epoch = e
    BY <1>7, <2>2, <2>3 DEF Row
  <2> HIDE DEF new
  <2>6. /\ rows' \in [DOMAIN rows -> Row(Ids)] /\ DOMAIN rows' = DOMAIN rows
        /\ \A a \in DOMAIN rows : a # aim => rows'[a] = rows[a]
        /\ rows'[aim] = new
    BY <1>3, <2>1, <2>4, <2>5
  <2>7. rows'[aim].epoch > rows[aim].epoch /\ rows'[aim] # rows[aim]
    BY <2>2, <2>3, <2>5, <2>6
  <2> QED  BY <2>1, <2>5, <2>6, <2>7
<1>9. ASSUME ~t.bump PROVE rows' = rows
  BY <1>1, <1>9
<1>10. /\ rows' \in [DOMAIN rows' -> Row(Ids)] /\ DOMAIN rows' = DOMAIN rows
       /\ \A a \in DOMAIN rows : rows'[a].id = rows[a].id
  BY <1>3, <1>7, <1>8, <1>9
<1>11. Ages(rows, rows', created) /\ created <= created'
  BY <1>1, <1>3, <1>7, <1>8, <1>9 DEF Ages
<1>12. RowsOK' /\ Apart'
  BY <1>1, <1>2, <1>10 DEF IInv, RowsOK, Apart
<1>13. assoc' = Flushed(assoc, aim, t.seen \ t.new, t.new \ t.seen)
  BY <1>1 DEF Flushed, Dropped, Added
<1>14. Assoc(rel, DOMAIN rows, assoc)'
  BY <1>2, <1>3, <1>5, <1>6, <1>10, <1>13, FlushAssoc DEF Added
<1>15. /\ ContentIn(assoc', aim) = (ContentIn(assoc, aim) \ (t.seen \ t.new)) \cup (t.new \ t.seen)
       /\ \A b : b # aim => ContentIn(assoc', b) = ContentIn(assoc, b)
  BY <1>3, <1>6, <1>13, FlushContent
<1>16. TxnOK' /\ Current'
  <2>1. rel.style # "difference" => t.bump
    BY <1>4 DEF UpdateOK
  <2>2. \A d \in Clients \ torn' :
            (/\ d # c /\ txn[d].op = "update" /\ FreshIn(rows', txn[d])
             /\ rows'[txn[d].aim] = rows[txn[d].aim] /\ rel.style # "difference") =>
                ContentIn(assoc', txn[d].aim) = ContentIn(assoc, txn[d].aim)
    BY <1>8, <1>15, <2>1
  <2> QED  BY <1>1, <1>11, <1>12, <2>2, NoTxnOK, TxnStep
<1>17. IInv'
  BY <1>2, <1>12, <1>14, <1>16 DEF IInv
<1>18. /\ last'.end = "done" /\ last'.op = "update" /\ last'.aim = aim
       /\ last'.given = t.given /\ last'.whole = (c \notin torn)
  BY <1>1, EndedFields
<1>19. aim \in DOMAIN rows => rows'[aim].column = IF t.bump THEN t.column ELSE rows[aim].column
  BY <1>7, <1>8, <1>9
<1> QED  BY <1>1, <1>4, <1>5, <1>10, <1>15, <1>17, <1>18, <1>19 DEF t, aim

\* A deletion that commits.  The foreign key makes it take all the rows of the object;
\* when its epoch is outdated it takes the rows that it has read, and the object stays.
LEMMA DeleteStep ==
    ASSUME IInv, NEW c \in Clients, CommitDelete(c), DeleteAllowed(txn[c])
    PROVE  IInv' /\ last'.end = "done" /\ last'.op = "delete"
<1> DEFINE t == txn[c]
           aim == t.aim
<1>1. /\ t.op = "delete"
      /\ rows' = IF Fresh(t) THEN [a \in DOMAIN rows \ {aim} |-> rows[a]] ELSE rows
      /\ assoc' = assoc \ Under(aim, t.seen)
      /\ torn' = (torn \cup Tears(t)) \ {c} /\ table' = table /\ created' = created
      /\ txn' = [txn EXCEPT ![c] = NoTxn]
      /\ last' = Ended("done", t, aim, c \notin torn)
  BY DEF CommitDelete, Ends
<1>2. rel' = rel /\ Ids' = Ids /\ TableOK'
  BY <1>1 DEF rel, Ids, IInv, TableOK
<1>3. /\ created \in Nat
      /\ rows \in [DOMAIN rows -> Row(Ids)] /\ Assoc(rel, DOMAIN rows, assoc)
  BY DEF IInv, RowsOK
<1>4. ReadOK(rel, Ids, rows, created, t)
  BY <1>1, OpenCases DEF IInv, TxnOK
<1>5. t.seen \subseteq Kept(rel)
  BY <1>4 DEF ReadOK
<1>6. Fresh(t) => ContentIn(assoc, aim) \subseteq t.seen
  BY DEF DeleteAllowed, Unseen, Content, ContentIn
<1> HIDE DEF t, aim
<1>7. /\ DOMAIN rows' = IF Fresh(t) THEN DOMAIN rows \ {aim} ELSE DOMAIN rows
      /\ \A a \in DOMAIN rows' : rows'[a] = rows[a]
      /\ rows' \in [DOMAIN rows' -> Row(Ids)]
  <2>1. CASE Fresh(t)
    BY <1>1, <1>3, <2>1
  <2>2. CASE ~Fresh(t)
    BY <1>1, <1>3, <2>2
  <2> QED  BY <2>1, <2>2
<1>8. Ages(rows, rows', created) /\ created <= created'
  BY <1>1, <1>3, <1>7 DEF Ages
<1>9. RowsOK' /\ Apart'
  BY <1>1, <1>2, <1>7 DEF IInv, RowsOK, Apart
<1>10. assoc' = Flushed(assoc, aim, t.seen, {})
  BY <1>1 DEF Flushed, Under
<1>11. /\ ContentIn(assoc', aim) = (ContentIn(assoc, aim) \ t.seen) \cup {}
       /\ \A b : b # aim => ContentIn(assoc', b) = ContentIn(assoc, b)
  <2>1. PICK none \in SUBSET Kept(rel) : none = {}
    OBVIOUS
  <2>2. /\ ContentIn(Flushed(assoc, aim, t.seen, none), aim) = (ContentIn(assoc, aim) \ t.seen) \cup none
        /\ \A b : b # aim => ContentIn(Flushed(assoc, aim, t.seen, none), b) = ContentIn(assoc, b)
    <3>1. t.seen \in SUBSET Kept(rel) /\ none \in SUBSET Kept(rel)
      BY <1>5, <2>1
    <3> HIDE <2>1
    <3> QED  BY <1>3, <3>1, FlushContent
  <2> QED  BY <1>10, <2>1, <2>2
<1>12. Assoc(rel, DOMAIN rows, assoc)'
  <2>1. Assoc(rel, DOMAIN rows, assoc')
    BY <1>3, <1>5, <1>10, FlushAssoc
  <2>2. Fresh(t) => \A x \in assoc' : x[1] # aim
    <3>1. Fresh(t) => ContentIn(assoc', aim) = {}
      BY <1>6, <1>11
    <3>2. \A x \in assoc' : x[1] = aim => <<x[2], x[3], x[4]>> \in ContentIn(assoc', aim)
      BY DEF ContentIn
    <3> QED  BY <3>1, <3>2
  <2>3. Assoc(rel, DOMAIN rows', assoc')
    BY <1>7, <2>1, <2>2 DEF Assoc
  <2> QED  BY <1>2, <2>3
<1>13. TxnOK' /\ Current'
  <2>1. ASSUME NEW d \in Clients \ torn', d # c, txn[d].op = "update", FreshIn(rows', txn[d])
        PROVE  ContentIn(assoc', txn[d].aim) = ContentIn(assoc, txn[d].aim)
    <3>1. CASE txn[d].aim # aim
      BY <3>1, <1>11
    <3>2. CASE txn[d].aim = aim
      <4>1. txn[d] # NoTxn
        BY <2>1 DEF NoTxn
      <4>2. Fresh(t)
        BY <1>1, <2>1, <3>2, <4>1 DEF Tears, aim
      <4> QED  BY <1>7, <2>1, <3>2, <4>2 DEF FreshIn
    <3> QED  BY <3>1, <3>2
  <2> QED  BY <1>1, <1>8, <1>9, <2>1, NoTxnOK, TxnStep
<1>14. IInv'
  BY <1>2, <1>9, <1>12, <1>13 DEF IInv
<1> QED  BY <1>1, <1>14, EndedFields


\* Every step is one of those above; what is said of its end is what the properties
\* about "last" need.
LEMMA Step ==
    ASSUME IInv, Next
    PROVE  \/ IInv' /\ last' = Quiet
           \/ \E c \in Clients :
                 \/ CommitCreate(c) /\ CreateAllowed(txn[c])
                 \/ CommitUpdate(c) /\ UpdateAllowed(txn[c])
                 \/ CommitDelete(c) /\ DeleteAllowed(txn[c])
                 \/ txn[c].op = "create" /\ ~CreateAllowed(txn[c]) /\ Refuse(c)
                 \/ txn[c].op # "create" /\ Refuse(c)
                 \/ Rollback(c)
<1>1. PICK c \in Clients :
          \/ \E id \in Ids :
                \/ \E given \in Requests(rel, Attrs(rel)) : BeginCreate(c, id, given)
                \/ \E given \in Partials(rel) \cup Requests(rel, Attrs(rel)) : BeginUpdate(c, id, given)
                \/ BeginDelete(c, id)
          \/ CommitCreate(c) \/ CommitUpdate(c) \/ CommitDelete(c) \/ Rollback(c)
  BY DEF Next
<1>2. CASE CommitCreate(c)
  BY <1>2 DEF CommitCreate
<1>3. CASE CommitUpdate(c)
  BY <1>3 DEF CommitUpdate
<1>4. CASE CommitDelete(c)
  BY <1>4 DEF CommitDelete
<1> QED  BY <1>1, <1>2, <1>3, <1>4, BeginStep

LEMMA Inductive ==
    ASSUME IInv, [Next]_vars
    PROVE  IInv'
<1>1. CASE UNCHANGED vars
  <2>1. rel' = rel /\ Ids' = Ids
    BY <1>1 DEF vars, rel, Ids
  <2>2. TableOK' /\ RowsOK' /\ Apart'
    BY <1>1, <2>1 DEF vars, IInv, TableOK, RowsOK, Apart
  <2>3. Assoc(rel, DOMAIN rows, assoc)'
    BY <1>1, <2>1 DEF vars, IInv
  <2>4. TxnOK' /\ Current'
    BY <1>1, <2>1 DEF vars, IInv, TxnOK, Current
  <2> QED  BY <2>2, <2>3, <2>4 DEF IInv
<1>2. CASE Next
  BY <1>2, Step, CreateStep, UpdateStep, DeleteStep, FailStep
<1> QED  BY <1>1, <1>2

LEMMA Initially == Init => IInv
<1> SUFFICES ASSUME Init PROVE IInv
  OBVIOUS
<1>1. TableOK
  BY DEF Init, TableOK
<1>2. rows = <<>> /\ DOMAIN rows = {} /\ assoc = {} /\ created = 0
  BY DEF Init
<1>3. RowsOK /\ Apart
  BY <1>2, BoundAssumption DEF RowsOK, Apart
<1>4. Assoc(rel, DOMAIN rows, assoc)
  BY <1>2 DEF Assoc
<1>5. TxnOK /\ Current
  BY NoTxnOK DEF Init, TxnOK, Current
<1> QED  BY <1>1, <1>3, <1>4, <1>5 DEF IInv

-----------------------------------------------------------------------------
(* Theorems.                                                               *)

\* The tables stay well formed whatever transactions overlap: aim_ids are not used
\* again, and association rows carry an attribute and a position of their table.
THEOREM TypeCorrect == Spec => []TypeOK
<1>1. IInv => TypeOK
  <2> SUFFICES ASSUME IInv PROVE TypeOK
    OBVIOUS
  <2>1. \A aim \in DOMAIN rows :
            rows[aim].id \in Ids /\ rows[aim].epoch > 0 /\ rows[aim].column \subseteq {"p"}
    BY DEF IInv, RowsOK, Row
  <2>2. ASSUME NEW t \in assoc
        PROVE  t[1] \in 1..created /\ t[2] \in rel.lists /\ (t[4] # 0 <=> rel.style = "chain")
    <3>1. t[1] \in DOMAIN rows /\ <<t[2], t[3], t[4]>> \in Kept(rel)
      BY DEF IInv, Assoc
    <3> QED  BY <3>1 DEF IInv, RowsOK, Kept
  <2> QED  BY <2>1, <2>2 DEF IInv, TableOK, RowsOK, TypeOK
<1> QED  BY <1>1, Initially, Inductive, PTL DEF Spec

\* Deletions leave no association rows behind and updates add none to an object that
\* is gone, though neither sees the other before its flush.
THEOREM NoOrphansAreLeft == Spec => []NoOrphans
<1>1. IInv => NoOrphans
  BY DEF IInv, Assoc, NoOrphans
<1> QED  BY <1>1, Initially, Inductive, PTL DEF Spec

\* Only equal identities clash in a table whose constraint has the identity of its
\* class.
LEMMA ClashIsEqual ==
    ASSUME IInv, NEW i \in Ids, NEW j \in Ids, Clash(i, j)
    PROVE  i = j
<1>1. table.klass \in Klasses
  BY RelationOK DEF IInv
<1>2. table.twin \in 0..6
  BY DEF IInv, TableOK, TableChoices, Tabled
<1>3. CASE table.twin = 0
  BY <1>3 DEF Ids
<1>4. CASE table.twin # 0
  <2>1. table.twin \in DOMAIN Classes[table.klass].id
    BY <1>1, <1>2, <1>4, TablesAssumption DEF IInv, TableOK
  <2>2. Classes[table.klass].id[table.twin] \in Range(Classes[table.klass].id)
    BY <2>1 DEF Range
  <2> QED  BY <1>1, <2>2, TablesAssumption DEF Clash, Unique
<1> QED  BY <1>3, <1>4

\* Two sessions that create one object at the same time do not both succeed, and no
\* creation is refused unless its object exists, for every table.
THEOREM IdentitiesAreUnique == Spec => []IdentityIsUnique
<1>1. Init => IdentityIsUnique
  BY DEF Init, IdentityIsUnique, Quiet
<1>2. IInv /\ IdentityIsUnique /\ [Next]_vars => IdentityIsUnique'
  <2> SUFFICES ASSUME IInv, IdentityIsUnique, [Next]_vars
               PROVE  IdentityIsUnique'
    OBVIOUS
  <2>1. Apart'
    BY Inductive DEF IInv
  <2>2. CASE UNCHANGED vars
    BY <2>2 DEF vars, IdentityIsUnique, Found
  <2>3. CASE Next
    <3> SUFFICES ASSUME last'.end = "refused", last'.op = "create"
                 PROVE  Found(last.id)' # {}
      BY <2>1 DEF Apart, IdentityIsUnique
    <3>1. last' # Quiet
      BY DEF Quiet
    <3>2. PICK c \in Clients :
              \/ CommitCreate(c) /\ CreateAllowed(txn[c])
              \/ CommitUpdate(c) /\ UpdateAllowed(txn[c])
              \/ CommitDelete(c) /\ DeleteAllowed(txn[c])
              \/ txn[c].op = "create" /\ ~CreateAllowed(txn[c]) /\ Refuse(c)
              \/ txn[c].op # "create" /\ Refuse(c)
              \/ Rollback(c)
      BY <2>3, <3>1, Step
    <3>3. ~Rollback(c)
      <4> SUFFICES ASSUME Rollback(c) PROVE FALSE
        OBVIOUS
      <4>1. PICK whole : last' = Ended("rolled back", txn[c], txn[c].aim, whole)
        BY Zenon DEF Rollback, Ends
      <4>2. last'.end = "rolled back"
        BY <4>1 DEF Ended
      <4> QED  BY <4>2
    <3>4. txn[c].op = "create" /\ ~CreateAllowed(txn[c]) /\ Refuse(c)
      BY <3>2, <3>3, CreateStep, UpdateStep, DeleteStep, FailStep
    <3>5. PICK aim \in DOMAIN rows : Clash(txn[c].id, rows[aim].id)
      BY <3>4 DEF CreateAllowed
    <3>6. txn[c].id \in Ids /\ rows[aim].id \in Ids
      BY <3>4, OpenCases DEF IInv, TxnOK, CreateOK, RowsOK, Row
    <3>7. rows[aim].id = txn[c].id
      BY <3>5, <3>6, ClashIsEqual
    <3>8. last'.id = txn[c].id /\ rows' = rows
      BY <3>4, FailStep DEF Refuse
    <3> QED  BY <3>7, <3>8 DEF Found
  <2> QED  BY <2>2, <2>3
<1> QED  BY <1>1, <1>2, Initially, Inductive, PTL DEF Spec

\* What a committed request has given is what a reader gets, for every way of storing
\* lists and whatever has been committed between the read and the flush.
THEOREM WrittenIsReadBack == Spec => []ReadsBack
<1>1. Init => ReadsBack
  BY DEF Init, ReadsBack, Written, Quiet
<1>2. IInv /\ ReadsBack /\ [Next]_vars => ReadsBack'
  <2> SUFFICES ASSUME IInv, ReadsBack, [Next]_vars
               PROVE  ReadsBack'
    OBVIOUS
  <2>1. CASE UNCHANGED vars
    <3>1. table' = table /\ rows' = rows /\ assoc' = assoc /\ last' = last
      BY <2>1 DEF vars
    <3>2. rel' = rel
      BY <3>1 DEF rel
    <3>3. Written' <=> Written
      BY <3>1, <3>2 DEF Written
    <3>4. GivenIsRead = \A a \in DOMAIN last.given : Read(last.aim, a) = Expected(rel, last.given, a)
      BY DEF GivenIsRead, Expected
    <3>5. GivenIsRead' = \A a \in DOMAIN last'.given : Read(last.aim, a)' = Expected(rel', last'.given, a)
      BY DEF GivenIsRead, Expected
    <3>6. GivenIsRead' = \A a \in DOMAIN last.given : Read(last.aim, a) = Expected(rel, last.given, a)
      <4>1. \A a : Read(last.aim, a)' = Read(last.aim, a)
        BY <3>1, <3>2 DEF Read, Content
      <4> QED  BY <3>1, <3>2, <3>5, <4>1
    <3> QED  BY <3>1, <3>3, <3>4, <3>6 DEF ReadsBack
  <2>2. CASE Next
    <3> SUFFICES ASSUME last'.end = "done", last'.op \in {"create", "update"}, last'.whole,
                        rel'.style # "difference", NEW a \in DOMAIN last'.given
                 PROVE  Read(last.aim, a)' = Expected(rel', last'.given, a)
      BY DEF ReadsBack, Written, GivenIsRead, Expected
    <3>1. last' # Quiet
      BY DEF Quiet
    <3>2. PICK c \in Clients : \/ CommitCreate(c) /\ CreateAllowed(txn[c])
                               \/ CommitUpdate(c) /\ UpdateAllowed(txn[c])
      BY <2>2, <3>1, Step, DeleteStep, FailStep
    <3>3. WellKept(rel)
      BY RelationOK DEF IInv
    <3> DEFINE g == txn[c].given
               col == rows'[last'.aim].column
               C == ContentIn(assoc', last'.aim)
    <3>4. SUFFICES rel' = rel /\ last'.given = g /\ Shown(rel, col, C, a) = Expected(rel, g, a)
      BY DEF Read, Content, ContentIn
    <3>5. CASE CommitCreate(c) /\ CreateAllowed(txn[c])
      <4>1. /\ last'.given = g /\ col = ColumnOf(rel, g, {}) /\ C = FromAttr(rel, g, {})
            /\ GivenOK(rel, g) /\ table' = table
        BY <3>5, CreateStep
      <4> QED  BY <3>3, <4>1, GivenShown DEF rel
    <3>6. CASE CommitUpdate(c) /\ UpdateAllowed(txn[c])
      <4> DEFINE t == txn[c]
      <4>1. /\ last'.aim = t.aim /\ last'.given = g /\ last'.whole = (c \notin torn) /\ table' = table
            /\ UpdateOK(rel, Ids, rows, created, t) /\ (t.bump => FreshIn(rows, t))
            /\ t.aim \in DOMAIN rows => col = IF t.bump THEN t.column ELSE rows[t.aim].column
            /\ C = (ContentIn(assoc, t.aim) \ (t.seen \ t.new)) \cup (t.new \ t.seen)
        BY <3>6, UpdateStep
      <4>2. rel' = rel /\ c \notin torn /\ t.op = "update"
        BY <3>6, <4>1 DEF rel, CommitUpdate
      <4>3. t.bump /\ FreshIn(rows, t)
        BY <4>1, <4>2 DEF UpdateOK
      <4>4. t.seen = ContentIn(assoc, t.aim)
        BY <4>2, <4>3 DEF IInv, Current, SeenIn
      <4>5. C = t.new
        BY <4>1, <4>4
      <4>6. t.aim \in DOMAIN rows /\ col = ColumnOf(rel, g, rows[t.aim].column)
        BY <4>1, <4>3 DEF FreshIn, UpdateOK
      <4>7. rows[t.aim].column \in SUBSET {"p"} /\ t.seen \in SUBSET Kept(rel)
            /\ t.new = FromAttr(rel, g, t.seen) /\ GivenOK(rel, g)
        BY <4>1, <4>6 DEF IInv, RowsOK, Row, UpdateOK, ReadOK
      <4> HIDE DEF g, col, C
      <4> QED  BY <3>3, <4>1, <4>2, <4>5, <4>6, <4>7, GivenShown
    <3> QED  BY <3>2, <3>5, <3>6
  <2> QED  BY <2>1, <2>2
<1> QED  BY <1>1, <1>2, Initially, Inductive, PTL DEF Spec

\* An update changes no attribute that it was not given, although it writes rows that
\* it has computed from what it has read.
THEOREM UpdatesKeepOthers == Spec => OthersKept
<1> DEFINE Keeps == \A aim \in DOMAIN rows :
                (last'.end = "done" /\ last'.op = "update" /\ last'.aim = aim /\ rel.style # "domains") =>
                   \A a \in Attrs(rel) : a \in DOMAIN last'.given \/ Read(aim, a)' = Read(aim, a)
<1>1. IInv /\ [Next]_vars => [Keeps]_vars
  <2> SUFFICES ASSUME IInv, Next, NEW aim \in DOMAIN rows,
                      last'.end = "done", last'.op = "update", last'.aim = aim, rel.style # "domains",
                      NEW a \in Attrs(rel), a \notin DOMAIN last'.given
               PROVE  Read(aim, a)' = Read(aim, a)
    OBVIOUS
  <2>1. last' # Quiet
    BY DEF Quiet
  <2>2. PICK c \in Clients : CommitUpdate(c) /\ UpdateAllowed(txn[c])
    BY <2>1, Step, CreateStep, DeleteStep, FailStep
  <2>3. WellKept(rel)
    BY RelationOK DEF IInv
  <2> DEFINE t == txn[c]
             g == t.given
             col == rows'[aim].column
             C == ContentIn(assoc', aim)
             C0 == ContentIn(assoc, aim)
  <2>4. /\ t.aim = aim /\ last'.given = g /\ table' = table
        /\ UpdateOK(rel, Ids, rows, created, t) /\ (t.bump => FreshIn(rows, t))
        /\ col = IF t.bump THEN t.column ELSE rows[aim].column
        /\ C = (C0 \ (t.seen \ t.new)) \cup (t.new \ t.seen)
    BY <2>2, UpdateStep
  <2>5. SUFFICES Shown(rel, col, C, a) = Shown(rel, rows[aim].column, C0, a)
    BY <2>4 DEF Read, Content, ContentIn, rel
  <2>6. /\ GivenOK(rel, g) /\ t.seen \in SUBSET Kept(rel) /\ t.new = FromAttr(rel, g, t.seen)
        /\ rows[aim].column \in SUBSET {"p"} /\ t.bump \in BOOLEAN
    BY <2>4 DEF IInv, RowsOK, Row, UpdateOK, ReadOK
  <2>7. C0 \in SUBSET Kept(rel)
    BY ContentKept DEF IInv
  <2>8. CASE a \in rel.columns
    <3>1. col = rows[aim].column
      <4>1. t.bump => t.column = ColumnOf(rel, g, rows[aim].column)
        BY <2>4 DEF UpdateOK
      <4>2. ColumnOf(rel, g, rows[aim].column) = rows[aim].column
        BY <2>3, <2>4, <2>6, <2>8, ColumnOK
      <4> QED  BY <2>4, <2>6, <4>1, <4>2
    <3> HIDE DEF col, C, C0
    <3> QED  BY <2>8, <3>1 DEF Shown
  <2>9. CASE a \in rel.lists
    <3> HIDE DEF col, C, C0, g
    <3>1. a \notin DOMAIN g
      BY <2>4
    <3> QED  BY <2>3, <2>4, <2>6, <2>7, <2>9, <3>1, OtherShown
  <2>10. rel.names = {}
    BY <2>3 DEF WellKept
  <2> QED  BY <2>8, <2>9, <2>10 DEF Attrs
<1> QED  BY <1>1, Initially, Inductive, PTL DEF Spec, OthersKept

-----------------------------------------------------------------------------
(* ResourceTree.  First the classes and the objects of the schema.          *)

IdLen(k) == Len(Classes[k].id)
Prefix(o, k) == Obj(k, SubSeq(o.id, 1, IdLen(k)))

\* What the schema says of the classes above a class.
LEMMA Forest ==
    ASSUME NEW k \in Klasses
    PROVE  /\ IdLen(k) \in Nat
           /\ k \in Lineage[k]
           /\ \A j \in Lineage[k] : /\ j \in Klasses
                                    /\ Lineage[j] \subseteq Lineage[k]
                                    /\ k \in Lineage[j] => j = k
                                    /\ IdLen(j) <= IdLen(k)
           /\ \A i, j \in Lineage[k] : i \in Lineage[j] \/ j \in Lineage[i]
           /\ \E r \in Lineage[k] : Classes[r].parent = None
           /\ Classes[k].parent = None => Lineage[k] = {k}
           /\ Classes[k].parent # None => /\ Classes[k].parent \in Klasses \ {k}
                                          /\ Lineage[k] = {k} \cup Lineage[Classes[k].parent]
<1>1. Classes[k].id \in Seq(STRING)
  BY SchemaAssumption
<1>2. IdLen(k) \in Nat
  BY <1>1 DEF IdLen
<1>3. Classes[k].parent = None => Lineage[k] = {k}
  BY SchemaAssumption
<1>4. Classes[k].parent # None => /\ Classes[k].parent \in Klasses \ {k}
                                  /\ Lineage[k] = {k} \cup Lineage[Classes[k].parent]
  BY SchemaAssumption
<1>5. k \in Lineage[k]
  BY <1>3, <1>4
<1>6. \A j \in Lineage[k] : /\ j \in Klasses
                            /\ Lineage[j] \subseteq Lineage[k]
                            /\ k \in Lineage[j] => j = k
                            /\ IdLen(j) <= IdLen(k)
  BY SchemaAssumption DEF IdLen
<1>7. \A i, j \in Lineage[k] : i \in Lineage[j] \/ j \in Lineage[i]
  BY SchemaAssumption
<1>8. \E r \in Lineage[k] : Classes[r].parent = None
  BY SchemaAssumption
<1> QED  BY <1>2, <1>3, <1>4, <1>5, <1>6, <1>7, <1>8

\* The object of a class above that an object names by the first values of its identity.
LEMMA PrefixIs ==
    ASSUME NEW o \in Objects, NEW k \in Lineage[o.klass]
    PROVE  /\ Prefix(o, k) \in Objects
           /\ Prefix(o, k).klass = k
           /\ Len(Prefix(o, k).id) = IdLen(k)
           /\ \A i \in 1..IdLen(k) : Prefix(o, k).id[i] = o.id[i]
<1>1. o.klass \in Klasses /\ o.id \in Seq(Nat) /\ Len(o.id) = IdLen(o.klass)
  BY DEF Objects, IdLen
<1>2. k \in Klasses /\ IdLen(k) \in Nat /\ IdLen(k) <= Len(o.id)
  BY <1>1, Forest
<1>3. SubSeq(o.id, 1, IdLen(k)) \in Seq(Nat) /\ Len(SubSeq(o.id, 1, IdLen(k))) = IdLen(k)
      /\ \A i \in 1..IdLen(k) : SubSeq(o.id, 1, IdLen(k))[i] = o.id[i]
  BY <1>1, <1>2
<1> QED  BY <1>2, <1>3 DEF Prefix, Obj, Objects, IdLen

\* The ancestors by the classes and the values of the identity.
LEMMA AncestorsAre ==
    ASSUME NEW o \in Objects, NEW a
    PROVE  a \in Ancestors(o) <=>
              /\ a \in Objects
              /\ a.klass \in Lineage[o.klass] \ {o.klass}
              /\ \A i \in 1..Len(a.id) : a.id[i] = o.id[i]
<1>1. Ancestors(o) = {Prefix(o, k) : k \in Lineage[o.klass] \ {o.klass}}
  BY DEF Ancestors, Prefix, IdLen
<1>2. ASSUME a \in Ancestors(o)
      PROVE  /\ a \in Objects
             /\ a.klass \in Lineage[o.klass] \ {o.klass}
             /\ \A i \in 1..Len(a.id) : a.id[i] = o.id[i]
  <2>1. PICK k \in Lineage[o.klass] \ {o.klass} : a = Prefix(o, k)
    BY <1>1, <1>2
  <2> QED  BY <2>1, PrefixIs
<1>3. ASSUME a \in Objects, a.klass \in Lineage[o.klass] \ {o.klass},
             \A i \in 1..Len(a.id) : a.id[i] = o.id[i]
      PROVE  a \in Ancestors(o)
  <2> DEFINE b == Prefix(o, a.klass)
  <2>1. b \in Objects /\ b.klass = a.klass /\ Len(b.id) = IdLen(a.klass)
        /\ \A i \in 1..IdLen(a.klass) : b.id[i] = o.id[i]
    BY <1>3, PrefixIs
  <2> HIDE DEF b
  <2>2. a.id \in Seq(Nat) /\ b.id \in Seq(Nat) /\ Len(a.id) = Len(b.id)
    BY <1>3, <2>1 DEF Objects, IdLen
  <2>3. \A i \in 1..Len(a.id) : a.id[i] = b.id[i]
    BY <1>3, <2>1, <2>2
  <2>4. a.id = b.id
    BY <2>2, <2>3, SeqEqual
  <2>5. a = [klass |-> a.klass, id |-> a.id] /\ b = [klass |-> b.klass, id |-> b.id]
    BY <1>3, <2>1 DEF Objects, IdLen
  <2>6. a = b
    BY <2>1, <2>4, <2>5
  <2> QED  BY <1>1, <1>3, <2>6 DEF b
<1> QED  BY <1>2, <1>3

LEMMA AncestorsTransitive ==
    ASSUME NEW o \in Objects, NEW b \in Ancestors(o), NEW a \in Ancestors(b)
    PROVE  a \in Ancestors(o)
<1>1. /\ b \in Objects
      /\ b.klass \in Lineage[o.klass] \ {o.klass}
      /\ \A i \in 1..Len(b.id) : b.id[i] = o.id[i]
  BY AncestorsAre
<1>2. /\ a \in Objects
      /\ a.klass \in Lineage[b.klass] \ {b.klass}
      /\ \A i \in 1..Len(a.id) : a.id[i] = b.id[i]
  BY <1>1, AncestorsAre
<1>3. o.klass \in Klasses /\ b.klass \in Klasses
  BY <1>1 DEF Objects
<1>4. a.klass \in Lineage[o.klass] /\ a.klass # o.klass
  BY <1>1, <1>2, <1>3, Forest
<1>5. Len(a.id) \in Nat /\ Len(b.id) \in Nat /\ Len(a.id) <= Len(b.id)
  BY <1>1, <1>2, <1>3, Forest DEF Objects, IdLen
<1>6. \A i \in 1..Len(a.id) : a.id[i] = o.id[i]
  BY <1>1, <1>2, <1>5
<1> QED  BY <1>2, <1>4, <1>6, AncestorsAre

\* The ancestors of an object are a chain.
LEMMA AncestorsChain ==
    ASSUME NEW o \in Objects, NEW a \in Ancestors(o), NEW b \in Ancestors(o), a # b
    PROVE  a \in Ancestors(b) \/ b \in Ancestors(a)
<1>1. /\ a \in Objects
      /\ a.klass \in Lineage[o.klass] \ {o.klass}
      /\ \A i \in 1..Len(a.id) : a.id[i] = o.id[i]
  BY AncestorsAre
<1>2. /\ b \in Objects
      /\ b.klass \in Lineage[o.klass] \ {o.klass}
      /\ \A i \in 1..Len(b.id) : b.id[i] = o.id[i]
  BY AncestorsAre
<1>3. o.klass \in Klasses /\ a.klass \in Klasses /\ b.klass \in Klasses
      /\ Len(a.id) = IdLen(a.klass) /\ Len(b.id) = IdLen(b.klass) /\ Len(a.id) \in Nat /\ Len(b.id) \in Nat
  BY <1>1, <1>2 DEF Objects, IdLen
<1>4. a.klass # b.klass
  <2>1. PICK k \in Lineage[o.klass] \ {o.klass} : a = Prefix(o, k)
    BY DEF Ancestors, Prefix, IdLen
  <2>2. PICK j \in Lineage[o.klass] \ {o.klass} : b = Prefix(o, j)
    BY DEF Ancestors, Prefix, IdLen
  <2>3. a.klass = k /\ b.klass = j
    BY <2>1, <2>2, PrefixIs
  <2> QED  BY <2>1, <2>2, <2>3
<1>5. CASE a.klass \in Lineage[b.klass]
  <2>1. Len(a.id) <= Len(b.id)
    BY <1>3, <1>5, Forest
  <2>2. \A i \in 1..Len(a.id) : a.id[i] = b.id[i]
    BY <1>1, <1>2, <1>3, <2>1
  <2> QED  BY <1>1, <1>2, <1>4, <1>5, <2>2, AncestorsAre
<1>6. CASE b.klass \in Lineage[a.klass]
  <2>1. Len(b.id) <= Len(a.id)
    BY <1>3, <1>6, Forest
  <2>2. \A i \in 1..Len(b.id) : b.id[i] = a.id[i]
    BY <1>1, <1>2, <1>3, <2>1
  <2> QED  BY <1>1, <1>2, <1>4, <1>6, <2>2, AncestorsAre
<1> QED  BY <1>1, <1>2, <1>3, <1>5, <1>6, Forest

LEMMA NotBoth ==
    ASSUME NEW a \in Objects, NEW b \in Ancestors(a)
    PROVE  a \notin Ancestors(b) /\ a # b
<1>1. b \in Objects /\ b.klass \in Lineage[a.klass] \ {a.klass}
  BY AncestorsAre
<1>2. a \in Ancestors(b) => a.klass \in Lineage[b.klass]
  BY <1>1, AncestorsAre
<1>3. a.klass \in Klasses
  BY DEF Objects
<1> QED  BY <1>1, <1>2, <1>3, Forest

\* The parent is the first of the ancestors.
LEMMA ParentIs ==
    ASSUME NEW o \in Objects, HasParent(o)
    PROVE  /\ Parent(o) \in Ancestors(o)
           /\ Parent(o) \in Objects
           /\ \A a \in Ancestors(o) : a = Parent(o) \/ a \in Ancestors(Parent(o))
<1> DEFINE k == Classes[o.klass].parent
           p == Parent(o)
<1>1. o.klass \in Klasses
  BY DEF Objects
<1>2. k \in Klasses \ {o.klass} /\ Lineage[o.klass] = {o.klass} \cup Lineage[k]
  BY <1>1, Forest DEF HasParent
<1>3. k \in Lineage[o.klass] \ {o.klass} /\ o.klass \notin Lineage[k] /\ k \in Lineage[k]
  BY <1>1, <1>2, Forest
<1>4. p = Prefix(o, k)
  BY DEF Parent, Prefix, IdLen
<1>5. p \in Ancestors(o)
  BY <1>3, <1>4 DEF Ancestors, Prefix, IdLen
<1>6. p \in Objects /\ p.klass = k
  BY <1>3, <1>4, PrefixIs
<1>7. ASSUME NEW a \in Ancestors(o), a # p  PROVE a \in Ancestors(p)
  <2>1. a \in Ancestors(p) \/ p \in Ancestors(a)
    BY <1>5, <1>7, AncestorsChain
  <2>2. a \in Objects /\ a.klass \in Lineage[k]
    BY <1>2, AncestorsAre
  <2>3. ASSUME p \in Ancestors(a)  PROVE FALSE
    <3>1. k \in Lineage[a.klass] \ {a.klass}
      BY <1>6, <2>2, <2>3, AncestorsAre
    <3> QED  BY <1>2, <2>2, <3>1, Forest
  <2> QED  BY <2>1, <2>3
<1> QED  BY <1>5, <1>6, <1>7

\* An object and the objects under it have one root.
LEMMA OneRoot ==
    ASSUME NEW o \in Objects, NEW a \in Ancestors(o)
    PROVE  RootOf(a) = RootOf(o)
<1> DEFINE Tops(x) == {r \in {x} \cup Ancestors(x) : ~HasParent(r)}
<1>1. a \in Objects
  BY AncestorsAre
<1>2. o.klass \in Klasses /\ a.klass \in Klasses
  BY <1>1 DEF Objects
<1>3. Tops(a) \subseteq Tops(o)
  BY AncestorsTransitive
<1>4. Tops(a) # {}
  <2>1. PICK k \in Lineage[a.klass] : Classes[k].parent = None
    BY <1>2, Forest
  <2>2. CASE k = a.klass
    BY <2>1, <2>2 DEF HasParent
  <2>3. CASE k # a.klass
    <3>1. Prefix(a, k) \in Ancestors(a) /\ Prefix(a, k).klass = k
      BY <1>1, <2>3, PrefixIs DEF Ancestors, Prefix, IdLen
    <3> QED  BY <2>1, <3>1 DEF HasParent
  <2> QED  BY <2>2, <2>3
<1>5. ASSUME NEW x \in Tops(o), NEW y \in Tops(o)  PROVE x = y
  <2>1. ASSUME NEW u \in Objects, ~HasParent(u)  PROVE Ancestors(u) = {}
    <3>1. u.klass \in Klasses /\ Lineage[u.klass] = {u.klass}
      BY <2>1, Forest DEF Objects, HasParent
    <3> QED  BY <3>1 DEF Ancestors
  <2>2. x \in Objects /\ y \in Objects
    BY AncestorsAre
  <2>3. Ancestors(x) = {} /\ Ancestors(y) = {}
    BY <2>1, <2>2
  <2>4. CASE x = o \/ y = o
    BY <2>3, <2>4
  <2>5. CASE x # o /\ y # o
    BY <2>3, <2>5, AncestorsChain
  <2> QED  BY <2>4, <2>5
<1>6. Tops(a) = Tops(o)
  BY <1>3, <1>4, <1>5
<1>7. RootOf(a) = CHOOSE r : r \in Tops(a)
  BY DEF RootOf
<1>8. RootOf(o) = CHOOSE r : r \in Tops(o)
  BY DEF RootOf
<1> HIDE DEF Tops
<1> QED  BY <1>6, <1>7, <1>8

-----------------------------------------------------------------------------
(* The inductive invariant: the relatives are objects of the schema.       *)

FamilyOK == \A r \in DOMAIN family : family[r] \in Objects
ResourceIInv == FamilyOK /\ ResourceTypeOK

LEMMA UniverseObjects ==
    ASSUME FamilyOK
    PROVE  Universe \subseteq Objects
BY DEF FamilyOK, Universe

-----------------------------------------------------------------------------
(* What the operations do to the statuses.                                 *)

StatusesOK(st) == st \in [DOMAIN st -> Statuses] /\ DOMAIN st \subseteq Present

\* get_subtree finds what is under an object.
LEMMA SubtreeIs ==
    ASSUME NEW r \in Objects, Present \subseteq Objects
    PROVE  Subtree(r) = Below(r, Present)
<1>1. ASSUME NEW o \in Present  PROVE o \in Subtree(r) <=> r \in Ancestors(o)
  <2>1. o \in Objects
    OBVIOUS
  <2> QED  BY <2>1, AncestorsAre DEF Subtree
<1> QED  BY <1>1 DEF Subtree, Below

LEMMA WithStatusIs ==
    ASSUME NEW st, StatusesOK(st), NEW o
    PROVE  /\ StatusesOK(WithStatus(o, st))
           /\ \A x \in DOMAIN WithStatus(o, st) :
                 WithStatus(o, st)[x] = StatusOf(x, st)
<1>1. \A x : StatusOf(x, st) \in Statuses
  BY DEF StatusOf, StatusesOK, Statuses
<1>2. CASE o \in Present
  BY <1>1, <1>2 DEF WithStatus, StatusesOK
<1>3. CASE o \notin Present
  BY <1>3 DEF WithStatus, StatusesOK, StatusOf
<1> QED  BY <1>2, <1>3

LEMMA SetSyncIs ==
    ASSUME NEW st, StatusesOK(st), NEW o \in Present, NEW s \in Statuses
    PROVE  /\ StatusesOK(SetSync(o, s, st))
           /\ \A x \in DOMAIN SetSync(o, s, st) :
                 SetSync(o, s, st)[x] = IF x = o THEN s ELSE StatusOf(x, st)
<1> DEFINE w == WithStatus(o, st)
<1>1. StatusesOK(w) /\ \A x \in DOMAIN w : w[x] = StatusOf(x, st)
  BY WithStatusIs
<1>2. SetSync(o, s, st) = [w EXCEPT ![o] = s]
  BY DEF SetSync
<1> HIDE DEF w
<1> QED  BY <1>1, <1>2 DEF StatusesOK

LEMMA SyncErrorIs ==
    ASSUME NEW st, StatusesOK(st), NEW o
    PROVE  /\ StatusesOK(SyncError(o, st))
           /\ \A x \in DOMAIN SyncError(o, st) :
                 SyncError(o, st)[x] = IF MaySet(o, {Failed}, st) /\ x \in {o} \cup Subtree(o)
                                       THEN Failed ELSE StatusOf(x, st)
<1>1. CASE MaySet(o, {Failed}, st)
  <2>1. o \in Present /\ Subtree(o) \subseteq Present
    BY <1>1 DEF MaySet, Subtree
  <2> QED  BY <1>1, <2>1 DEF SyncError, Fail, StatusesOK, StatusOf, Statuses
<1>2. CASE ~MaySet(o, {Failed}, st)
  BY <1>2, WithStatusIs DEF SyncError
<1> QED  BY <1>1, <1>2

LEMMA SyncPendingIs ==
    ASSUME NEW st, StatusesOK(st), NEW o
    PROVE  /\ StatusesOK(SyncPending(o, st))
           /\ \A x \in DOMAIN SyncPending(o, st) :
                 SyncPending(o, st)[x] =
                    IF /\ MaySet(o, {Pending}, st)
                       /\ x = o \/ (x \in Visited(o, st) /\ HasFailed(x, st))
                    THEN Pending ELSE StatusOf(x, st)
<1>1. \A x : StatusOf(x, st) \in Statuses
  BY DEF StatusOf, StatusesOK, Statuses
<1>2. CASE MaySet(o, {Pending}, st)
  BY <1>1, <1>2 DEF SyncPending, StatusesOK, Statuses
<1>3. CASE ~MaySet(o, {Pending}, st)
  BY <1>3, WithStatusIs DEF SyncPending
<1> QED  BY <1>2, <1>3

-----------------------------------------------------------------------------
(* Types.                                                                  *)

LEMMA ResourceInitOK ==
    ASSUME ResourceInit
    PROVE  ResourceIInv
<1>1. family \in Families
  BY DEF ResourceInit
<1>2. FamilyOK
  BY <1>1, FamiliesAssumption DEF FamilyOK
<1>3. objs = <<>> /\ status = <<>> /\ zombies = {} /\ inserting = {}
  BY DEF ResourceInit
<1>4. DOMAIN objs = {} /\ DOMAIN status = {} /\ objs \in [DOMAIN objs -> BOOLEAN]
      /\ status \in [DOMAIN status -> Statuses]
  BY <1>3
<1>5. ResourceTypeOK
  BY <1>3, <1>4 DEF ResourceTypeOK, Present
<1> QED  BY <1>2, <1>5 DEF ResourceIInv

\* A write keeps the types, with a row more or the same rows.
LEMMA WriteOK ==
    ASSUME ResourceIInv, NEW o \in Universe, NEW m \in BOOLEAN, Write(o, m)
    PROVE  /\ ResourceIInv'
           /\ DOMAIN objs' = Present \cup {o}
<1>1. ResourceTypeOK /\ FamilyOK /\ StatusesOK(status)
  BY DEF ResourceIInv, ResourceTypeOK, StatusesOK
<1>2. objs' = [x \in Present \cup {o} |-> IF x = o THEN m ELSE objs[x]]
      /\ UNCHANGED <<family, zombies, inserting>>
  BY DEF Write
<1>3. objs' \in [Present \cup {o} -> BOOLEAN]
  BY <1>1, <1>2 DEF ResourceTypeOK
<1>4. StatusesOK(status')
  BY <1>1, SyncPendingIs DEF Write
<1>5. FamilyOK' /\ Universe' = Universe
  BY <1>1, <1>2 DEF FamilyOK, Universe
<1>6. DOMAIN objs' = Present \cup {o}
  BY <1>2
<1>7. ResourceTypeOK'
  BY <1>1, <1>2, <1>3, <1>4, <1>5, <1>6 DEF ResourceTypeOK, Present, StatusesOK
<1> QED  BY <1>5, <1>6, <1>7 DEF ResourceIInv

\* A change of statuses alone keeps the types.
LEMMA StatusOnly ==
    ASSUME ResourceIInv, StatusesOK(status'), UNCHANGED <<family, objs, zombies, inserting>>
    PROVE  ResourceIInv'
<1>1. Universe' = Universe /\ Present' = Present
  BY DEF Universe, Present
<1> QED  BY <1>1 DEF ResourceIInv, FamilyOK, ResourceTypeOK, StatusesOK

LEMMA DeleteAllOK ==
    ASSUME ResourceIInv, NEW S \in SUBSET Present, DeleteAll(S)
    PROVE  /\ ResourceIInv'
           /\ DOMAIN objs' = Present \ S
           /\ \A x \in DOMAIN status' : status'[x] = StatusOf(x, status)
<1>1. ResourceTypeOK /\ FamilyOK
  BY DEF ResourceIInv
<1>2. objs' = [x \in Present \ S |-> objs[x]]
      /\ status' = [x \in DOMAIN status \ S |-> status[x]]
      /\ UNCHANGED <<family, zombies>>
  BY DEF DeleteAll, Drop, Present
<1>3. objs' \in [Present \ S -> BOOLEAN] /\ status' \in [DOMAIN status \ S -> Statuses]
  BY <1>1, <1>2 DEF ResourceTypeOK
<1>4. FamilyOK' /\ Universe' = Universe
  BY <1>1, <1>2 DEF FamilyOK, Universe
<1>5. ASSUME NEW j \in inserting'  PROVE j \in [obj : Universe, stale : BOOLEAN]
  <2>1. PICK i \in inserting : j = [i EXCEPT !.stale = i.stale \/ i.obj \in S]
    BY <1>5 DEF DeleteAll
  <2>2. i \in [obj : Universe, stale : BOOLEAN]
    BY <1>1 DEF ResourceTypeOK
  <2>3. (i.stale \/ i.obj \in S) \in BOOLEAN
    OBVIOUS
  <2> QED  BY <2>1, <2>2, <2>3
<1>6. ResourceTypeOK'
  BY <1>1, <1>2, <1>3, <1>4, <1>5 DEF ResourceTypeOK, Present
<1> QED  BY <1>2, <1>4, <1>6 DEF ResourceIInv, StatusOf

LEMMA InsertOK ==
    ASSUME ResourceIInv, NEW i \in inserting, InsertStatus(i)
    PROVE  /\ ResourceIInv'
           /\ \A x \in DOMAIN status' : status'[x] = StatusOf(x, status)
<1>1. ResourceTypeOK /\ FamilyOK /\ StatusesOK(status)
  BY DEF ResourceIInv, ResourceTypeOK, StatusesOK
<1>2. UNCHANGED <<family, objs>> /\ Universe' = Universe /\ Present' = Present
  BY DEF InsertStatus, Universe, Present
<1>3. StatusesOK(status') /\ \A x \in DOMAIN status' : status'[x] = StatusOf(x, status)
  BY <1>1, WithStatusIs DEF InsertStatus, StatusOf
<1>4. i.obj \in Universe /\ zombies' \subseteq Universe /\ inserting' \subseteq inserting
  BY <1>1 DEF ResourceTypeOK, InsertStatus
<1> QED  BY <1>1, <1>2, <1>3, <1>4 DEF ResourceIInv, FamilyOK, ResourceTypeOK, StatusesOK

LEMMA NewStatusOK ==
    ASSUME ResourceIInv, NEW o \in Universe, NewStatus(o)
    PROVE  ResourceIInv'
<1>1. UNCHANGED <<family, objs, status, zombies>> /\ Universe' = Universe /\ Present' = Present
  BY DEF NewStatus, Universe, Present
<1>2. [obj |-> o, stale |-> FALSE] \in [obj : Universe, stale : BOOLEAN]
  OBVIOUS
<1>3. inserting' \subseteq [obj : Universe, stale : BOOLEAN]
  BY <1>2 DEF NewStatus, ResourceIInv, ResourceTypeOK
<1> QED  BY <1>1, <1>3 DEF ResourceIInv, FamilyOK, ResourceTypeOK

LEMMA RecoverOK ==
    ASSUME ResourceIInv, NEW r, Recover(r)
    PROVE  ResourceIInv'
<1>1. UNCHANGED <<family, objs, inserting>> /\ Universe' = Universe /\ Present' = Present
  BY DEF Recover, Universe, Present
<1>2. StatusesOK(status') /\ zombies' \subseteq zombies
  BY DEF Recover, StatusesOK, Statuses, ResourceIInv, ResourceTypeOK
<1> QED  BY <1>1, <1>2 DEF ResourceIInv, FamilyOK, ResourceTypeOK, StatusesOK

-----------------------------------------------------------------------------
(* The steps, by what they do to the objects and to the statuses.          *)

\* No object becomes pending or failed.
Calm == \A x \in DOMAIN status' : status'[x] \in {StatusOf(x, status), Synced}

LEMMA Steps ==
    ASSUME ResourceIInv, ResourceNext
    PROVE  /\ ResourceIInv'
           /\ \/ Calm
              \/ \E o \in Universe : status' = SyncError(o, status) /\ Present' = Present
              \/ \E o \in Universe : status' = SyncPending(o, status) /\ Present' = Present
              \/ \E r \in Roots : Recover(r)
           /\ \/ Present \subseteq Present'
              \/ \E o \in Present : Present' = Present \ {o}
              \/ \E o \in Universe : Present' = Present \ (Subtree(o) \cup ({o} \cap Present))
<1>1. ResourceTypeOK /\ FamilyOK /\ StatusesOK(status) /\ Present \subseteq Universe
  BY DEF ResourceIInv, ResourceTypeOK, StatusesOK
<1>2. Present' = DOMAIN objs'
  BY DEF Present
<1>3. RolesOf(Flipped) \subseteq Universe /\ RolesOf(Raced) \subseteq Universe
  BY DEF RolesOf, Universe
<1>4. ASSUME status' = status  PROVE Calm
  BY <1>4 DEF Calm, StatusOf
<1>5. ASSUME NEW o \in Universe, NEW m \in BOOLEAN, Write(o, m)
      PROVE  /\ ResourceIInv' /\ Present \subseteq Present'
             /\ Calm \/ (status' = SyncPending(o, status) /\ Present' = Present)
  <2>1. ResourceIInv' /\ Present' = Present \cup {o}
    BY <1>2, <1>5, WriteOK
  <2>2. CASE TakesOwnership(o, m)
    BY <1>5, <2>1, <2>2 DEF Write, TakesOwnership
  <2>3. CASE ~TakesOwnership(o, m)
    BY <1>4, <1>5, <2>1, <2>3 DEF Write
  <2> QED  BY <2>2, <2>3
<1>6. CASE ClientSteps
  <2>1. CASE \E o \in Universe : Create(o, FALSE)
    BY <1>5, <2>1 DEF Create
  <2>2. CASE \E o \in RolesOf(Flipped), m \in BOOLEAN : Create(o, m) \/ Update(o, m)
    BY <1>3, <1>5, <2>2 DEF Create, Update
  <2>3. CASE \E o \in Universe, force \in Forces : Delete(o, force) \/ DeleteCascade(o, force)
    <3>1. PICK o \in Universe, force \in Forces : Delete(o, force) \/ DeleteCascade(o, force)
      BY <2>3
    <3>2. CASE Delete(o, force)
      <4>1. o \in Present /\ DeleteAll({o})
        BY <3>2 DEF Delete
      <4>2. ResourceIInv' /\ Present' = Present \ {o} /\ Calm
        BY <1>2, <4>1, DeleteAllOK DEF Calm
      <4> QED  BY <4>1, <4>2
    <3>3. CASE DeleteCascade(o, force)
      <4> DEFINE S == Subtree(o) \cup ({o} \cap Present)
      <4>1. S \subseteq Present /\ DeleteAll(S)
        BY <3>3 DEF DeleteCascade, Subtree
      <4> HIDE DEF S
      <4>2. ResourceIInv' /\ Present' = Present \ S /\ Calm
        BY <1>2, <4>1, DeleteAllOK DEF Calm
      <4> QED  BY <4>2 DEF S
    <3> QED  BY <3>1, <3>2, <3>3
  <2> QED  BY <1>6, <2>1, <2>2, <2>3 DEF ClientSteps
<1>7. CASE AgentSteps
  <2>1. ASSUME NEW o \in Universe, SetError(o)
        PROVE  ResourceIInv' /\ status' = SyncError(o, status) /\ Present' = Present
    BY <1>1, <2>1, SyncErrorIs, StatusOnly DEF SetError, Present
  <2>2. ASSUME NEW o \in Universe, SetPending(o)
        PROVE  ResourceIInv' /\ status' = SyncPending(o, status) /\ Present' = Present
    BY <1>1, <2>2, SyncPendingIs, StatusOnly DEF SetPending, Present
  <2>3. ASSUME NEW o \in Universe, SetSynced(o)
        PROVE  ResourceIInv' /\ Calm /\ Present' = Present
    <3>1. o \in Present /\ Synced \in Statuses /\ status' = SetSync(o, Synced, status)
      BY <2>3 DEF SetSynced, Statuses
    <3>2. StatusesOK(status')
          /\ \A x \in DOMAIN status' : status'[x] = IF x = o THEN Synced ELSE StatusOf(x, status)
      BY <1>1, <3>1, SetSyncIs
    <3> QED  BY <2>3, <3>2, StatusOnly DEF SetSynced, Present, Calm
  <2>4. ASSUME NEW o \in Universe, NewStatus(o)
        PROVE  ResourceIInv' /\ Calm /\ Present' = Present
    BY <1>4, <2>4, NewStatusOK DEF NewStatus, Present
  <2>5. ASSUME NEW i \in inserting, InsertStatus(i)
        PROVE  ResourceIInv' /\ Calm /\ Present' = Present
    BY <2>5, InsertOK DEF InsertStatus, Present, Calm
  <2> QED  BY <1>3, <1>7, <2>1, <2>2, <2>3, <2>4, <2>5 DEF AgentSteps
<1>8. CASE Recovery
  <2>1. PICK r \in Roots : Recover(r)
    BY <1>8 DEF Recovery
  <2> QED  BY <2>1, RecoverOK DEF Recover, Present
<1> QED  BY <1>6, <1>7, <1>8 DEF ResourceNext

LEMMA ResourceStutter ==
    ASSUME ResourceIInv, UNCHANGED resourceVars
    PROVE  ResourceIInv'
BY DEF ResourceIInv, FamilyOK, ResourceTypeOK, resourceVars, Universe, Present

\* The objects, their statuses and the rows that are left over are of the family, and a
\* status belongs to an object that exists (get_status, delete).
THEOREM ResourceTypeCorrect == ResourceSpec => []ResourceTypeOK
<1>1. ResourceInit => ResourceIInv
  BY ResourceInitOK
<1>2. ResourceIInv /\ [ResourceNext]_resourceVars => ResourceIInv'
  BY Steps, ResourceStutter
<1>3. ResourceIInv => ResourceTypeOK
  BY DEF ResourceIInv
<1> QED  BY <1>1, <1>2, <1>3, PTL DEF ResourceSpec

-----------------------------------------------------------------------------
(* What goes together.                                                     *)

LEMMA ObjectsPresent ==
    ASSUME ResourceIInv
    PROVE  Present \subseteq Universe /\ Universe \subseteq Objects /\ StatusesOK(status)
BY UniverseObjects DEF ResourceIInv, ResourceTypeOK, StatusesOK

\* A deletion of one object removes one; the others remove what get_subtree finds.
LEMMA CascadeStep ==
    ASSUME ResourceIInv, ResourceNext
    PROVE  GoneTogether
<1> DEFINE gone == Present \ Present'
<1>1. SUFFICES ASSUME Cardinality(gone) > 1
               PROVE  \E r \in Universe : gone = Below(r, Present) \cup ({r} \cap Present)
  BY DEF GoneTogether
<1>2. CASE Present \subseteq Present'
  <2>1. gone = {}
    BY <1>2
  <2> QED  BY <1>1, <2>1, FS_EmptySet
<1>3. CASE \E o \in Present : Present' = Present \ {o}
  <2>1. PICK o \in Present : gone = {o}
    BY <1>3
  <2>2. Cardinality(gone) = 1
    BY <2>1, FS_Singleton
  <2> QED  BY <1>1, <2>2
<1>4. CASE \E o \in Universe : Present' = Present \ (Subtree(o) \cup ({o} \cap Present))
  <2>1. PICK o \in Universe : Present' = Present \ (Subtree(o) \cup ({o} \cap Present))
    BY <1>4
  <2>2. o \in Objects /\ Present \subseteq Objects
    BY ObjectsPresent
  <2>3. Subtree(o) = Below(o, Present)
    BY <2>2, SubtreeIs
  <2>4. gone = Below(o, Present) \cup ({o} \cap Present)
    BY <2>1, <2>3 DEF Below
  <2> QED  BY <2>4
<1> QED  BY <1>2, <1>3, <1>4, Steps

\* Only an error makes objects fail, with all that is under the one that it is of.
LEMMA ErrorStep ==
    ASSUME ResourceIInv, ResourceNext
    PROVE  FailTogether
<1>1. StatusesOK(status) /\ Present \subseteq Objects /\ Universe \subseteq Objects
  BY ObjectsPresent
<1>2. Failed # Synced /\ Failed # Pending
  BY DEF Failed, Synced, Pending
<1>3. CASE Calm
  <2>1. Became(Failed) = {}
    BY <1>2, <1>3 DEF Calm, Became
  <2> QED  BY <2>1 DEF FailTogether
<1>4. CASE \E o \in Universe : status' = SyncError(o, status) /\ Present' = Present
  <2>1. PICK o \in Universe : status' = SyncError(o, status)
    BY <1>4
  <2>2. \A x \in DOMAIN status' :
           status'[x] = IF MaySet(o, {Failed}, status) /\ x \in {o} \cup Subtree(o)
                        THEN Failed ELSE StatusOf(x, status)
    BY <1>1, <2>1, SyncErrorIs
  <2>3. Subtree(o) = Below(o, Present)
    BY <1>1, SubtreeIs
  <2>4. CASE MaySet(o, {Failed}, status)
    <3>1. {o} \cup Subtree(o) \subseteq DOMAIN status'
      BY <2>1, <2>4 DEF SyncError, Fail
    <3>2. o \in Became(Failed)
      BY <2>2, <2>4, <3>1 DEF Became, MaySet
    <3>3. Became(Failed) \subseteq {o} \cup Subtree(o)
      BY <2>2 DEF Became
    <3> QED  BY <2>2, <2>3, <2>4, <3>1, <3>2, <3>3 DEF FailTogether
  <2>5. CASE ~MaySet(o, {Failed}, status)
    <3>1. Became(Failed) = {}
      BY <2>2, <2>5 DEF Became
    <3> QED  BY <3>1 DEF FailTogether
  <2> QED  BY <2>4, <2>5
<1>5. CASE \E o \in Universe : status' = SyncPending(o, status) /\ Present' = Present
  <2>1. \A x \in DOMAIN status' : status'[x] \in {Pending, StatusOf(x, status)}
    BY <1>1, <1>5, SyncPendingIs
  <2>2. Became(Failed) = {}
    BY <1>2, <2>1 DEF Became
  <2> QED  BY <2>2 DEF FailTogether
<1>6. CASE \E r \in Roots : Recover(r)
  <2>1. \A x \in DOMAIN status' : status'[x] \in {Pending, StatusOf(x, status)}
    BY <1>6 DEF Recover, StatusOf
  <2>2. Became(Failed) = {}
    BY <1>2, <2>1 DEF Became
  <2> QED  BY <2>2 DEF FailTogether
<1> QED  BY <1>3, <1>4, <1>5, <1>6, Steps

\* set_resource_sync_pending reaches every failed parent of an object that it visits:
\* it has climbed to that parent, or the parent is under one that it has climbed to.
LEMMA VisitsParents ==
    ASSUME NEW o \in Objects, NEW st, Present \subseteq Objects,
           NEW x \in Visited(o, st), x \in Objects, HasParent(x), HasFailed(Parent(x), st)
    PROVE  Parent(x) \in Visited(o, st)
<1> DEFINE p == Parent(x)
<1>1. p \in Ancestors(x) /\ p \in Objects /\ p \in Present
      /\ \A a \in Ancestors(x) : a = p \/ a \in Ancestors(p)
  BY ParentIs DEF HasFailed
<1>2. Climb(o, st) \subseteq Objects
  BY AncestorsAre DEF Climb
<1>3. ASSUME NEW c \in Climb(o, st)
      PROVE  Subtree(c) = {d \in Present : c \in Ancestors(d)}
  BY <1>2, SubtreeIs DEF Below
<1> HIDE DEF p
<1>4. CASE x = o
  <2>1. p \in Ancestors(o) /\ \A b \in Ancestors(o) : b = p \/ b \in Ancestors(p)
    BY <1>1, <1>4
  <2>2. ASSUME NEW b \in Ancestors(o), b = p \/ p \in Ancestors(b)
        PROVE  HasFailed(b, st)
    <3>1. b \in Objects
      BY AncestorsAre
    <3>2. b = p
      BY <1>1, <2>1, <2>2, <3>1, NotBoth
    <3> QED  BY <3>2 DEF p
  <2>3. p \in Climb(o, st)
    BY <2>1, <2>2 DEF Climb
  <2> QED  BY <2>3 DEF Visited, p
<1>5. CASE x # o /\ x \in Climb(o, st)
  <2>1. x \in Ancestors(o) /\ \A b \in Ancestors(o) : b = x \/ x \in Ancestors(b) => HasFailed(b, st)
    BY <1>5 DEF Climb
  <2>2. p \in Ancestors(o)
    BY <1>1, <2>1, AncestorsTransitive
  <2>3. ASSUME NEW b \in Ancestors(o), b = p \/ p \in Ancestors(b)
        PROVE  HasFailed(b, st)
    <3>1. b \in Objects
      BY AncestorsAre
    <3>2. CASE b = p
      BY <3>2 DEF p
    <3>3. CASE b = x \/ x \in Ancestors(b)
      BY <2>1, <3>3
    <3>4. CASE b # p /\ b # x /\ b \in Ancestors(x)
      <4>1. b \in Ancestors(p)
        BY <1>1, <3>4
      <4> QED  BY <1>1, <2>3, <3>4, <4>1, NotBoth
    <3> QED  BY <2>1, <3>2, <3>3, <3>4, AncestorsChain
  <2>4. p \in Climb(o, st)
    BY <2>2, <2>3 DEF Climb
  <2> QED  BY <2>4 DEF Visited, p
<1>6. CASE \E c \in Climb(o, st) : x \in Subtree(c)
  <2>1. PICK c \in Climb(o, st) : x \in Subtree(c)
    BY <1>6
  <2>2. c \in Ancestors(x)
    BY <1>3, <2>1
  <2>3. c = p \/ c \in Ancestors(p)
    BY <1>1, <2>2
  <2>4. p \in Climb(o, st) \/ p \in Subtree(c)
    BY <1>1, <1>3, <2>1, <2>3
  <2> QED  BY <2>1, <2>4 DEF Visited, p
<1> QED  BY <1>4, <1>5, <1>6 DEF Visited

\* It reaches all that is under an object that it visits.
LEMMA VisitsChildren ==
    ASSUME NEW o \in Objects, NEW st, Present \subseteq Objects,
           NEW x \in Visited(o, st), NEW d \in Present, x \in Ancestors(d)
    PROVE  d \in Visited(o, st)
<1>1. Climb(o, st) \subseteq Objects
  BY AncestorsAre DEF Climb
<1>2. \A c \in Climb(o, st) : Subtree(c) = {y \in Present : c \in Ancestors(y)}
  BY <1>1, SubtreeIs DEF Below
<1>3. PICK c \in Climb(o, st) : x = c \/ x \in Subtree(c)
  BY DEF Visited
<1>4. c \in Ancestors(d)
  BY <1>2, <1>3, AncestorsTransitive
<1> QED  BY <1>2, <1>3, <1>4 DEF Visited

LEMMA RetryStep ==
    ASSUME ResourceIInv, ResourceNext
    PROVE  RetriedTogether
<1>1. StatusesOK(status) /\ Present \subseteq Objects /\ Universe \subseteq Objects /\ ResourceIInv'
  BY ObjectsPresent, Steps
<1>2. Pending # Synced /\ Pending # Failed
  BY DEF Failed, Synced, Pending
<1>3. DOMAIN status' \subseteq Present'
  BY <1>1 DEF ResourceIInv, ResourceTypeOK
<1>4. CASE Calm
  <2>1. Became(Pending) = {}
    BY <1>2, <1>4 DEF Calm, Became
  <2> QED  BY <2>1 DEF RetriedTogether
<1>5. CASE \E o \in Universe : status' = SyncError(o, status) /\ Present' = Present
  <2>1. \A x \in DOMAIN status' : status'[x] \in {Failed, StatusOf(x, status)}
    BY <1>1, <1>5, SyncErrorIs
  <2>2. Became(Pending) = {}
    BY <1>2, <2>1 DEF Became
  <2> QED  BY <2>2 DEF RetriedTogether
<1>6. CASE \E o \in Universe : status' = SyncPending(o, status) /\ Present' = Present
  <2>1. PICK o \in Universe : status' = SyncPending(o, status) /\ Present' = Present
    BY <1>6
  <2>2. \A x \in DOMAIN status' :
          status'[x] = IF /\ MaySet(o, {Pending}, status)
                          /\ x = o \/ (x \in Visited(o, status) /\ HasFailed(x, status))
                       THEN Pending ELSE StatusOf(x, status)
    BY <1>1, <2>1, SyncPendingIs
  <2>3. o \in Visited(o, status) /\ o \in Objects
    BY <1>1 DEF Visited, Climb
  <2>4. ASSUME NEW x \in Became(Pending)
        PROVE  x \in DOMAIN status' /\ x \in Present /\ x \in Visited(o, status) /\ MaySet(o, {Pending}, status)
    BY <1>3, <2>1, <2>2, <2>3 DEF Became
  <2>5. ASSUME NEW x \in Became(Pending), NEW y \in DOMAIN status',
               HasFailed(y, status) => y \in Visited(o, status)
        PROVE  status'[y] # Failed
    <3>1. y \in Present
      BY <1>3, <2>1
    <3>2. CASE HasFailed(y, status)
      BY <1>2, <2>2, <2>4, <2>5, <3>2
    <3>3. CASE ~HasFailed(y, status)
      BY <1>2, <2>2, <3>1, <3>3 DEF HasFailed
    <3> QED  BY <3>2, <3>3
  <2>6. ASSUME NEW x \in Became(Pending), NEW d \in Below(x, DOMAIN status')
        PROVE  status'[d] # Failed
    <3>1. d \in DOMAIN status' /\ d \in Present /\ x \in Ancestors(d)
      BY <1>3, <2>1 DEF Below
    <3>2. d \in Visited(o, status)
      BY <1>1, <2>3, <2>4, <3>1, VisitsChildren
    <3> QED  BY <2>5, <3>1, <3>2
  <2>7. ASSUME NEW x \in Became(Pending), HasParent(x), Parent(x) \in DOMAIN status'
        PROVE  status'[Parent(x)] # Failed
    <3>1. x \in Objects /\ x \in Visited(o, status)
      BY <1>1, <2>4
    <3>2. HasFailed(Parent(x), status) => Parent(x) \in Visited(o, status)
      BY <1>1, <2>3, <2>7, <3>1, VisitsParents
    <3> QED  BY <2>5, <2>7, <3>2
  <2> QED  BY <2>6, <2>7 DEF RetriedTogether
<1>7. CASE \E r \in Roots : Recover(r)
  <2>1. PICK r \in Roots : Recover(r)
    BY <1>7
  <2>2. status' = [x \in DOMAIN status |-> IF x \in FailedIn(r) THEN Pending ELSE status[x]]
    BY <2>1 DEF Recover
  <2>3. DOMAIN status' = DOMAIN status /\ DOMAIN status \subseteq Objects
    BY <1>1, <2>2 DEF StatusesOK
  <2>4. ASSUME NEW y \in DOMAIN status, RootOf(y) = r
        PROVE  status'[y] # Failed
    BY <1>2, <2>2, <2>4 DEF FailedIn
  <2>5. ASSUME NEW x \in Became(Pending)
        PROVE  x \in DOMAIN status /\ RootOf(x) = r
    BY <2>2, <2>3 DEF Became, StatusOf, FailedIn
  <2>6. ASSUME NEW x \in Became(Pending), NEW d \in Below(x, DOMAIN status')
        PROVE  status'[d] # Failed
    <3>1. d \in DOMAIN status /\ d \in Objects /\ x \in Ancestors(d)
      BY <2>3 DEF Below
    <3>2. RootOf(d) = r
      BY <2>5, <3>1, OneRoot
    <3> QED  BY <2>4, <3>1, <3>2
  <2>7. ASSUME NEW x \in Became(Pending), HasParent(x), Parent(x) \in DOMAIN status'
        PROVE  status'[Parent(x)] # Failed
    <3>1. x \in Objects /\ RootOf(x) = r
      BY <2>3, <2>5
    <3>2. Parent(x) \in Ancestors(x)
      BY <2>7, <3>1, ParentIs
    <3>3. RootOf(Parent(x)) = r
      BY <3>1, <3>2, OneRoot
    <3> QED  BY <2>3, <2>4, <2>7, <3>3
  <2> QED  BY <2>6, <2>7 DEF RetriedTogether
<1> QED  BY <1>4, <1>5, <1>6, <1>7, Steps

\* A cascading delete() removes an object and exactly what is under it (get_subtree), for
\* every family of objects of the schema.
THEOREM CascadesAreExact == ResourceSpec => CascadeExact
<1>1. ResourceInit => ResourceIInv
  BY ResourceInitOK
<1>2. ResourceIInv /\ [ResourceNext]_resourceVars => ResourceIInv'
  BY Steps, ResourceStutter
<1>3. ResourceIInv /\ [ResourceNext]_resourceVars => [GoneTogether]_resourceVars
  BY CascadeStep
<1> QED  BY <1>1, <1>2, <1>3, PTL DEF ResourceSpec, CascadeExact

\* set_resource_sync_error fails an object with all that is under it and with nothing
\* else, and no other operation makes an object fail.
THEOREM ErrorsCover == ResourceSpec => ErrorCovers
<1>1. ResourceInit => ResourceIInv
  BY ResourceInitOK
<1>2. ResourceIInv /\ [ResourceNext]_resourceVars => ResourceIInv'
  BY Steps, ResourceStutter
<1>3. ResourceIInv /\ [ResourceNext]_resourceVars => [FailTogether]_resourceVars
  BY ErrorStep
<1> QED  BY <1>1, <1>2, <1>3, PTL DEF ResourceSpec, ErrorCovers

\* Whoever retries an object, set_resource_sync_pending or the recovery of its root, leaves
\* neither its parent nor anything under it failed.
THEOREM RetriesSpread == ResourceSpec => RetrySpreads
<1>1. ResourceInit => ResourceIInv
  BY ResourceInitOK
<1>2. ResourceIInv /\ [ResourceNext]_resourceVars => ResourceIInv'
  BY Steps, ResourceStutter
<1>3. ResourceIInv /\ [ResourceNext]_resourceVars => [RetriedTogether]_resourceVars
  BY RetryStep
<1> QED  BY <1>1, <1>2, <1>3, PTL DEF ResourceSpec, RetrySpreads
=============================================================================
