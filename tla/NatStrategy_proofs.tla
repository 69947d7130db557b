------------------------- MODULE NatStrategy_proofs -------------------------
(* Theorems about NatStrategy: what a strategy created for an L3Out goes   *)
(* with it, nothing shared is taken away, shadows follow their source.     *)
EXTENDS NatStrategy, TLAPS

-----------------------------------------------------------------------------
(* The invariant, as operators on the tables.                              *)

IsDb(d) ==
    /\ DOMAIN d = {"l3outs", "nets", "subs", "refs", "clones"}
    /\ d = [table \in DOMAIN d |-> d[table]]

\* The L3Outs that callers do not use are clones; the name of a clone and its VRF
\* tell its source.
Outs(d) ==
    /\ DOMAIN d.clones = DOMAIN d.l3outs \ L3Outs
    /\ \A o \in DOMAIN d.l3outs : d.l3outs[o].monitored \in BOOLEAN
    /\ \A c \in DOMAIN d.clones :
          /\ d.clones[c] \in L3Outs /\ d.clones[c] \in DOMAIN d.l3outs
          /\ \E v \in AllVrfs : c = Clone(d.clones[c], v) /\ d.l3outs[c].vrf = Name(v)

\* A network has its L3Out; a network that is monitored is one of a monitored L3Out.
Networks(d) ==
    \A n \in DOMAIN d.nets :
        /\ n = <<n[1], n[2]>> /\ n[1] \in DOMAIN d.l3outs /\ n[2] \in AllNets
        /\ d.nets[n] \in BOOLEAN
        /\ d.nets[n] => n[1] \in L3Outs /\ d.l3outs[n[1]].monitored

\* The source of a clone has its networks, and a clone has some.
Copies(d) ==
    /\ \A n \in DOMAIN d.nets :
          n[1] \in DOMAIN d.clones => <<d.clones[n[1]], n[2]>> \in DOMAIN d.nets
    /\ \A c \in DOMAIN d.clones : \E n \in AllNets : <<c, n>> \in DOMAIN d.nets

Contained(d) ==
    /\ \A r \in d.refs : <<r[2], r[3]>> \in DOMAIN d.nets
    /\ \A s \in d.subs : s = <<s[1], s[2], s[3]>> /\ s[2] \in AllNets /\ s[3] \in Cidrs
    /\ \A s \in d.subs : s[1] \in L3Outs => <<s[1], s[2]>> \in DOMAIN d.nets

Agree(d) ==
    \A n \in DOMAIN d.nets : n[1] \in DOMAIN d.clones =>
        \A c \in Cidrs :
            <<n[1], n[2], c>> \in d.subs <=> <<d.clones[n[1]], n[2], c>> \in d.subs

Good(d, s) ==
    /\ IsDb(d) /\ Outs(d) /\ Networks(d) /\ Copies(d) /\ Contained(d) /\ Agree(d)
    /\ s = "nonat" => DOMAIN d.clones = {}

\* What an L3Out that was created has, and one that does not exist has not.
Standing(outs, objects, vs) ==
    \A l \in L3Outs :
        /\ l \in DOMAIN outs /\ ~outs[l].monitored =>
              NatObjects(l) \subseteq objects /\ NatVrf(l) \in vs
        /\ l \notin DOMAIN outs =>
              /\ objects \cap (NatObjects(l) \ {NatAp(l)}) = {}
              /\ \A gw : <<"subnet", NatBd(l), gw>> \notin objects
              /\ NatVrf(l) \notin vs

Bridges(f) == \A b \in DOMAIN f : f[b] \subseteq {Name(l) : l \in L3Outs}

IInv == Good(Tables, strategy) /\ Standing(l3outs, nat, vrfs) /\ Bridges(bds)

-----------------------------------------------------------------------------
(* The tables that the parts of the operations return.                     *)

LEMMA TablesIsDb ==
    /\ IsDb(Tables) /\ Tables.l3outs = l3outs /\ Tables.nets = nets /\ Tables.subs = subs
    /\ Tables.refs = refs /\ Tables.clones = clones
BY DEF Tables, IsDb

LEMMA TablesNext ==
    /\ IsDb(Tables') /\ Tables'.l3outs = l3outs' /\ Tables'.nets = nets' /\ Tables'.subs = subs'
    /\ Tables'.refs = refs' /\ Tables'.clones = clones'
BY DEF Tables, IsDb

LEMMA StoreIsDb ==
    ASSUME NEW d, IsDb(d), Store(d)
    PROVE  Tables' = d /\ l3outs' = d.l3outs
<1>1. d = [l3outs |-> d.l3outs, nets |-> d.nets, subs |-> d.subs, refs |-> d.refs,
           clones |-> d.clones]
  BY DEF IsDb
<1> QED  BY <1>1 DEF Store, Tables

LEMMA DropIs ==
    ASSUME NEW f, NEW S
    PROVE  /\ DOMAIN Drop(f, S) = DOMAIN f \ S
           /\ \A x \in DOMAIN f \ S : Drop(f, S)[x] = f[x]
BY DEF Drop

LEMMA PutIs ==
    ASSUME NEW f, NEW x, NEW v
    PROVE  /\ DOMAIN Put(f, x, v) = DOMAIN f \cup {x}
           /\ Put(f, x, v)[x] = v
           /\ \A y \in DOMAIN f : y # x => Put(f, x, v)[y] = f[y]
BY DEF Put

\* The networks of an L3Out and their copies.
Touched(l, ns, d) ==
    {k \in DOMAIN d.nets :
        k[2] \in ns /\ (k[1] = l \/ (k[1] \in DOMAIN d.clones /\ d.clones[k[1]] = l))}
Cut(s, T, cidrs) == <<s[1], s[2]>> \in T /\ (cidrs = {} \/ s[3] \in cidrs)
Removed(N, d) == {n \in N \cap DOMAIN d.nets : ~d.nets[n]}
Idle(cs, d) == {c \in cs \cap DOMAIN d.l3outs : \A n \in DOMAIN d.nets : n[1] # c}

LEMMA DeleteExtNetsIs ==
    ASSUME NEW d, IsDb(d), NEW N, NEW l, NEW given, NEW cidrs
    PROVE  LET D == DeleteExtNets(N, l, given, cidrs, d)
           IN  /\ IsDb(D) /\ D.l3outs = d.l3outs /\ D.clones = d.clones
               /\ D.nets = Drop(d.nets, Removed(N, d))
               /\ D.subs = {s \in d.subs : ~(/\ <<s[1], s[2]>> \in N \cap DOMAIN d.nets
                                             /\ cidrs = {} \/ s[3] \in cidrs)}
               /\ \A r \in D.refs : r \in d.refs /\ <<r[2], r[3]>> \notin Removed(N, d)
<1> DEFINE D == DeleteExtNets(N, l, given, cidrs, d)
           x == Drop(d.nets, Removed(N, d))
           y == {s \in d.subs : ~(/\ <<s[1], s[2]>> \in N \cap DOMAIN d.nets
                                  /\ cidrs = {} \/ s[3] \in cidrs)}
           z == {r \in d.refs :
                    ~(\/ <<r[2], r[3]>> \in Removed(N, d)
                      \/ <<r[2], r[3]>> \in N \cap DOMAIN d.nets
                         /\ r[4] \in given \cup {NatContract(l)})}
<1>1. D = [d EXCEPT !.nets = x, !.subs = y, !.refs = z]
  BY DEF DeleteExtNets, Removed, IsDb
<1>2. \A r \in z : r \in d.refs /\ <<r[2], r[3]>> \notin Removed(N, d)
  OBVIOUS
<1> HIDE DEF D, x, y, z
<1>3. /\ IsDb(D) /\ D.l3outs = d.l3outs /\ D.clones = d.clones
      /\ D.nets = x /\ D.subs = y /\ D.refs = z
  BY <1>1 DEF IsDb
<1> QED  BY <1>2, <1>3 DEF D, x, y

LEMMA DeleteUnusedIs ==
    ASSUME NEW d, IsDb(d), NEW cs
    PROVE  LET D == DeleteUnused(cs, d)
           IN  /\ IsDb(D) /\ D.nets = d.nets /\ D.subs = d.subs /\ D.refs = d.refs
               /\ D.l3outs = Drop(d.l3outs, Idle(cs, d))
               /\ D.clones = Drop(d.clones, Idle(cs, d))
BY DEF DeleteUnused, IsDb, Idle

\* Clones are no L3Outs of callers, and their networks are not monitored.
LEMMA ClonesApart ==
    ASSUME NEW d, Outs(d), Networks(d)
    PROVE  /\ \A c \in DOMAIN d.clones : c \notin L3Outs /\ c \in DOMAIN d.l3outs
           /\ \A n \in DOMAIN d.nets : n[1] \in DOMAIN d.clones => ~d.nets[n]
BY DEF Outs, Networks

\* The networks that are deleted are those of the given names in the L3Out and in its
\* clones, but for monitored ones; the clones that are deleted are those without networks.
NetworksDeleted(l, ns, cidrs, d, D) ==
    LET T == Touched(l, ns, d)
        idle == {c \in ClonesOf(l, d) : \A n \in DOMAIN D.nets : n[1] # c}
    IN  /\ IsDb(D)
        /\ D.nets = Drop(d.nets, Removed(T, d))
        /\ D.l3outs = Drop(d.l3outs, idle) /\ D.clones = Drop(d.clones, idle)
        /\ \A s : s \in D.subs <=> s \in d.subs /\ ~Cut(s, T, cidrs)
        /\ \A r \in D.refs : r \in d.refs /\ <<r[2], r[3]>> \notin Removed(T, d)

LEMMA DeleteNetworksIs ==
    ASSUME NEW d, Good(d, strategy), NEW l \in L3Outs, NEW ns, NEW given, NEW cidrs
    PROVE  NetworksDeleted(l, ns, cidrs, d, DeleteNetworks(l, ns, given, cidrs, d))
<1> DEFINE found == {n \in ns : <<l, n>> \in DOMAIN d.nets}
           cs == IF strategy = "nonat" \/ found = {} THEN {} ELSE ClonesOf(l, d)
           K == {<<c, n>> : c \in cs, n \in found}
           L == {<<l, n>> : n \in found}
           A == DeleteExtNets(K, l, given, cidrs, d)
           B == DeleteUnused(cs, A)
           D == DeleteNetworks(l, ns, given, cidrs, d)
           T == Touched(l, ns, d)
           idle == {c \in ClonesOf(l, d) : \A n \in DOMAIN D.nets : n[1] # c}
<1>1. D = DeleteExtNets(L, l, given, cidrs, B)
  BY DEF DeleteNetworks
<1>2. IsDb(d) /\ Outs(d) /\ Networks(d) /\ Copies(d) /\ (strategy = "nonat" => ClonesOf(l, d) = {})
  BY DEF Good, ClonesOf
<1>3. \A c \in ClonesOf(l, d) : c \in DOMAIN d.clones /\ d.clones[c] = l /\ c \notin L3Outs /\ c \in DOMAIN d.l3outs
  BY <1>2, ClonesApart DEF ClonesOf
<1>4. K \cap DOMAIN d.nets = {k \in T : k[1] # l} /\ L = {k \in T : k[1] = l}
  <2>1. \A k \in DOMAIN d.nets : k = <<k[1], k[2]>>
    BY <1>2 DEF Networks
  <2>2. \A k \in DOMAIN d.nets : k[1] \in ClonesOf(l, d) => <<l, k[2]>> \in DOMAIN d.nets
    BY <1>2 DEF Copies, ClonesOf
  <2>3. ASSUME NEW k \in T, k[1] # l PROVE k \in K \cap DOMAIN d.nets
    <3>1. k \in DOMAIN d.nets /\ k[2] \in ns /\ k[1] \in ClonesOf(l, d)
      BY <2>3 DEF Touched, ClonesOf
    <3>2. k[2] \in found
      BY <2>2, <3>1
    <3>3. cs = ClonesOf(l, d)
      BY <1>2, <3>1, <3>2
    <3> QED  BY <2>1, <3>1, <3>2, <3>3
  <2>4. ASSUME NEW k \in K \cap DOMAIN d.nets PROVE k \in T /\ k[1] # l
    <3>1. PICK c \in cs, n \in found : k = <<c, n>>
      OBVIOUS
    <3>2. c \in ClonesOf(l, d) /\ n \in ns
      BY <3>1
    <3> HIDE DEF K, cs, found
    <3> QED  BY <1>3, <3>1, <3>2 DEF Touched, ClonesOf
  <2>5. ASSUME NEW k \in T, k[1] = l PROVE k \in L
    BY <2>1, <2>5 DEF Touched
  <2>6. ASSUME NEW k \in L PROVE k \in T /\ k[1] = l
    <3>1. PICK n \in found : k = <<l, n>>
      OBVIOUS
    <3>2. n \in ns /\ <<l, n>> \in DOMAIN d.nets
      BY <3>1
    <3> HIDE DEF L, found
    <3> QED  BY <3>1, <3>2 DEF Touched
  <2> HIDE DEF K, L, T
  <2> QED  BY <2>3, <2>4, <2>5, <2>6
<1>5. T \subseteq DOMAIN d.nets
  BY DEF Touched
<1>6. cs \subseteq ClonesOf(l, d) /\ (T # {} => cs = ClonesOf(l, d))
  <2>1. T # {} /\ strategy # "nonat" => found # {}
    <3> SUFFICES ASSUME NEW k \in T PROVE k[2] \in found
      OBVIOUS
    <3>1. k \in DOMAIN d.nets /\ k[2] \in ns
      BY DEF Touched
    <3>2. k = <<k[1], k[2]>>
      BY <1>2, <3>1 DEF Networks
    <3>3. k[1] = l \/ k[1] \in ClonesOf(l, d)
      BY DEF Touched, ClonesOf
    <3> QED  BY <1>2, <3>1, <3>2, <3>3 DEF Copies, ClonesOf
  <2> QED  BY <1>2, <2>1
<1> HIDE DEF found, cs, K, L, A, T, D
<1>7. /\ IsDb(A) /\ A.l3outs = d.l3outs /\ A.clones = d.clones
      /\ A.nets = Drop(d.nets, Removed(K, d))
      /\ A.subs = {s \in d.subs : ~(/\ <<s[1], s[2]>> \in K \cap DOMAIN d.nets
                                    /\ cidrs = {} \/ s[3] \in cidrs)}
      /\ \A r \in A.refs : r \in d.refs /\ <<r[2], r[3]>> \notin Removed(K, d)
  BY <1>2, DeleteExtNetsIs DEF A
<1>8. /\ IsDb(B) /\ B.nets = A.nets /\ B.subs = A.subs /\ B.refs = A.refs
      /\ B.l3outs = Drop(d.l3outs, Idle(cs, A)) /\ B.clones = Drop(d.clones, Idle(cs, A))
  BY <1>7, DeleteUnusedIs
<1> HIDE DEF B
<1>9. /\ IsDb(D) /\ D.l3outs = B.l3outs /\ D.clones = B.clones
      /\ D.nets = Drop(A.nets, Removed(L, B))
      /\ D.subs = {s \in A.subs : ~(/\ <<s[1], s[2]>> \in L \cap DOMAIN A.nets
                                    /\ cidrs = {} \/ s[3] \in cidrs)}
      /\ \A r \in D.refs : r \in A.refs /\ <<r[2], r[3]>> \notin Removed(L, B)
  BY <1>1, <1>8, DeleteExtNetsIs
<1>10. /\ DOMAIN A.nets = DOMAIN d.nets \ Removed(K, d)
       /\ \A k \in DOMAIN A.nets : A.nets[k] = d.nets[k]
  <2>1. A.nets = Drop(d.nets, Removed(K, d))
    BY <1>7
  <2> DEFINE f == d.nets
             S == Removed(K, d)
  <2>2. A.nets = Drop(f, S)
    BY <2>1
  <2> HIDE DEF f, S
  <2>3. DOMAIN A.nets = DOMAIN f \ S /\ \A k \in DOMAIN A.nets : A.nets[k] = f[k]
    BY <2>2 DEF Drop
  <2> QED  BY <2>3 DEF f, S
<1>11. L \cap DOMAIN A.nets = L /\ L \cap K = {} /\ K \cap DOMAIN d.nets \subseteq T /\ L \subseteq T
       /\ T \subseteq K \cup L
  BY <1>4, <1>5, <1>10 DEF Removed
<1>12. Removed(T, d) = Removed(K, d) \cup Removed(L, B)
  BY <1>4, <1>5, <1>8, <1>10, <1>11 DEF Removed
<1>13. D.nets = Drop(d.nets, Removed(T, d))
  BY <1>7, <1>9, <1>12 DEF Drop
<1>14. \A s : s \in D.subs <=> s \in d.subs /\ ~Cut(s, T, cidrs)
  <2>1. T = (K \cap DOMAIN d.nets) \cup L
    BY <1>4, <1>11
  <2>2. D.subs = {s \in A.subs : ~(<<s[1], s[2]>> \in L /\ (cidrs = {} \/ s[3] \in cidrs))}
    BY <1>9, <1>11
  <2>3. \A s : s \in A.subs <=> /\ s \in d.subs
                               /\ ~(/\ <<s[1], s[2]>> \in K \cap DOMAIN d.nets
                                    /\ cidrs = {} \/ s[3] \in cidrs)
    BY <1>7
  <2>4. \A s : s \in D.subs <=> /\ s \in A.subs
                               /\ ~(<<s[1], s[2]>> \in L /\ (cidrs = {} \/ s[3] \in cidrs))
    BY <2>2
  <2>5. \A s : s \in D.subs <=> /\ s \in d.subs
                               /\ ~(<<s[1], s[2]>> \in T /\ (cidrs = {} \/ s[3] \in cidrs))
    BY <2>1, <2>3, <2>4
  <2> QED  BY <2>5 DEF Cut
<1>15. \A r \in D.refs : r \in d.refs /\ <<r[2], r[3]>> \notin Removed(T, d)
  BY <1>7, <1>8, <1>9, <1>12
<1>16. Idle(cs, A) = idle
  <2>1. \A c \in ClonesOf(l, d) : (\A n \in DOMAIN D.nets : n[1] # c) <=> (\A n \in DOMAIN A.nets : n[1] # c)
    <3>1. DOMAIN D.nets = DOMAIN A.nets \ Removed(L, B)
      BY <1>9, DropIs
    <3>2. \A n \in Removed(L, B) : n[1] = l
      BY <1>4 DEF Removed
    <3> QED  BY <1>3, <3>1, <3>2
  <2>2. CASE T # {}
    BY <1>3, <1>6, <1>7, <2>1, <2>2 DEF Idle
  <2>3. CASE T = {}
    <3>1. DOMAIN A.nets = DOMAIN d.nets
      BY <1>10, <1>11, <2>3 DEF Removed
    <3>2. \A c \in ClonesOf(l, d) : \E n \in DOMAIN A.nets : n[1] = c
      <4> SUFFICES ASSUME NEW c \in ClonesOf(l, d) PROVE \E n \in DOMAIN A.nets : n[1] = c
        OBVIOUS
      <4>1. PICK n \in AllNets : <<c, n>> \in DOMAIN d.nets
        BY <1>2, <1>3 DEF Copies
      <4> QED  BY <3>1, <4>1
    <3> QED  BY <1>6, <2>1, <3>2 DEF Idle
  <2> QED  BY <2>2, <2>3
<1>17. /\ IsDb(D) /\ D.nets = Drop(d.nets, Removed(T, d))
       /\ D.l3outs = Drop(d.l3outs, idle) /\ D.clones = Drop(d.clones, idle)
  <2> HIDE DEF idle
  <2> QED  BY <1>8, <1>9, <1>13, <1>16
<1>18. NetworksDeleted(l, ns, cidrs, d, D)
  BY <1>14, <1>15, <1>17 DEF NetworksDeleted, T
<1> QED  BY <1>18 DEF D

-----------------------------------------------------------------------------
(* The operations keep the tables good.                                    *)

\* Networks are deleted with their copies, and clones when their last network is.
LEMMA Shrink ==
    ASSUME NEW d, NEW D, NEW st, Good(d, st), IsDb(D), NEW R, NEW I,
           D.nets = Drop(d.nets, R), D.l3outs = Drop(d.l3outs, I), D.clones = Drop(d.clones, I),
           I = {c \in DOMAIN d.clones : \A n \in DOMAIN D.nets : n[1] # c},
           \A n \in DOMAIN d.nets :
               n[1] \in DOMAIN d.clones /\ <<d.clones[n[1]], n[2]>> \in R => n \in R,
           \A r \in D.refs : r \in d.refs /\ <<r[2], r[3]>> \notin R,
           \A s \in D.subs : s \in d.subs /\ (s[1] \in L3Outs => <<s[1], s[2]>> \notin R),
           \A n \in DOMAIN D.nets, c \in Cidrs : n[1] \in DOMAIN d.clones =>
               /\ <<n[1], n[2], c>> \in D.subs <=> <<n[1], n[2], c>> \in d.subs
               /\ <<d.clones[n[1]], n[2], c>> \in D.subs <=> <<d.clones[n[1]], n[2], c>> \in d.subs
    PROVE  Good(D, st)
<1>1. /\ DOMAIN D.nets = DOMAIN d.nets \ R /\ DOMAIN D.l3outs = DOMAIN d.l3outs \ I
      /\ DOMAIN D.clones = DOMAIN d.clones \ I
  BY DEF Drop
<1>2. /\ \A n \in DOMAIN D.nets : D.nets[n] = d.nets[n]
      /\ \A o \in DOMAIN D.l3outs : D.l3outs[o] = d.l3outs[o]
      /\ \A c \in DOMAIN D.clones : D.clones[c] = d.clones[c]
  BY DEF Drop
<1>3. /\ Outs(d) /\ Networks(d) /\ Copies(d) /\ Contained(d) /\ Agree(d)
      /\ st = "nonat" => DOMAIN d.clones = {}
  BY DEF Good
<1>4. \A l \in L3Outs : l \notin I
  BY <1>3, ClonesApart
<1>5. Outs(D)
  <2>1. DOMAIN D.clones = DOMAIN D.l3outs \ L3Outs
    BY <1>1, <1>3, <1>4 DEF Outs
  <2>2. \A o \in DOMAIN D.l3outs : D.l3outs[o].monitored \in BOOLEAN
    BY <1>1, <1>2, <1>3 DEF Outs
  <2>3. ASSUME NEW c \in DOMAIN D.clones
        PROVE  /\ D.clones[c] \in L3Outs /\ D.clones[c] \in DOMAIN D.l3outs
               /\ \E v \in AllVrfs : c = Clone(D.clones[c], v) /\ D.l3outs[c].vrf = Name(v)
    <3>1. c \in DOMAIN d.clones /\ c \in DOMAIN D.l3outs /\ D.clones[c] = d.clones[c]
      BY <1>1, <1>2, <2>1
    <3>2. D.l3outs[c] = d.l3outs[c]
      BY <1>2, <3>1
    <3>3. d.clones[c] \in L3Outs /\ d.clones[c] \in DOMAIN D.l3outs
      BY <1>1, <1>3, <1>4, <3>1 DEF Outs
    <3>4. \E v \in AllVrfs : c = Clone(d.clones[c], v) /\ d.l3outs[c].vrf = Name(v)
      BY <1>3, <3>1 DEF Outs
    <3> QED  BY <3>1, <3>2, <3>3, <3>4
  <2> QED  BY <2>1, <2>2, <2>3 DEF Outs
<1>6. Networks(D)
  <2> SUFFICES ASSUME NEW n \in DOMAIN D.nets
               PROVE  /\ n = <<n[1], n[2]>> /\ n[1] \in DOMAIN D.l3outs /\ n[2] \in AllNets
                      /\ D.nets[n] \in BOOLEAN
                      /\ D.nets[n] => n[1] \in L3Outs /\ D.l3outs[n[1]].monitored
    BY DEF Networks
  <2>1. n \in DOMAIN d.nets /\ D.nets[n] = d.nets[n]
    BY <1>1, <1>2
  <2>2. n[1] \notin I
    OBVIOUS
  <2>3. /\ n = <<n[1], n[2]>> /\ n[1] \in DOMAIN d.l3outs /\ n[2] \in AllNets
        /\ d.nets[n] \in BOOLEAN
        /\ d.nets[n] => n[1] \in L3Outs /\ d.l3outs[n[1]].monitored
    BY <1>3, <2>1 DEF Networks
  <2>4. n[1] \in DOMAIN D.l3outs /\ D.l3outs[n[1]] = d.l3outs[n[1]]
    BY <1>1, <1>2, <2>2, <2>3
  <2> QED  BY <2>1, <2>3, <2>4
<1>7. Copies(D)
  <2>1. ASSUME NEW n \in DOMAIN D.nets, n[1] \in DOMAIN D.clones
        PROVE  <<D.clones[n[1]], n[2]>> \in DOMAIN D.nets
    <3>1. n \in DOMAIN d.nets /\ n \notin R /\ n[1] \in DOMAIN d.clones /\ D.clones[n[1]] = d.clones[n[1]]
      BY <1>1, <1>2, <2>1
    <3>2. <<d.clones[n[1]], n[2]>> \in DOMAIN d.nets
      BY <1>3, <3>1 DEF Copies
    <3> QED  BY <1>1, <3>1, <3>2
  <2>2. ASSUME NEW c \in DOMAIN D.clones
        PROVE  \E n \in AllNets : <<c, n>> \in DOMAIN D.nets
    <3>1. PICK k \in DOMAIN D.nets : k[1] = c
      BY <1>1
    <3>2. k = <<k[1], k[2]>> /\ k[2] \in AllNets
      BY <1>6 DEF Networks
    <3> QED  BY <3>1, <3>2
  <2> QED  BY <2>1, <2>2 DEF Copies
<1>8. Contained(D)
  <2>1. \A r \in D.refs : <<r[2], r[3]>> \in DOMAIN D.nets
    BY <1>1, <1>3 DEF Contained
  <2>2. \A s \in D.subs : s = <<s[1], s[2], s[3]>> /\ s[2] \in AllNets /\ s[3] \in Cidrs
    BY <1>3 DEF Contained
  <2>3. \A s \in D.subs : s[1] \in L3Outs => <<s[1], s[2]>> \in DOMAIN D.nets
    BY <1>1, <1>3 DEF Contained
  <2> QED  BY <2>1, <2>2, <2>3 DEF Contained
<1>9. Agree(D)
  <2> SUFFICES ASSUME NEW n \in DOMAIN D.nets, n[1] \in DOMAIN D.clones, NEW c \in Cidrs
               PROVE  <<n[1], n[2], c>> \in D.subs <=> <<D.clones[n[1]], n[2], c>> \in D.subs
    BY DEF Agree
  <2>1. n \in DOMAIN d.nets /\ n[1] \in DOMAIN d.clones /\ D.clones[n[1]] = d.clones[n[1]]
    BY <1>1, <1>2
  <2>2. <<n[1], n[2], c>> \in d.subs <=> <<d.clones[n[1]], n[2], c>> \in d.subs
    BY <1>3, <2>1 DEF Agree
  <2> QED  BY <2>1, <2>2
<1> QED  BY <1>1, <1>3, <1>5, <1>6, <1>7, <1>8, <1>9 DEF Good

\* delete_external_network, when callers name CIDRs of monitored networks only.
LEMMA DeleteNetworksGood ==
    ASSUME NEW d, Good(d, strategy), NEW l \in L3Outs, NEW ns, NEW given, NEW cidrs,
           \A n \in ns : cidrs = {} \/ <<l, n>> \notin DOMAIN d.nets \/ d.nets[<<l, n>>]
    PROVE  Good(DeleteNetworks(l, ns, given, cidrs, d), strategy)
<1> DEFINE D == DeleteNetworks(l, ns, given, cidrs, d)
           T == Touched(l, ns, d)
           R == Removed(T, d)
           I == {c \in ClonesOf(l, d) : \A n \in DOMAIN D.nets : n[1] # c}
<1> HIDE DEF D
<1>1. /\ IsDb(D) /\ D.nets = Drop(d.nets, R) /\ D.l3outs = Drop(d.l3outs, I) /\ D.clones = Drop(d.clones, I)
      /\ \A s : s \in D.subs <=> s \in d.subs /\ ~Cut(s, T, cidrs)
      /\ \A r \in D.refs : r \in d.refs /\ <<r[2], r[3]>> \notin R
  <2>1. NetworksDeleted(l, ns, cidrs, d, D)
    BY DeleteNetworksIs DEF D
  <2> QED  BY <2>1 DEF NetworksDeleted
<1>2. Outs(d) /\ Networks(d) /\ Copies(d) /\ Contained(d)
  BY DEF Good
<1>3. \A m \in L3Outs : m \notin DOMAIN d.clones
  BY <1>2, ClonesApart
<1>4. R \subseteq T /\ T \subseteq DOMAIN d.nets /\ DOMAIN D.nets = DOMAIN d.nets \ R
  BY <1>1 DEF Removed, Touched, Drop
<1>5. \A k \in DOMAIN d.nets : k[1] \in DOMAIN d.clones =>
          ~d.nets[k] /\ (k \in R <=> k[2] \in ns /\ d.clones[k[1]] = l)
  BY <1>2, <1>3, ClonesApart DEF Removed, Touched
<1>6. I = {c \in DOMAIN d.clones : \A n \in DOMAIN D.nets : n[1] # c}
  <2> SUFFICES ASSUME NEW c \in DOMAIN d.clones, d.clones[c] # l
               PROVE  \E n \in DOMAIN D.nets : n[1] = c
    BY DEF ClonesOf
  <2>1. PICK n \in AllNets : <<c, n>> \in DOMAIN d.nets
    BY <1>2 DEF Copies
  <2> QED  BY <1>4, <1>5, <2>1
<1>7. ASSUME NEW k \in DOMAIN d.nets, k[1] \in DOMAIN d.clones, <<d.clones[k[1]], k[2]>> \in R
      PROVE  k \in R
  <2>1. d.clones[k[1]] \in L3Outs
    BY <1>2, <1>7 DEF Outs
  <2>2. d.clones[k[1]] = l /\ k[2] \in ns
    BY <1>3, <1>7, <2>1 DEF Removed, Touched
  <2> QED  BY <1>5, <1>7, <2>2
<1>8. ASSUME NEW s \in D.subs, s[1] \in L3Outs
      PROVE  <<s[1], s[2]>> \notin R
  <2> SUFFICES ASSUME <<s[1], s[2]>> \in R PROVE FALSE
    OBVIOUS
  <2>1. s[1] = l /\ s[2] \in ns /\ <<l, s[2]>> \in DOMAIN d.nets /\ ~d.nets[<<l, s[2]>>]
    BY <1>3, <1>8 DEF Removed, Touched
  <2>2. cidrs = {}
    BY <2>1
  <2> QED  BY <1>1, <1>4, <2>2 DEF Cut
<1>9. ASSUME NEW n \in DOMAIN D.nets, NEW c \in Cidrs, n[1] \in DOMAIN d.clones
      PROVE  /\ <<n[1], n[2], c>> \in D.subs <=> <<n[1], n[2], c>> \in d.subs
             /\ <<d.clones[n[1]], n[2], c>> \in D.subs <=> <<d.clones[n[1]], n[2], c>> \in d.subs
  <2>1. n \in DOMAIN d.nets /\ n \notin R /\ n = <<n[1], n[2]>>
    BY <1>2, <1>4 DEF Networks
  <2>2. n[2] \notin ns \/ d.clones[n[1]] # l
    BY <1>5, <1>9, <2>1
  <2>3. d.clones[n[1]] \in L3Outs
    BY <1>2, <1>9 DEF Outs
  <2>4. <<n[1], n[2]>> \notin T /\ <<d.clones[n[1]], n[2]>> \notin T
    BY <1>3, <1>9, <2>2, <2>3 DEF Touched
  <2>5. ~Cut(<<n[1], n[2], c>>, T, cidrs) /\ ~Cut(<<d.clones[n[1]], n[2], c>>, T, cidrs)
    BY <2>4 DEF Cut
  <2> QED  BY <1>1, <2>5
<1> HIDE DEF T, R, I
<1>10. Good(D, strategy)
  BY <1>1, <1>6, <1>7, <1>8, <1>9, Shrink
<1> QED  BY <1>10 DEF D

\* _delete_shadow
LEMMA DeleteShadowGood ==
    ASSUME NEW d, NEW st, Good(d, st), NEW l \in L3Outs, NEW v \in AllVrfs, NEW n
    PROVE  LET c == Clone(l, v)
           IN  Good(DeleteUnused({c}, DeleteExtNets({<<c, n>>}, l, {}, {}, d)), st)
<1> DEFINE c == Clone(l, v)
           N == {<<c, n>>}
           none == {}
           A == DeleteExtNets(N, l, none, none, d)
           D == DeleteUnused({c}, A)
           R == Removed(N, d)
           I == Idle({c}, A)
<1>1. c \notin L3Outs
  BY NamesAssumption
<1>2. N = {<<c, n>>} /\ none = {}
  OBVIOUS
<1> HIDE DEF c, N, none, A, D, R, I
<1>3. IsDb(d) /\ Outs(d) /\ Networks(d) /\ Copies(d) /\ Contained(d)
  BY DEF Good
<1>4. /\ IsDb(A) /\ A.l3outs = d.l3outs /\ A.clones = d.clones /\ A.nets = Drop(d.nets, R)
      /\ A.subs = {s \in d.subs : ~(/\ <<s[1], s[2]>> \in N \cap DOMAIN d.nets
                                    /\ none = {} \/ s[3] \in none)}
      /\ \A r \in A.refs : r \in d.refs /\ <<r[2], r[3]>> \notin R
  BY <1>3, DeleteExtNetsIs DEF A, R
<1>5. /\ IsDb(D) /\ D.nets = A.nets /\ D.subs = A.subs /\ D.refs = A.refs
      /\ D.l3outs = Drop(A.l3outs, I) /\ D.clones = Drop(A.clones, I)
  BY <1>4, DeleteUnusedIs DEF D, I
<1>6. \A s : s \in D.subs <=> s \in d.subs /\ ~(<<s[1], s[2]>> = <<c, n>> /\ <<c, n>> \in DOMAIN d.nets)
  BY <1>2, <1>4, <1>5
<1>7. DOMAIN D.nets = DOMAIN d.nets \ R /\ R = {<<c, n>>} \cap DOMAIN d.nets
  <2>1. <<c, n>> \in DOMAIN d.nets => ~d.nets[<<c, n>>]
    BY <1>1, <1>3 DEF Networks
  <2> QED  BY <1>2, <1>4, <1>5, <2>1 DEF Drop, R, Removed
<1>8. I = {x \in DOMAIN d.clones : \A k \in DOMAIN D.nets : k[1] # x}
  <2>1. I = {x \in {c} \cap DOMAIN d.l3outs : \A k \in DOMAIN D.nets : k[1] # x}
    BY <1>4, <1>5 DEF I, Idle
  <2>2. c \in DOMAIN d.l3outs <=> c \in DOMAIN d.clones
    BY <1>1, <1>3 DEF Outs
  <2>3. ASSUME NEW x \in DOMAIN d.clones, x # c PROVE \E k \in DOMAIN D.nets : k[1] = x
    <3>1. PICK m \in AllNets : <<x, m>> \in DOMAIN d.nets
      BY <1>3 DEF Copies
    <3> QED  BY <1>7, <2>3, <3>1
  <2> QED  BY <2>1, <2>2, <2>3
<1>9. \A k \in DOMAIN d.nets : k[1] \in DOMAIN d.clones => <<d.clones[k[1]], k[2]>> \notin R
  BY <1>1, <1>3, <1>7 DEF Outs
<1>10. \A s \in D.subs : s \in d.subs /\ (s[1] \in L3Outs => <<s[1], s[2]>> \notin R)
  BY <1>1, <1>6, <1>7
<1>11. ASSUME NEW k \in DOMAIN D.nets, NEW x \in Cidrs, k[1] \in DOMAIN d.clones
       PROVE  /\ <<k[1], k[2], x>> \in D.subs <=> <<k[1], k[2], x>> \in d.subs
              /\ <<d.clones[k[1]], k[2], x>> \in D.subs <=> <<d.clones[k[1]], k[2], x>> \in d.subs
  <2>1. k \in DOMAIN d.nets /\ k \notin R /\ k = <<k[1], k[2]>>
    BY <1>3, <1>7 DEF Networks
  <2>2. d.clones[k[1]] # c
    BY <1>1, <1>3, <1>11 DEF Outs
  <2> QED  BY <1>6, <1>7, <2>1, <2>2
<1>12. /\ D.nets = Drop(d.nets, R) /\ D.l3outs = Drop(d.l3outs, I) /\ D.clones = Drop(d.clones, I)
       /\ \A r \in D.refs : r \in d.refs /\ <<r[2], r[3]>> \notin R
  BY <1>4, <1>5
<1>13. \A k \in DOMAIN d.nets :
           k[1] \in DOMAIN d.clones /\ <<d.clones[k[1]], k[2]>> \in R => k \in R
  BY <1>9
<1>14. Good(D, st)
  BY <1>5, <1>8, <1>10, <1>11, <1>12, <1>13, Shrink
<1> QED  BY <1>2, <1>14 DEF c, N, D, A

\* Contracts of networks that exist may change at will.
LEMMA NewRefs ==
    ASSUME NEW d, NEW D, NEW st, Good(d, st), IsDb(D),
           D.l3outs = d.l3outs, D.nets = d.nets, D.subs = d.subs, D.clones = d.clones,
           \A r \in D.refs : <<r[2], r[3]>> \in DOMAIN d.nets
    PROVE  Good(D, st)
<1>1. Outs(d) /\ Networks(d) /\ Copies(d) /\ Contained(d) /\ Agree(d)
  BY DEF Good
<1>2. Outs(D) /\ Networks(D) /\ Copies(D)
  BY <1>1 DEF Outs, Networks, Copies
<1>3. Contained(D)
  BY <1>1 DEF Contained
<1>4. Agree(D)
  BY <1>1 DEF Agree
<1> QED  BY <1>2, <1>3, <1>4 DEF Good

\* create_l3outside
LEMMA CreateL3outGood ==
    ASSUME NEW d, NEW D, NEW st, Good(d, st), IsDb(D), NEW l \in L3Outs, l \notin DOMAIN d.l3outs,
           NEW o, o.monitored = FALSE, D.l3outs = Put(d.l3outs, l, o),
           D.nets = d.nets, D.subs = d.subs, D.refs = d.refs, D.clones = d.clones
    PROVE  Good(D, st)
<1>1. Outs(d) /\ Networks(d) /\ Copies(d) /\ Contained(d) /\ Agree(d)
  BY DEF Good
<1>2. /\ DOMAIN D.l3outs = DOMAIN d.l3outs \cup {l}
      /\ D.l3outs[l] = o
      /\ \A x \in DOMAIN d.l3outs : D.l3outs[x] = d.l3outs[x]
  BY DEF Put
<1>3. Outs(D)
  <2>1. \A x \in DOMAIN D.l3outs : D.l3outs[x].monitored \in BOOLEAN
    BY <1>1, <1>2 DEF Outs
  <2>2. DOMAIN D.clones = DOMAIN D.l3outs \ L3Outs
    BY <1>1, <1>2 DEF Outs
  <2>3. ASSUME NEW c \in DOMAIN d.clones
        PROVE  /\ D.clones[c] \in L3Outs /\ D.clones[c] \in DOMAIN D.l3outs
               /\ \E v \in AllVrfs : c = Clone(D.clones[c], v) /\ D.l3outs[c].vrf = Name(v)
    <3>1. c \in DOMAIN d.l3outs
      BY <1>1 DEF Outs
    <3> QED  BY <1>1, <1>2, <3>1 DEF Outs
  <2> QED  BY <2>1, <2>2, <2>3 DEF Outs
<1>4. Networks(D)
  BY <1>1, <1>2 DEF Networks
<1> QED  BY <1>1, <1>3, <1>4 DEF Good, Copies, Contained, Agree

\* The L3Out itself goes when it has no networks and no clones.
LEMMA DropL3outGood ==
    ASSUME NEW d, NEW D, NEW st, Good(d, st), IsDb(D), NEW l \in L3Outs,
           \A n \in DOMAIN d.nets : n[1] # l, ClonesOf(l, d) = {},
           D.l3outs = Drop(d.l3outs, {l}),
           D.nets = d.nets, D.subs = d.subs, D.refs = d.refs, D.clones = d.clones
    PROVE  Good(D, st)
<1>1. Outs(d) /\ Networks(d) /\ Copies(d) /\ Contained(d) /\ Agree(d)
  BY DEF Good
<1>2. /\ DOMAIN D.l3outs = DOMAIN d.l3outs \ {l}
      /\ \A x \in DOMAIN D.l3outs : D.l3outs[x] = d.l3outs[x]
  BY DEF Drop
<1>3. Outs(D)
  <2>1. \A x \in DOMAIN D.l3outs : D.l3outs[x].monitored \in BOOLEAN
    BY <1>1, <1>2 DEF Outs
  <2>2. DOMAIN D.clones = DOMAIN D.l3outs \ L3Outs
    BY <1>1, <1>2 DEF Outs
  <2>3. ASSUME NEW c \in DOMAIN d.clones
        PROVE  /\ D.clones[c] \in L3Outs /\ D.clones[c] \in DOMAIN D.l3outs
               /\ \E v \in AllVrfs : c = Clone(D.clones[c], v) /\ D.l3outs[c].vrf = Name(v)
    <3>1. c \in DOMAIN D.l3outs /\ d.clones[c] # l
      BY <1>1, <1>2 DEF Outs, ClonesOf
    <3>2. D.l3outs[c] = d.l3outs[c] /\ D.clones[c] = d.clones[c]
      BY <1>2, <3>1
    <3>3. d.clones[c] \in L3Outs /\ d.clones[c] \in DOMAIN D.l3outs
      BY <1>1, <1>2, <3>1 DEF Outs
    <3>4. \E v \in AllVrfs : c = Clone(d.clones[c], v) /\ d.l3outs[c].vrf = Name(v)
      BY <1>1 DEF Outs
    <3> QED  BY <3>2, <3>3, <3>4
  <2> QED  BY <2>1, <2>2, <2>3 DEF Outs
<1>4. Networks(D)
  <2>1. ASSUME NEW n \in DOMAIN d.nets
        PROVE  /\ n[1] \in DOMAIN D.l3outs
               /\ D.l3outs[n[1]] = d.l3outs[n[1]]
    BY <1>1, <1>2 DEF Networks
  <2>2. ASSUME NEW n \in DOMAIN D.nets
        PROVE  /\ n = <<n[1], n[2]>> /\ n[1] \in DOMAIN D.l3outs /\ n[2] \in AllNets
               /\ D.nets[n] \in BOOLEAN
               /\ D.nets[n] => n[1] \in L3Outs /\ D.l3outs[n[1]].monitored
    BY <1>1, <2>1 DEF Networks
  <2> QED  BY <2>2 DEF Networks
<1> QED  BY <1>1, <1>3, <1>4 DEF Good, Copies, Contained, Agree

\* create_external_network
LEMMA CreateNetworkGood ==
    ASSUME NEW d, NEW D, NEW st, Good(d, st), IsDb(D), NEW l \in L3Outs, l \in DOMAIN d.l3outs,
           NEW n \in AllNets, <<l, n>> \notin DOMAIN d.nets, D.nets = Put(d.nets, <<l, n>>, FALSE),
           D.l3outs = d.l3outs, D.subs = d.subs, D.clones = d.clones,
           \A r \in D.refs : <<r[2], r[3]>> \in DOMAIN D.nets
    PROVE  Good(D, st)
<1>1. Outs(d) /\ Networks(d) /\ Copies(d) /\ Contained(d) /\ Agree(d)
  BY DEF Good
<1>2. PICK k : k = <<l, n>>
  OBVIOUS
<1>3. k[1] = l /\ k[2] = n /\ k = <<k[1], k[2]>>
  BY <1>2
<1>4. /\ DOMAIN D.nets = DOMAIN d.nets \cup {k}
      /\ D.nets[k] = FALSE
      /\ \A x \in DOMAIN d.nets : D.nets[x] = d.nets[x]
  BY <1>2 DEF Put
<1>5. l \notin DOMAIN d.clones
  BY <1>1, ClonesApart
<1>6. Networks(D)
  <2> SUFFICES ASSUME NEW x \in DOMAIN D.nets
               PROVE  /\ x = <<x[1], x[2]>> /\ x[1] \in DOMAIN d.l3outs /\ x[2] \in AllNets
                      /\ D.nets[x] \in BOOLEAN
                      /\ D.nets[x] => x[1] \in L3Outs /\ d.l3outs[x[1]].monitored
    BY DEF Networks
  <2>1. CASE x = k
    BY <1>3, <1>4, <2>1
  <2>2. CASE x \in DOMAIN d.nets
    BY <1>1, <1>4, <2>2 DEF Networks
  <2> QED  BY <1>4, <2>1, <2>2
<1>7. Copies(D)
  <2>1. \A x \in DOMAIN D.nets :
            x[1] \in DOMAIN d.clones => <<d.clones[x[1]], x[2]>> \in DOMAIN D.nets
    BY <1>1, <1>3, <1>4, <1>5 DEF Copies
  <2>2. \A c \in DOMAIN d.clones : \E m \in AllNets : <<c, m>> \in DOMAIN D.nets
    BY <1>1, <1>4 DEF Copies
  <2> QED  BY <2>1, <2>2 DEF Copies
<1>8. Contained(D)
  BY <1>1, <1>4 DEF Contained
<1>9. Agree(D)
  <2>1. \A x \in DOMAIN D.nets : x[1] \in DOMAIN d.clones => x \in DOMAIN d.nets
    BY <1>3, <1>4, <1>5
  <2> QED  BY <1>1, <2>1 DEF Agree
<1>10. Outs(D)
  BY <1>1 DEF Outs
<1> QED  BY <1>6, <1>7, <1>8, <1>9, <1>10 DEF Good

\* update_external_cidrs
LEMMA UpdateCidrsGood ==
    ASSUME NEW d, NEW D, NEW st, Good(d, st), IsDb(D), NEW l \in L3Outs,
           NEW n, <<l, n>> \in DOMAIN d.nets, NEW cidrs \in SUBSET Cidrs,
           NEW where, where = {l} \cup ClonesOf(l, d),
           D.subs = {s \in d.subs : ~(s[1] \in where /\ s[2] = n)}
                    \cup {<<x, n, c>> : x \in where, c \in cidrs},
           D.l3outs = d.l3outs, D.nets = d.nets, D.refs = d.refs, D.clones = d.clones
    PROVE  Good(D, st)
<1>1. Outs(d) /\ Networks(d) /\ Copies(d) /\ Contained(d) /\ Agree(d)
  BY DEF Good
<1>2. Outs(D) /\ Networks(D) /\ Copies(D)
  BY <1>1 DEF Outs, Networks, Copies
<1>3. \A m \in L3Outs : m \in where <=> m = l
  BY <1>1, ClonesApart DEF ClonesOf
<1>4. n \in AllNets
  <2>1. PICK k \in DOMAIN d.nets : k = <<l, n>>
    OBVIOUS
  <2> QED  BY <1>1, <2>1 DEF Networks
<1>5. Contained(D)
  <2>1. ASSUME NEW s \in D.subs
        PROVE  /\ s = <<s[1], s[2], s[3]>> /\ s[2] \in AllNets /\ s[3] \in Cidrs
               /\ s[1] \in L3Outs => <<s[1], s[2]>> \in DOMAIN d.nets
    <3>1. CASE s \in d.subs
      BY <1>1, <3>1 DEF Contained
    <3>2. CASE \E x \in where, c \in cidrs : s = <<x, n, c>>
      <4>1. PICK x \in where, c \in cidrs : s = <<x, n, c>>
        BY <3>2
      <4>2. s[1] = x /\ s[2] = n /\ s[3] = c
        BY <4>1
      <4> QED  BY <1>3, <1>4, <4>1, <4>2
    <3> QED  BY <3>1, <3>2
  <2>2. \A r \in D.refs : <<r[2], r[3]>> \in DOMAIN D.nets
    BY <1>1 DEF Contained
  <2> QED  BY <2>1, <2>2 DEF Contained
<1>6. Agree(D)
  <2>1. ASSUME NEW x, NEW m, NEW c
        PROVE  <<x, m, c>> \in D.subs <=>
                  IF x \in where /\ m = n THEN c \in cidrs ELSE <<x, m, c>> \in d.subs
    <3>1. PICK t : t = <<x, m, c>>
      OBVIOUS
    <3>2. t[1] = x /\ t[2] = m /\ t[3] = c
      BY <3>1
    <3>3. t \in D.subs <=> \/ t \in d.subs /\ ~(x \in where /\ m = n)
                           \/ \E y \in where, z \in cidrs : t = <<y, n, z>>
      BY <3>2
    <3>4. (\E y \in where, z \in cidrs : t = <<y, n, z>>) <=> x \in where /\ m = n /\ c \in cidrs
      BY <3>1
    <3> QED  BY <3>1, <3>3, <3>4
  <2> SUFFICES ASSUME NEW k \in DOMAIN d.nets, k[1] \in DOMAIN d.clones, NEW c \in Cidrs
               PROVE  <<k[1], k[2], c>> \in D.subs <=> <<d.clones[k[1]], k[2], c>> \in D.subs
    BY DEF Agree
  <2>2. d.clones[k[1]] \in L3Outs /\ k[1] \notin L3Outs
    BY <1>1, ClonesApart DEF Outs
  <2>3. d.clones[k[1]] \in where <=> k[1] \in where
    BY <1>3, <2>2 DEF ClonesOf
  <2>4. <<k[1], k[2], c>> \in d.subs <=> <<d.clones[k[1]], k[2], c>> \in d.subs
    BY <1>1 DEF Agree
  <2> QED  BY <2>1, <2>3, <2>4
<1> QED  BY <1>2, <1>5, <1>6 DEF Good

CidrsOf(l, n, d) == {s[3] : s \in SubsOf(<<l, n>>, d)}

\* The tables after _create_shadow.
Shadowed(l, n, v, given, d) ==
    LET c == Clone(l, v)
        e == UpdateContracts(<<c, n>>, UserRefs(<<c, n>>, given, given), d)
        cidrs == {s[3] : s \in SubsOf(<<l, n>>, e)}
    IN  [ManageSubnets(<<c, n>>, cidrs, e) EXCEPT
            !.l3outs = Put(@, c, [vrf |-> Name(v), monitored |-> FALSE]),
            !.nets = Put(@, <<c, n>>, FALSE),
            !.clones = IF c \in DOMAIN @ THEN @ ELSE Put(@, c, l)]

ShadowTables(l, n, c, k, o, d, D) ==
    /\ IsDb(D) /\ D.l3outs = Put(d.l3outs, c, o) /\ D.nets = Put(d.nets, k, FALSE)
    /\ D.clones = IF c \in DOMAIN d.clones THEN d.clones ELSE Put(d.clones, c, l)
    /\ \A r \in D.refs : r \in d.refs \/ <<r[2], r[3]>> = k
    /\ \A t : t \in D.subs <=> \/ t \in d.subs /\ t \notin SubsOf(k, d)
                              \/ \E x \in CidrsOf(l, n, d) : t = <<c, n, x>>

LEMMA ShadowedIs ==
    ASSUME NEW d, IsDb(d), NEW l, NEW n, NEW v, NEW given, NEW c, c = Clone(l, v),
           NEW k, k = <<c, n>>, NEW o, o = [vrf |-> Name(v), monitored |-> FALSE],
           NEW D, D = Shadowed(l, n, v, given, d)
    PROVE  ShadowTables(l, n, c, k, o, d, D)
<1> DEFINE new == UserRefs(k, given, given)
           e == UpdateContracts(k, new, d)
           cidrs == {s[3] : s \in SubsOf(<<l, n>>, e)}
           f == ManageSubnets(k, cidrs, e)
           a == Put(f.l3outs, c, o)
           b == Put(f.nets, k, FALSE)
           g == IF c \in DOMAIN f.clones THEN f.clones ELSE Put(f.clones, c, l)
<1>1. D = [f EXCEPT !.l3outs = a, !.nets = b, !.clones = g]
  BY DEF Shadowed
<1>2. \A r \in new : <<r[2], r[3]>> = k
  BY DEF UserRefs
<1>3. k[1] = c /\ k[2] = n
  OBVIOUS
<1> HIDE DEF new, a, b, g
<1>4. /\ IsDb(e) /\ e.l3outs = d.l3outs /\ e.nets = d.nets /\ e.subs = d.subs /\ e.clones = d.clones
      /\ e.refs = (d.refs \ RefsOf(k, d)) \cup new
  BY DEF UpdateContracts, IsDb
<1> HIDE DEF e
<1>5. \A m : SubsOf(m, e) = SubsOf(m, d)
  BY <1>4 DEF SubsOf
<1> HIDE DEF cidrs
<1>6. /\ IsDb(f) /\ f.l3outs = e.l3outs /\ f.nets = e.nets /\ f.refs = e.refs /\ f.clones = e.clones
      /\ f.subs = (e.subs \ SubsOf(k, e)) \cup {<<k[1], k[2], x>> : x \in cidrs}
  BY <1>4 DEF ManageSubnets, IsDb
<1> HIDE DEF f
<1>7. /\ IsDb(D) /\ D.l3outs = a /\ D.nets = b /\ D.clones = g /\ D.subs = f.subs /\ D.refs = f.refs
  BY <1>1, <1>6 DEF IsDb
<1>8. a = Put(d.l3outs, c, o) /\ b = Put(d.nets, k, FALSE)
      /\ g = IF c \in DOMAIN d.clones THEN d.clones ELSE Put(d.clones, c, l)
  BY <1>4, <1>6 DEF a, b, g
<1>9. \A r \in D.refs : r \in d.refs \/ <<r[2], r[3]>> = k
  BY <1>2, <1>4, <1>6, <1>7
<1>10. \A t : t \in D.subs <=> \/ t \in d.subs /\ t \notin SubsOf(k, d)
                               \/ \E x \in cidrs : t = <<c, n, x>>
  BY <1>3, <1>4, <1>5, <1>6, <1>7
<1>11. cidrs = CidrsOf(l, n, d)
  BY <1>5 DEF cidrs, CidrsOf
<1> QED  BY <1>7, <1>8, <1>9, <1>10, <1>11 DEF ShadowTables

\* _create_shadow: the clone of another L3Out or for another VRF is not meant.
LEMMA ShadowedGood ==
    ASSUME NEW d, NEW st, st # "nonat", Good(d, st), NEW l \in L3Outs, NEW n \in AllNets,
           <<l, n>> \in DOMAIN d.nets, NEW v \in AllVrfs, NEW given
    PROVE  Good(Shadowed(l, n, v, given, d), st)
<1> DEFINE c == Clone(l, v)
           k == <<c, n>>
           D == Shadowed(l, n, v, given, d)
<1>1. IsDb(d) /\ Outs(d) /\ Networks(d) /\ Copies(d) /\ Contained(d) /\ Agree(d)
  BY DEF Good
<1>2. k[1] = c /\ k[2] = n /\ k = <<k[1], k[2]>>
  OBVIOUS
<1>3. c \notin L3Outs /\ \A m \in L3Outs, w \in AllVrfs : c = Clone(m, w) => m = l
  BY NamesAssumption
<1>4. \E w \in AllVrfs : c = Clone(l, w) /\ Name(v) = Name(w)
  OBVIOUS
<1> DEFINE o == [vrf |-> Name(v), monitored |-> FALSE]
           cidrs == CidrsOf(l, n, d)
<1>5. /\ IsDb(D)
      /\ D.l3outs = Put(d.l3outs, c, o)
      /\ D.nets = Put(d.nets, k, FALSE)
      /\ D.clones = IF c \in DOMAIN d.clones THEN d.clones ELSE Put(d.clones, c, l)
      /\ \A r \in D.refs : r \in d.refs \/ <<r[2], r[3]>> = k
      /\ \A t : t \in D.subs <=> \/ t \in d.subs /\ t \notin SubsOf(k, d)
                                \/ \E x \in cidrs : t = <<c, n, x>>
  <2>1. c = Clone(l, v) /\ k = <<c, n>> /\ o = [vrf |-> Name(v), monitored |-> FALSE]
        /\ D = Shadowed(l, n, v, given, d)
    OBVIOUS
  <2> HIDE DEF c, k, o, D
  <2>2. ShadowTables(l, n, c, k, o, d, D)
    BY <1>1, <2>1, ShadowedIs
  <2> QED  BY <2>2 DEF ShadowTables
<1>6. o.vrf = Name(v) /\ o.monitored = FALSE
  OBVIOUS
<1>7. l \in DOMAIN d.l3outs
  <2>1. PICK m \in DOMAIN d.nets : m = <<l, n>>
    OBVIOUS
  <2> QED  BY <1>1, <2>1 DEF Networks
<1>8. \A x : x \in cidrs <=> x \in Cidrs /\ <<l, n, x>> \in d.subs
  <2>1. ASSUME NEW x \in cidrs PROVE x \in Cidrs /\ <<l, n, x>> \in d.subs
    <3>1. PICK s \in SubsOf(<<l, n>>, d) : x = s[3]
      BY DEF CidrsOf
    <3>2. s \in d.subs /\ <<s[1], s[2]>> = <<l, n>>
      BY DEF SubsOf
    <3>3. s = <<s[1], s[2], s[3]>> /\ s[3] \in Cidrs
      BY <1>1, <3>2 DEF Contained
    <3> QED  BY <3>1, <3>2, <3>3
  <2>2. ASSUME NEW x \in Cidrs, <<l, n, x>> \in d.subs PROVE x \in cidrs
    <3>1. PICK s : s = <<l, n, x>>
      OBVIOUS
    <3>2. s \in SubsOf(<<l, n>>, d) /\ s[3] = x
      BY <2>2, <3>1 DEF SubsOf
    <3> QED  BY <3>2 DEF CidrsOf
  <2> QED  BY <2>1, <2>2
<1> HIDE DEF c, k, D, o, cidrs
<1>9. c \in DOMAIN d.clones => d.clones[c] = l
  <2> SUFFICES ASSUME c \in DOMAIN d.clones PROVE d.clones[c] = l
    OBVIOUS
  <2>1. d.clones[c] \in L3Outs /\ \E w \in AllVrfs : c = Clone(d.clones[c], w)
    BY <1>1 DEF Outs
  <2> QED  BY <1>3, <2>1
<1>10. /\ DOMAIN D.clones = DOMAIN d.clones \cup {c} /\ D.clones[c] = l
       /\ \A x \in DOMAIN d.clones : D.clones[x] = d.clones[x]
  <2>1. CASE c \in DOMAIN d.clones
    BY <1>5, <1>9, <2>1
  <2>2. CASE c \notin DOMAIN d.clones
    <3>1. D.clones = Put(d.clones, c, l)
      BY <1>5, <2>2
    <3> QED  BY <2>2, <3>1 DEF Put
  <2> QED  BY <2>1, <2>2
<1>11. /\ DOMAIN D.l3outs = DOMAIN d.l3outs \cup {c} /\ D.l3outs[c] = o
       /\ \A x \in DOMAIN d.l3outs : x # c => D.l3outs[x] = d.l3outs[x]
  <2>1. D.l3outs = Put(d.l3outs, c, o)
    BY <1>5
  <2> QED  BY <2>1 DEF Put
<1>12. /\ DOMAIN D.nets = DOMAIN d.nets \cup {k} /\ D.nets[k] = FALSE
       /\ \A x \in DOMAIN d.nets : x # k => D.nets[x] = d.nets[x]
  <2>1. D.nets = Put(d.nets, k, FALSE)
    BY <1>5
  <2> QED  BY <2>1 DEF Put
<1>13. Outs(D)
  <2>1. DOMAIN D.clones = DOMAIN D.l3outs \ L3Outs
    BY <1>1, <1>3, <1>10, <1>11 DEF Outs
  <2>2. \A x \in DOMAIN D.l3outs : D.l3outs[x].monitored \in BOOLEAN
    BY <1>1, <1>6, <1>11 DEF Outs
  <2>3. ASSUME NEW x \in DOMAIN D.clones
        PROVE  /\ D.clones[x] \in L3Outs /\ D.clones[x] \in DOMAIN D.l3outs
               /\ \E w \in AllVrfs : x = Clone(D.clones[x], w) /\ D.l3outs[x].vrf = Name(w)
    <3>1. CASE x = c
      BY <1>4, <1>6, <1>7, <1>10, <1>11, <3>1
    <3>2. CASE x # c
      <4>1. x \in DOMAIN d.clones /\ D.clones[x] = d.clones[x] /\ x \in DOMAIN d.l3outs
        BY <1>1, <1>10, <3>2 DEF Outs
      <4>2. D.l3outs[x] = d.l3outs[x]
        BY <1>11, <3>2, <4>1
      <4> QED  BY <1>1, <1>11, <4>1, <4>2 DEF Outs
    <3> QED  BY <3>1, <3>2
  <2> QED  BY <2>1, <2>2, <2>3 DEF Outs
<1>14. Networks(D)
  <2> SUFFICES ASSUME NEW x \in DOMAIN D.nets
               PROVE  /\ x = <<x[1], x[2]>> /\ x[1] \in DOMAIN D.l3outs /\ x[2] \in AllNets
                      /\ D.nets[x] \in BOOLEAN
                      /\ D.nets[x] => x[1] \in L3Outs /\ D.l3outs[x[1]].monitored
    BY DEF Networks
  <2>1. CASE x = k
    BY <1>2, <1>11, <1>12, <2>1
  <2>2. CASE x # k
    <3>1. x \in DOMAIN d.nets /\ D.nets[x] = d.nets[x]
      BY <1>12, <2>2
    <3>2. /\ x = <<x[1], x[2]>> /\ x[1] \in DOMAIN d.l3outs /\ x[2] \in AllNets
          /\ d.nets[x] \in BOOLEAN
          /\ d.nets[x] => x[1] \in L3Outs /\ d.l3outs[x[1]].monitored
      BY <1>1, <3>1 DEF Networks
    <3>3. x[1] \in L3Outs => D.l3outs[x[1]] = d.l3outs[x[1]]
      BY <1>3, <1>11, <3>2
    <3> QED  BY <1>11, <3>1, <3>2, <3>3
  <2> QED  BY <2>1, <2>2
<1>15. Copies(D)
  <2>1. ASSUME NEW x \in DOMAIN D.nets, x[1] \in DOMAIN D.clones
        PROVE  <<D.clones[x[1]], x[2]>> \in DOMAIN D.nets
    <3>1. CASE x = k
      BY <1>2, <1>10, <1>12, <3>1
    <3>2. CASE x # k
      <4>1. x \in DOMAIN d.nets
        BY <1>12, <3>2
      <4>2. x[1] \in DOMAIN d.l3outs /\ x[1] \notin L3Outs
        BY <1>1, <1>13, <2>1, <4>1 DEF Networks, Outs
      <4>3. x[1] \in DOMAIN d.clones
        BY <1>1, <4>2 DEF Outs
      <4> QED  BY <1>1, <1>10, <1>12, <4>1, <4>3 DEF Copies
    <3> QED  BY <3>1, <3>2
  <2>2. ASSUME NEW x \in DOMAIN D.clones PROVE \E m \in AllNets : <<x, m>> \in DOMAIN D.nets
    <3>1. CASE x = c
      BY <1>2, <1>12, <3>1
    <3>2. CASE x # c
      BY <1>1, <1>10, <1>12, <3>2 DEF Copies
    <3> QED  BY <3>1, <3>2
  <2> QED  BY <2>1, <2>2 DEF Copies
<1>16. ASSUME NEW x, NEW m, NEW i
       PROVE  <<x, m, i>> \in D.subs <=>
                 IF <<x, m>> = k THEN i \in cidrs ELSE <<x, m, i>> \in d.subs
  <2>1. PICK t : t = <<x, m, i>>
    OBVIOUS
  <2>2. t[1] = x /\ t[2] = m
    BY <2>1
  <2>3. t \in D.subs <=> \/ t \in d.subs /\ <<x, m>> # k
                         \/ \E y \in cidrs : t = <<c, n, y>>
    BY <1>5, <2>2 DEF SubsOf
  <2>4. (\E y \in cidrs : t = <<c, n, y>>) <=> <<x, m>> = k /\ i \in cidrs
    BY <1>2, <2>1
  <2> QED  BY <2>1, <2>3, <2>4
<1>17. Contained(D)
  <2>1. \A r \in D.refs : <<r[2], r[3]>> \in DOMAIN D.nets
    BY <1>1, <1>5, <1>12 DEF Contained
  <2>2. ASSUME NEW s \in D.subs
        PROVE  /\ s = <<s[1], s[2], s[3]>> /\ s[2] \in AllNets /\ s[3] \in Cidrs
               /\ s[1] \in L3Outs => <<s[1], s[2]>> \in DOMAIN D.nets
    <3>1. CASE s \in d.subs
      BY <1>1, <1>12, <3>1 DEF Contained
    <3>2. CASE s \notin d.subs
      <4>1. PICK y \in cidrs : s = <<c, n, y>>
        BY <1>5, <3>2
      <4> QED  BY <1>3, <1>8, <4>1
    <3> QED  BY <3>1, <3>2
  <2> QED  BY <2>1, <2>2 DEF Contained
<1>18. Agree(D)
  <2> SUFFICES ASSUME NEW x \in DOMAIN D.nets, x[1] \in DOMAIN D.clones, NEW i \in Cidrs
               PROVE  <<x[1], x[2], i>> \in D.subs <=> <<D.clones[x[1]], x[2], i>> \in D.subs
    BY DEF Agree
  <2>1. D.clones[x[1]] \in L3Outs
    BY <1>13 DEF Outs
  <2>2. <<D.clones[x[1]], x[2]>> # k
    BY <1>2, <1>3, <2>1
  <2>3. <<D.clones[x[1]], x[2], i>> \in D.subs <=> <<D.clones[x[1]], x[2], i>> \in d.subs
    BY <1>16, <2>2
  <2>4. CASE x = k
    <3>1. <<x[1], x[2], i>> \in D.subs <=> i \in cidrs
      BY <1>2, <1>16, <2>4
    <3> QED  BY <1>2, <1>8, <1>10, <2>3, <2>4, <3>1
  <2>5. CASE x # k
    <3>1. x \in DOMAIN d.nets /\ x = <<x[1], x[2]>>
      BY <1>12, <1>14, <2>5 DEF Networks
    <3>2. x[1] \in DOMAIN d.l3outs /\ x[1] \notin L3Outs
      BY <1>1, <1>13, <3>1 DEF Networks, Outs
    <3>3. x[1] \in DOMAIN d.clones /\ D.clones[x[1]] = d.clones[x[1]]
      BY <1>1, <1>10, <3>2 DEF Outs
    <3>4. <<x[1], x[2], i>> \in D.subs <=> <<x[1], x[2], i>> \in d.subs
      BY <1>16, <2>5, <3>1
    <3> QED  BY <1>1, <2>3, <3>1, <3>3, <3>4 DEF Agree
  <2> QED  BY <2>4, <2>5
<1>19. Good(D, st)
  BY <1>5, <1>13, <1>14, <1>15, <1>17, <1>18 DEF Good
<1> QED  BY <1>19 DEF D

-----------------------------------------------------------------------------
(* The objects of the L3Outs, their VRFs, and the bridge domains.          *)

\* Two L3Outs share at most the application profile.
LEMMA Apart ==
    ASSUME NEW l \in L3Outs
    PROVE  /\ \A o \in NatObjects(l) : o[1] \notin {"subnet", "epgsubnet", "tenant"}
           /\ \A m \in L3Outs : m # l => NatObjects(l) \cap NatObjects(m) \subseteq {NatAp(m)}
           /\ \A m \in L3Outs : m # l => NatBd(l) # NatBd(m) /\ NatVrf(l) # NatVrf(m)
           /\ NatVrf(l) \notin AllVrfs
<1>1. \A o \in NatObjects(l) : o[1] \notin {"subnet", "epgsubnet", "tenant"}
  BY DEF NatObjects, NatBd, NatAp, NatEpg
<1>2. \A m \in L3Outs : m # l => NatBd(l) # NatBd(m) /\ NatVrf(l) # NatVrf(m)
  BY NamesAssumption
<1>3. ASSUME NEW m \in L3Outs, m # l, NEW o \in NatObjects(l), o \in NatObjects(m) PROVE o = NatAp(m)
  <2> DEFINE t == Tenant(l)
             u == Tenant(m)
             x == Ext(Name(l))
             y == Ext(Name(m))
             e == Ext(EpgName[l])
             f == Ext(EpgName[m])
  <2>1. <<t, x>> # <<u, y>> /\ <<"bd", t, e>> # <<"bd", u, f>>
    BY <1>2, <1>3 DEF NatVrf, NatBd
  <2>2. o \in {<<"filter", t, x>>, <<"entry", t, x>>, <<"contract", t, e>>, <<"subject", t, e>>,
               <<"bd", t, e>>, <<"ap", t, AppProfile>>, <<"epg", t, AppProfile, e>>}
    BY DEF NatObjects, NatContract, NatBd, NatAp, NatEpg
  <2>3. o \in {<<"filter", u, y>>, <<"entry", u, y>>, <<"contract", u, f>>, <<"subject", u, f>>,
               <<"bd", u, f>>, <<"ap", u, AppProfile>>, <<"epg", u, AppProfile, f>>}
    BY <1>3 DEF NatObjects, NatContract, NatBd, NatAp, NatEpg
  <2>4. NatAp(m) = <<"ap", u, AppProfile>>
    BY DEF NatAp
  <2> HIDE DEF t, u, x, y, e, f
  <2>5. o = <<"ap", u, AppProfile>>
    <3>1. CASE o[1] = "filter"
      BY <2>1, <2>2, <2>3, <3>1
    <3>2. CASE o[1] = "entry"
      BY <2>1, <2>2, <2>3, <3>2
    <3>3. CASE o[1] = "contract"
      BY <2>1, <2>2, <2>3, <3>3
    <3>4. CASE o[1] = "subject"
      BY <2>1, <2>2, <2>3, <3>4
    <3>5. CASE o[1] = "bd"
      BY <2>1, <2>2, <2>3, <3>5
    <3>6. CASE o[1] = "epg"
      BY <2>1, <2>2, <2>3, <3>6
    <3>7. CASE o[1] = "ap"
      BY <2>3, <3>7
    <3>8. o[1] \in {"filter", "entry", "contract", "subject", "bd", "ap", "epg"}
      BY <2>2
    <3> QED  BY <3>1, <3>2, <3>3, <3>4, <3>5, <3>6, <3>7, <3>8
  <2> QED  BY <2>4, <2>5
<1> QED  BY <1>1, <1>2, <1>3, NamesAssumption

\* _delete_nat_epg takes all that is the L3Out's own, and of what another L3Out has,
\* nothing: its EPG keeps the application profile.
LEMMA WithoutNatEpgIs ==
    ASSUME NEW m \in L3Outs, NEW objects
    PROVE  /\ WithoutNatEpg(m, objects) \subseteq objects
           /\ WithoutNatEpg(m, objects) \cap (NatObjects(m) \ {NatAp(m)}) = {}
           /\ \A gw : <<"subnet", NatBd(m), gw>> \notin WithoutNatEpg(m, objects)
           /\ \A l \in L3Outs : l # m /\ NatObjects(l) \subseteq objects =>
                  NatObjects(l) \subseteq WithoutNatEpg(m, objects)
<1> DEFINE left == {o \in objects \ (NatObjects(m) \ {NatAp(m)}) :
                      ~(o[1] = "subnet" /\ o[2] = NatBd(m))}
           W == WithoutNatEpg(m, objects)
<1>1. W = IF \E o \in left : o[1] = "epg" /\ o[2] = Tenant(m) /\ o[3] = AppProfile
          THEN left ELSE left \ {NatAp(m)}
  BY DEF WithoutNatEpg
<1>2. W \subseteq left
  BY <1>1
<1>3. \A gw : <<"subnet", NatBd(m), gw>> \notin left
  <2> SUFFICES ASSUME NEW gw, NEW o, o = <<"subnet", NatBd(m), gw>>, o \in left PROVE FALSE
    OBVIOUS
  <2>1. o[1] = "subnet" /\ o[2] = NatBd(m)
    OBVIOUS
  <2> QED  BY <2>1
<1>4. ASSUME NEW l \in L3Outs, l # m, NatObjects(l) \subseteq objects
      PROVE  NatObjects(l) \subseteq W
  <2>1. NatObjects(l) \subseteq left
    BY <1>4, Apart
  <2>2. NatEpg(l) \in left /\ NatAp(l) \in left
    BY <2>1 DEF NatObjects
  <2>3. CASE Tenant(l) = Tenant(m)
    <3>1. NatEpg(l)[1] = "epg" /\ NatEpg(l)[2] = Tenant(m) /\ NatEpg(l)[3] = AppProfile
      BY <2>3 DEF NatEpg
    <3> HIDE DEF left, W
    <3> QED  BY <1>1, <2>1, <2>2, <3>1
  <2>4. CASE Tenant(l) # Tenant(m)
    <3>1. NatAp(m) \notin NatObjects(l)
      <4>1. NatAp(m) # NatAp(l)
        BY <2>4 DEF NatAp
      <4>2. \A o \in NatObjects(l) : o # NatAp(l) => o[1] # "ap"
        BY DEF NatObjects, NatAp, NatBd, NatEpg
      <4>3. NatAp(m)[1] = "ap"
        BY DEF NatAp
      <4> QED  BY <4>1, <4>2, <4>3
    <3> HIDE DEF left, W
    <3> QED  BY <1>1, <2>1, <3>1
  <2> QED  BY <2>3, <2>4
<1> QED  BY <1>2, <1>3, <1>4

\* What happens to clones does not matter to the L3Outs of callers.
SameOuts(a, b) ==
    \A l \in L3Outs : (l \in DOMAIN a <=> l \in DOMAIN b) /\ (l \in DOMAIN b => a[l] = b[l])

LEMMA StandingSame ==
    ASSUME NEW a, NEW b, NEW objects, NEW vs, Standing(b, objects, vs), SameOuts(a, b)
    PROVE  Standing(a, objects, vs)
BY DEF Standing, SameOuts

LEMMA DropOuts ==
    ASSUME NEW f, NEW S, S \cap L3Outs = {}
    PROVE  SameOuts(Drop(f, S), f)
BY DEF Drop, SameOuts

LEMMA DeleteNetworksOuts ==
    ASSUME NEW d, Good(d, strategy), NEW l \in L3Outs, NEW ns, NEW given, NEW cidrs
    PROVE  SameOuts(DeleteNetworks(l, ns, given, cidrs, d).l3outs, d.l3outs)
<1>1. PICK D : D = DeleteNetworks(l, ns, given, cidrs, d)
  OBVIOUS
<1>2. NetworksDeleted(l, ns, cidrs, d, D)
  BY <1>1, DeleteNetworksIs
<1>3. PICK I : I \subseteq ClonesOf(l, d) /\ D.l3outs = Drop(d.l3outs, I)
  BY <1>2 DEF NetworksDeleted
<1>4. I \cap L3Outs = {}
  BY <1>3 DEF ClonesOf, Good, Outs
<1> QED  BY <1>1, <1>3, <1>4, DropOuts

LEMMA DeleteShadowOuts ==
    ASSUME NEW d, IsDb(d), NEW l \in L3Outs, NEW v \in AllVrfs, NEW n
    PROVE  LET c == Clone(l, v)
           IN  SameOuts(DeleteUnused({c}, DeleteExtNets({<<c, n>>}, l, {}, {}, d)).l3outs, d.l3outs)
<1> DEFINE c == Clone(l, v)
           N == {<<c, n>>}
           A == DeleteExtNets(N, l, {}, {}, d)
           D == DeleteUnused({c}, A)
<1>1. c \notin L3Outs
  BY NamesAssumption
<1> HIDE DEF c, N
<1>2. IsDb(A) /\ A.l3outs = d.l3outs
  BY DeleteExtNetsIs
<1> HIDE DEF A
<1>3. D.l3outs = Drop(d.l3outs, Idle({c}, A))
  BY <1>2, DeleteUnusedIs
<1>4. Idle({c}, A) \cap L3Outs = {}
  BY <1>1 DEF Idle
<1> HIDE DEF D
<1> QED  BY <1>3, <1>4, DropOuts DEF D, A, N, c

LEMMA ShadowedOuts ==
    ASSUME NEW d, IsDb(d), NEW l \in L3Outs, NEW n, NEW v \in AllVrfs, NEW given
    PROVE  SameOuts(Shadowed(l, n, v, given, d).l3outs, d.l3outs)
<1>1. PICK c, k, o, D : /\ c = Clone(l, v) /\ k = <<c, n>>
                        /\ o = [vrf |-> Name(v), monitored |-> FALSE]
                        /\ D = Shadowed(l, n, v, given, d)
  OBVIOUS
<1>2. ShadowTables(l, n, c, k, o, d, D)
  BY <1>1, ShadowedIs
<1>3. D.l3outs = Put(d.l3outs, c, o)
  BY <1>2 DEF ShadowTables
<1>4. c \notin L3Outs
  BY <1>1, NamesAssumption
<1>5. SameOuts(D.l3outs, d.l3outs)
  BY <1>3, <1>4 DEF Put, SameOuts
<1> QED  BY <1>1, <1>5

\* create_l3outside: of an L3Out that is there too, which gets its objects again.
LEMMA CreateStanding ==
    ASSUME NEW outs, NEW objects, NEW vs, Standing(outs, objects, vs), NEW l \in L3Outs,
           NEW new, NEW os, NEW ws,
           os = objects \cup {<<"tenant", Tenant(l)>>} \cup NatObjects(l),
           \/ l \in DOMAIN outs /\ new = outs /\ ws = vs
           \/ \E o : new = Put(outs, l, o) /\ ws = vs \cup {NatVrf(l)}
    PROVE  Standing(new, os, ws)
<1>1. /\ \A m \in L3Outs : m \in DOMAIN new <=> m \in DOMAIN outs \/ m = l
      /\ \A m \in DOMAIN outs : m # l => new[m] = outs[m]
  BY DEF Put
<1> SUFFICES ASSUME NEW m \in L3Outs
             PROVE  /\ m \in DOMAIN new /\ ~new[m].monitored =>
                          NatObjects(m) \subseteq os /\ NatVrf(m) \in ws
                    /\ m \notin DOMAIN new =>
                          /\ os \cap (NatObjects(m) \ {NatAp(m)}) = {}
                          /\ \A gw : <<"subnet", NatBd(m), gw>> \notin os
                          /\ NatVrf(m) \notin ws
  BY DEF Standing
<1>2. CASE m = l
  BY <1>1, <1>2 DEF Standing
<1>3. CASE m # l
  <2>1. m \in DOMAIN new /\ ~new[m].monitored => NatObjects(m) \subseteq os /\ NatVrf(m) \in ws
    BY <1>1, <1>3 DEF Standing
  <2>2. ASSUME m \notin DOMAIN new
        PROVE  /\ os \cap (NatObjects(m) \ {NatAp(m)}) = {}
               /\ \A gw : <<"subnet", NatBd(m), gw>> \notin os
               /\ NatVrf(m) \notin ws
    <3>1. m \notin DOMAIN outs
      BY <1>1, <2>2
    <3>2. /\ objects \cap (NatObjects(m) \ {NatAp(m)}) = {}
          /\ \A gw : <<"subnet", NatBd(m), gw>> \notin objects
          /\ NatVrf(m) \notin vs
      BY <3>1 DEF Standing
    <3>3. NatObjects(l) \cap NatObjects(m) \subseteq {NatAp(m)} /\ NatVrf(l) # NatVrf(m)
      BY <1>3, Apart
    <3>4. <<"tenant", Tenant(l)>> \notin NatObjects(m)
      <4>1. PICK x : x = <<"tenant", Tenant(l)>>
        OBVIOUS
      <4>2. x[1] = "tenant"
        BY <4>1
      <4> QED  BY <4>1, <4>2, Apart
    <3>5. ASSUME NEW gw PROVE <<"subnet", NatBd(m), gw>> \notin os
      <4>1. PICK x : x = <<"subnet", NatBd(m), gw>>
        OBVIOUS
      <4>2. x[1] = "subnet" /\ x # <<"tenant", Tenant(l)>>
        BY <4>1
      <4> QED  BY <3>2, <4>1, <4>2, Apart
    <3> QED  BY <3>2, <3>3, <3>4, <3>5
  <2> QED  BY <2>1, <2>2
<1> QED  BY <1>2, <1>3

\* delete_l3outside.  A monitored L3Out loses its objects but stays.
LEMMA DeleteStanding ==
    ASSUME NEW outs, NEW objects, NEW vs, Standing(outs, objects, vs), NEW l \in L3Outs,
           l \in DOMAIN outs, NEW new,
           \/ outs[l].monitored /\ new = outs
           \/ new = Drop(outs, {l})
    PROVE  Standing(new, WithoutNatEpg(l, objects), vs \ {NatVrf(l)})
<1> DEFINE os == WithoutNatEpg(l, objects)
           ws == vs \ {NatVrf(l)}
<1>1. /\ \A m \in L3Outs : m # l => (m \in DOMAIN new <=> m \in DOMAIN outs)
      /\ \A m \in DOMAIN outs : m # l => new[m] = outs[m]
      /\ l \in DOMAIN new => outs[l].monitored /\ new = outs
  BY DEF Drop
<1> SUFFICES ASSUME NEW m \in L3Outs
             PROVE  /\ m \in DOMAIN new /\ ~new[m].monitored =>
                          NatObjects(m) \subseteq os /\ NatVrf(m) \in ws
                    /\ m \notin DOMAIN new =>
                          /\ os \cap (NatObjects(m) \ {NatAp(m)}) = {}
                          /\ \A gw : <<"subnet", NatBd(m), gw>> \notin os
                          /\ NatVrf(m) \notin ws
  BY DEF Standing
<1> HIDE DEF os
<1>2. CASE m = l
  BY <1>1, <1>2, WithoutNatEpgIs DEF os
<1>3. CASE m # l
  <2>1. NatVrf(m) # NatVrf(l)
    BY <1>3, Apart
  <2>2. m \in DOMAIN outs /\ ~outs[m].monitored => NatObjects(m) \subseteq os
    BY <1>3, WithoutNatEpgIs DEF os, Standing
  <2>3. os \subseteq objects
    BY WithoutNatEpgIs DEF os
  <2> QED  BY <1>1, <1>3, <2>1, <2>2, <2>3 DEF Standing
<1> QED  BY <1>2, <1>3

\* create_subnet, delete_subnet and their variants for the EPG
LEMMA SubnetStanding ==
    ASSUME NEW outs, NEW objects, NEW vs, Standing(outs, objects, vs), NEW l \in L3Outs,
           l \in DOMAIN outs, NEW gw, NEW x,
           x \in {Append(parent, gw) : parent \in {<<"subnet", NatBd(l)>>, <<"epgsubnet", NatEpg(l)>>}}
    PROVE  Standing(outs, objects \cup {x}, vs) /\ Standing(outs, objects \ {x}, vs)
<1>1. x[1] \in {"subnet", "epgsubnet"} /\ (x[1] = "subnet" => x[2] = NatBd(l))
  <2>1. \A kind, b : Append(<<kind, b>>, gw)[1] = kind /\ Append(<<kind, b>>, gw)[2] = b
    OBVIOUS
  <2> QED  BY <2>1
<1>2. \A m \in L3Outs : x \notin NatObjects(m)
  BY <1>1, Apart
<1>3. \A m \in L3Outs : \A g : m # l => x # <<"subnet", NatBd(m), g>>
  <2> SUFFICES ASSUME NEW m \in L3Outs, NEW g, m # l, x = <<"subnet", NatBd(m), g>> PROVE FALSE
    OBVIOUS
  <2>1. NatBd(m) # NatBd(l)
    BY Apart
  <2>2. x[1] = "subnet" /\ x[2] = NatBd(m)
    OBVIOUS
  <2> QED  BY <1>1, <2>1, <2>2
<1> QED  BY <1>2, <1>3 DEF Standing

LEMMA BridgesKept ==
    ASSUME Bridges(bds), NEW l \in L3Outs, NEW S, NEW isNet
    PROVE  Bridges(SetBds(S, l)) /\ Bridges(UnsetBds(S, l)) /\ Bridges(BdsAfterDelete(l, isNet))
<1>1. \A X : Bridges(SetBds(X, l)) /\ Bridges(UnsetBds(X, l))
  BY DEF Bridges, SetBds, UnsetBds
<1> QED  BY <1>1 DEF BdsAfterDelete

-----------------------------------------------------------------------------
(* The steps.                                                              *)

LEMMA Initially == Init => IInv
<1> SUFFICES ASSUME Init PROVE IInv
  OBVIOUS
<1>1. /\ l3outs = [l \in DOMAIN Existing |-> [vrf |-> Existing[l], monitored |-> TRUE]]
      /\ subs = {} /\ refs = {} /\ nat = {} /\ vrfs = AllVrfs /\ DOMAIN clones = {}
      /\ bds = [b \in DOMAIN Bds |-> {}]
  BY DEF Init
<1>2. PICK S \in SUBSET ((DOMAIN Existing) \X AllNets) : nets = [n \in S |-> TRUE]
  BY DEF Init
<1>3. DOMAIN l3outs \subseteq L3Outs /\ \A l \in DOMAIN l3outs : l3outs[l].monitored = TRUE
  BY <1>1, ExistingAssumption
<1>4. \A n \in DOMAIN nets : /\ n = <<n[1], n[2]>> /\ n[1] \in DOMAIN l3outs /\ n[2] \in AllNets
                              /\ nets[n] = TRUE
  BY <1>1, <1>2
<1>5. Good(Tables, strategy)
  <2>1. Outs(Tables)
    BY <1>1, <1>3, TablesIsDb DEF Outs
  <2>2. Networks(Tables)
    BY <1>3, <1>4, TablesIsDb DEF Networks
  <2>3. Copies(Tables) /\ Contained(Tables) /\ Agree(Tables)
    BY <1>1, TablesIsDb DEF Copies, Contained, Agree
  <2> QED  BY <1>1, <2>1, <2>2, <2>3, TablesIsDb DEF Good
<1>6. Standing(l3outs, nat, vrfs)
  BY <1>1, <1>3, Apart DEF Standing
<1>7. Bridges(bds)
  BY <1>1 DEF Bridges
<1> QED  BY <1>5, <1>6, <1>7 DEF IInv

LEMMA Inductive == IInv /\ [Next]_vars => IInv'
<1> SUFFICES ASSUME IInv, [Next]_vars PROVE IInv'
  OBVIOUS
<1> DEFINE Kept == Good(Tables', strategy) /\ Standing(l3outs', nat', vrfs') /\ Bridges(bds')
<1>1. Good(Tables, strategy) /\ Standing(l3outs, nat, vrfs) /\ Bridges(bds)
  BY DEF IInv
<1>2. IsDb(Tables) /\ Outs(Tables) /\ Networks(Tables) /\ Contained(Tables)
  BY <1>1 DEF Good
<1>3. UNCHANGED <<l3outs, nets, subs, refs, clones>> => Tables' = Tables
  BY DEF Tables
<1>4. \A l \in L3Outs : Nets[l] \subseteq AllNets /\ Vrfs[l] \subseteq AllVrfs
  BY DEF AllNets, AllVrfs
<1>5. ASSUME NEW l \in L3Outs, CreateL3out(l) PROVE Kept
  <2>1. Standing(l3outs', nat', vrfs')
    <3>1. nat' = nat \cup {<<"tenant", Tenant(l)>>} \cup NatObjects(l)
      BY <1>5 DEF CreateL3out
    <3>2. \/ l \in DOMAIN l3outs /\ l3outs' = l3outs /\ vrfs' = vrfs
          \/ \E o : l3outs' = Put(l3outs, l, o) /\ vrfs' = vrfs \cup {NatVrf(l)}
      BY <1>5 DEF CreateL3out
    <3> QED  BY <1>1, <3>1, <3>2, CreateStanding
  <2>2. Good(Tables', strategy)
    <3>1. CASE l \in DOMAIN l3outs
      BY <1>1, <1>3, <1>5, <3>1 DEF CreateL3out
    <3>2. CASE l \notin DOMAIN l3outs
      <4>1. PICK o : o.monitored = FALSE /\ l3outs' = Put(l3outs, l, o)
        BY <1>5, <3>2 DEF CreateL3out
      <4>2. UNCHANGED <<nets, subs, refs, clones>>
        BY <1>5 DEF CreateL3out
      <4>3. PICK d, D : d = Tables /\ D = Tables'
        OBVIOUS
      <4> QED  BY <1>1, <3>2, <4>1, <4>2, <4>3, TablesIsDb, TablesNext, CreateL3outGood
    <3> QED  BY <3>1, <3>2
  <2> QED  BY <1>1, <1>5, <2>1, <2>2 DEF CreateL3out
<1>6. ASSUME NEW l \in L3Outs, DeleteL3out(l) PROVE Kept
  <2>1. PICK d : d = DeleteNetworks(l, AllNets, {}, {}, Tables)
    OBVIOUS
  <2>2. Good(d, strategy) /\ SameOuts(d.l3outs, l3outs) /\ NetworksDeleted(l, AllNets, {}, Tables, d)
    BY <1>1, <2>1, DeleteNetworksGood, DeleteNetworksOuts, DeleteNetworksIs, TablesIsDb
  <2>3. /\ l \in DOMAIN l3outs /\ (l3outs[l].monitored \/ ClonesOf(l, d) = {})
        /\ Store(IF l3outs[l].monitored THEN d ELSE [d EXCEPT !.l3outs = Drop(@, {l})])
        /\ nat' = WithoutNatEpg(l, nat) /\ vrfs' = vrfs \ {NatVrf(l)}
        /\ \E isNet : bds' = BdsAfterDelete(l, isNet)
    BY <1>6, <2>1 DEF DeleteL3out
  <2>4. Standing(d.l3outs, nat, vrfs) /\ l \in DOMAIN d.l3outs /\ d.l3outs[l] = l3outs[l] /\ IsDb(d)
    BY <1>1, <2>2, <2>3, StandingSame DEF SameOuts, Good
  <2>5. Bridges(bds')
    BY <1>1, <2>3, BridgesKept
  <2>6. CASE l3outs[l].monitored
    <3>1. Tables' = d /\ l3outs' = d.l3outs
      BY <2>3, <2>4, <2>6, StoreIsDb
    <3> QED  BY <2>2, <2>3, <2>4, <2>5, <2>6, <3>1, DeleteStanding
  <2>7. CASE ~l3outs[l].monitored
    <3>1. PICK e : e = [d EXCEPT !.l3outs = Drop(@, {l})]
      OBVIOUS
    <3>2. IsDb(e) /\ e.l3outs = Drop(d.l3outs, {l}) /\ e.nets = d.nets /\ e.subs = d.subs
          /\ e.refs = d.refs /\ e.clones = d.clones
      BY <2>4, <3>1 DEF IsDb
    <3>3. Tables' = e /\ l3outs' = e.l3outs
      BY <2>3, <2>7, <3>1, <3>2, StoreIsDb
    <3>4. \A n \in DOMAIN d.nets : n[1] # l
      <4> SUFFICES ASSUME NEW n \in DOMAIN d.nets, n[1] = l PROVE FALSE
        OBVIOUS
      <4>1. d.nets = Drop(nets, Removed(Touched(l, AllNets, Tables), Tables))
        BY <2>2, TablesIsDb DEF NetworksDeleted
      <4>2. n \in DOMAIN nets /\ n \notin Removed(Touched(l, AllNets, Tables), Tables)
        BY <4>1 DEF Drop
      <4>3. n[2] \in AllNets /\ ~nets[n]
        BY <1>2, <2>7, <4>2, TablesIsDb DEF Networks
      <4> QED  BY <4>2, <4>3, TablesIsDb DEF Removed, Touched
    <3>5. Good(e, strategy)
      BY <2>2, <2>3, <2>7, <3>2, <3>4, DropL3outGood
    <3>6. Standing(l3outs', nat', vrfs')
      BY <2>3, <2>4, <3>2, <3>3, DeleteStanding
    <3> QED  BY <2>5, <3>3, <3>5, <3>6
  <2> QED  BY <2>6, <2>7
<1>7. ASSUME NEW l \in L3Outs, NEW gw, CreateSubnet(l, gw) \/ DeleteSubnet(l, gw) PROVE Kept
  <2>1. PICK x \in {Append(parent, gw) : parent \in {<<"subnet", NatBd(l)>>, <<"epgsubnet", NatEpg(l)>>}} :
            nat' = nat \cup {x} \/ nat' = nat \ {x}
    BY <1>7 DEF CreateSubnet, DeleteSubnet
  <2>2. l \in DOMAIN l3outs /\ UNCHANGED <<l3outs, nets, subs, refs, vrfs, bds, clones>>
    BY <1>7 DEF CreateSubnet, DeleteSubnet
  <2>3. Standing(l3outs, nat \cup {x}, vrfs) /\ Standing(l3outs, nat \ {x}, vrfs)
    BY <1>1, <2>1, <2>2, SubnetStanding
  <2> QED  BY <1>1, <1>3, <2>1, <2>2, <2>3
<1>8. ASSUME NEW l \in L3Outs, NEW n \in Nets[l], NEW given, CreateExternalNetwork(l, n, given) PROVE Kept
  <2>1. /\ l \in DOMAIN l3outs /\ UNCHANGED <<l3outs, subs, nat, vrfs, bds, clones>>
        /\ nets' = IF <<l, n>> \in DOMAIN nets THEN nets ELSE Put(nets, <<l, n>>, FALSE)
        /\ refs' = refs \cup NatRefs(<<l, n>>, l) \cup UserRefs(<<l, n>>, given, given)
    BY <1>8 DEF CreateExternalNetwork
  <2>2. \A r \in refs' : r \in refs \/ <<r[2], r[3]>> = <<l, n>>
    BY <2>1 DEF NatRefs, UserRefs
  <2>3. DOMAIN nets' = DOMAIN nets \cup {<<l, n>>}
    BY <2>1 DEF Put
  <2>4. \A r \in refs' : <<r[2], r[3]>> \in DOMAIN nets'
    BY <1>2, <2>2, <2>3, TablesIsDb DEF Contained
  <2>5. PICK d, D : d = Tables /\ D = Tables'
    OBVIOUS
  <2>6. CASE <<l, n>> \in DOMAIN nets
    BY <1>1, <2>1, <2>4, <2>5, <2>6, TablesIsDb, TablesNext, NewRefs
  <2>7. CASE <<l, n>> \notin DOMAIN nets
    BY <1>1, <1>4, <2>1, <2>4, <2>5, <2>7, TablesIsDb, TablesNext, CreateNetworkGood
  <2> QED  BY <2>6, <2>7
<1>9. ASSUME NEW l \in L3Outs, NEW n \in Nets[l], NEW given, NEW cidrs \in SUBSET Cidrs,
             DeleteExternalNetwork(l, n, given, cidrs)
      PROVE  Kept
  <2>1. PICK d : d = DeleteNetworks(l, {n}, given, cidrs, Tables)
    OBVIOUS
  <2>2. /\ cidrs = {} \/ nets[<<l, n>>]
        /\ Store(d) /\ bds' = BdsAfterDelete(l, TRUE) /\ UNCHANGED <<nat, vrfs>>
    BY <1>9, <2>1 DEF DeleteExternalNetwork
  <2>3. Good(d, strategy) /\ SameOuts(d.l3outs, l3outs)
    BY <1>1, <2>1, <2>2, DeleteNetworksGood, DeleteNetworksOuts, TablesIsDb
  <2>4. Tables' = d /\ l3outs' = d.l3outs
    BY <2>2, <2>3, StoreIsDb DEF Good
  <2>5. Bridges(bds')
    BY <1>1, <2>2, BridgesKept
  <2> QED  BY <1>1, <2>2, <2>3, <2>4, <2>5, StandingSame
<1>10. ASSUME NEW l \in L3Outs, NEW n, NEW new,
              \A r \in new : <<r[2], r[3]>> = <<l, n>>, <<l, n>> \in DOMAIN nets,
              Store(UpdateContracts(<<l, n>>, new, Tables)), UNCHANGED <<nat, vrfs>>
       PROVE  Good(Tables', strategy) /\ Standing(l3outs', nat', vrfs')
  <2>1. PICK d, D : d = Tables /\ D = UpdateContracts(<<l, n>>, new, Tables)
    OBVIOUS
  <2>2. IsDb(D) /\ D.l3outs = d.l3outs /\ D.nets = d.nets /\ D.subs = d.subs /\ D.clones = d.clones
        /\ \A r \in D.refs : r \in d.refs \/ r \in new
    BY <1>2, <2>1 DEF UpdateContracts, IsDb
  <2>3. \A r \in D.refs : <<r[2], r[3]>> \in DOMAIN d.nets
    BY <1>2, <1>10, <2>1, <2>2, TablesIsDb DEF Contained
  <2>4. Good(D, strategy)
    BY <1>1, <2>1, <2>2, <2>3, NewRefs
  <2>5. Tables' = D /\ l3outs' = l3outs
    BY <1>10, <2>1, <2>2, StoreIsDb, TablesIsDb
  <2> QED  BY <1>1, <1>10, <2>4, <2>5
<1>11. ASSUME NEW l \in L3Outs, NEW n, NEW v, NEW given, ConnectNoNat(l, n, v, given) PROVE Kept
  <2>1. \A r \in UserRefs(<<l, n>>, given, given) \cup NatRefs(<<l, n>>, l) : <<r[2], r[3]>> = <<l, n>>
    BY DEF UserRefs, NatRefs
  <2> QED  BY <1>1, <1>10, <1>11, <2>1, BridgesKept DEF ConnectNoNat
<1>12. ASSUME NEW l \in L3Outs, NEW n, NEW v, DisconnectNoNat(l, n, v) PROVE Kept
  <2>1. \A r \in NatRefs(<<l, n>>, l) : <<r[2], r[3]>> = <<l, n>>
    BY DEF NatRefs
  <2> QED  BY <1>1, <1>10, <1>12, <2>1, BridgesKept DEF DisconnectNoNat
<1>13. ASSUME NEW l \in L3Outs, NEW n \in Nets[l], NEW v \in Vrfs[l], NEW given, CreateShadow(l, n, v, given)
       PROVE  Kept
  <2>1. PICK d : d = Shadowed(l, n, v, given, Tables)
    OBVIOUS
  <2>2. strategy # "nonat" /\ <<l, n>> \in DOMAIN nets /\ Store(d) /\ UNCHANGED <<nat, vrfs, bds>>
    BY <1>13, <2>1 DEF CreateShadow, Shadowed
  <2>3. Good(d, strategy) /\ SameOuts(d.l3outs, l3outs)
    BY <1>1, <1>2, <1>4, <2>1, <2>2, ShadowedGood, ShadowedOuts, TablesIsDb
  <2>4. Tables' = d /\ l3outs' = d.l3outs
    BY <2>2, <2>3, StoreIsDb DEF Good
  <2> QED  BY <1>1, <2>2, <2>3, <2>4, StandingSame
<1>14. ASSUME NEW l \in L3Outs, NEW n, NEW v \in Vrfs[l], DeleteShadow(l, n, v) PROVE Kept
  <2>1. PICK d : d = DeleteUnused({Clone(l, v)}, DeleteExtNets({<<Clone(l, v), n>>}, l, {}, {}, Tables))
    OBVIOUS
  <2>2. Store(d) /\ UNCHANGED <<nat, vrfs, bds>>
    BY <1>14, <2>1 DEF DeleteShadow
  <2>3. Good(d, strategy) /\ SameOuts(d.l3outs, l3outs)
    BY <1>1, <1>2, <1>4, <2>1, DeleteShadowGood, DeleteShadowOuts, TablesIsDb
  <2>4. Tables' = d /\ l3outs' = d.l3outs
    BY <2>2, <2>3, StoreIsDb DEF Good
  <2> QED  BY <1>1, <2>2, <2>3, <2>4, StandingSame
<1>15. ASSUME NEW l \in L3Outs, NEW n \in Nets[l], NEW cidrs \in SUBSET Cidrs, UpdateCidrs(l, n, cidrs)
       PROVE  Kept
  <2>1. PICK where : where = {l} \cup (IF strategy = "nonat" THEN {} ELSE ClonesOf(l, Tables))
    OBVIOUS
  <2>2. /\ <<l, n>> \in DOMAIN nets /\ UNCHANGED <<l3outs, nets, refs, nat, vrfs, bds, clones>>
        /\ subs' = {s \in subs : ~(s[1] \in where /\ s[2] = n)}
                   \cup {<<x, n, c>> : x \in where, c \in cidrs}
    BY <1>15, <2>1 DEF UpdateCidrs
  <2>3. where = {l} \cup ClonesOf(l, Tables)
    BY <1>1, <2>1 DEF Good, ClonesOf
  <2>4. PICK d, D : d = Tables /\ D = Tables'
    OBVIOUS
  <2>5. /\ D.subs = {s \in d.subs : ~(s[1] \in where /\ s[2] = n)}
                    \cup {<<x, n, c>> : x \in where, c \in cidrs}
        /\ D.l3outs = d.l3outs /\ D.nets = d.nets /\ D.refs = d.refs /\ D.clones = d.clones
    BY <2>2, <2>4, TablesIsDb, TablesNext
  <2>6. IsDb(D) /\ <<l, n>> \in DOMAIN d.nets /\ where = {l} \cup ClonesOf(l, d) /\ Good(d, strategy)
    BY <1>1, <2>2, <2>3, <2>4, TablesIsDb, TablesNext
  <2>7. Good(D, strategy)
    BY <2>5, <2>6, UpdateCidrsGood
  <2> QED  BY <1>1, <2>2, <2>4, <2>7
<1>16. ASSUME NEW l \in L3Outs, NEW b, NEW add, ChangeBd(l, b, add) PROVE Kept
  BY <1>1, <1>3, <1>16, BridgesKept DEF ChangeBd
<1>17. ASSUME NEW v \in AllVrfs, ChangeVrf(v) PROVE Kept
  <2>1. \A l \in L3Outs : NatVrf(l) \in vrfs' <=> NatVrf(l) \in vrfs
    BY <1>17, Apart DEF ChangeVrf
  <2>2. Standing(l3outs', nat', vrfs')
    BY <1>1, <1>17, <2>1 DEF ChangeVrf, Standing
  <2> QED  BY <1>1, <1>3, <1>17, <2>2 DEF ChangeVrf
<1>18. CASE UNCHANGED vars
  BY <1>1, <1>3, <1>18 DEF vars, IInv
<1>19. CASE Next
  <2>1. Kept
    <3> HIDE DEF Kept
    <3>1. Operation
      BY <1>19 DEF Next
    <3> QED  BY <1>4, <1>5, <1>6, <1>7, <1>8, <1>9, <1>11, <1>12, <1>13, <1>14, <1>15, <1>16, <1>17, <3>1
             DEF Operation
  <2> QED  BY <1>19, <2>1 DEF Next, IInv
<1> QED  BY <1>18, <1>19

-----------------------------------------------------------------------------
(* The theorems.                                                           *)

\* The invariant, without the records.
LEMMA Parts ==
    ASSUME IInv
    PROVE  /\ DOMAIN clones = DOMAIN l3outs \ L3Outs
           /\ \A o \in DOMAIN l3outs : l3outs[o].monitored \in BOOLEAN
           /\ \A c \in DOMAIN clones :
                 /\ clones[c] \in L3Outs /\ clones[c] \in DOMAIN l3outs
                 /\ \E v \in AllVrfs : c = Clone(clones[c], v) /\ l3outs[c].vrf = Name(v)
                 /\ \E n \in AllNets : <<c, n>> \in DOMAIN nets
           /\ \A n \in DOMAIN nets : n[1] \in DOMAIN l3outs /\ nets[n] \in BOOLEAN
           /\ \A n \in DOMAIN nets : n[1] \in DOMAIN clones => <<clones[n[1]], n[2]>> \in DOMAIN nets
           /\ \A r \in refs : <<r[2], r[3]>> \in DOMAIN nets
           /\ \A s \in subs : s[2] \in AllNets /\ s[3] \in Cidrs
           /\ \A s \in subs : s[1] \in L3Outs => <<s[1], s[2]>> \in DOMAIN nets
           /\ \A n \in DOMAIN nets : n[1] \in DOMAIN clones =>
                 \A c \in Cidrs : <<n[1], n[2], c>> \in subs <=> <<clones[n[1]], n[2], c>> \in subs
<1>1. /\ Outs(Tables) /\ Networks(Tables) /\ Copies(Tables) /\ Contained(Tables) /\ Agree(Tables)
  BY DEF IInv, Good
<1>2. /\ DOMAIN clones = DOMAIN l3outs \ L3Outs
      /\ \A o \in DOMAIN l3outs : l3outs[o].monitored \in BOOLEAN
      /\ \A c \in DOMAIN clones :
            /\ clones[c] \in L3Outs /\ clones[c] \in DOMAIN l3outs
            /\ \E v \in AllVrfs : c = Clone(clones[c], v) /\ l3outs[c].vrf = Name(v)
  BY <1>1, TablesIsDb DEF Outs
<1>3. /\ \A c \in DOMAIN clones : \E n \in AllNets : <<c, n>> \in DOMAIN nets
      /\ \A n \in DOMAIN nets : n[1] \in DOMAIN clones => <<clones[n[1]], n[2]>> \in DOMAIN nets
  BY <1>1, TablesIsDb DEF Copies
<1>4. \A n \in DOMAIN nets : n[1] \in DOMAIN l3outs /\ nets[n] \in BOOLEAN
  BY <1>1, TablesIsDb DEF Networks
<1>5. /\ \A r \in refs : <<r[2], r[3]>> \in DOMAIN nets
      /\ \A s \in subs : s[2] \in AllNets /\ s[3] \in Cidrs
      /\ \A s \in subs : s[1] \in L3Outs => <<s[1], s[2]>> \in DOMAIN nets
  BY <1>1, TablesIsDb DEF Contained
<1>6. \A n \in DOMAIN nets : n[1] \in DOMAIN clones =>
          \A c \in Cidrs : <<n[1], n[2], c>> \in subs <=> <<clones[n[1]], n[2], c>> \in subs
  BY <1>1, TablesIsDb DEF Agree
<1> QED  BY <1>2, <1>3, <1>4, <1>5, <1>6

\* The tables of the NAT strategies have their types: in particular, networks and rows
\* of clones belong to an L3Out that exists.
THEOREM TypeCorrect == Spec => []TypeOK
<1>1. IInv => TypeOK
  <2> SUFFICES ASSUME IInv PROVE TypeOK
    OBVIOUS
  <2>1. \A b \in DOMAIN bds : bds[b] \subseteq {Name(l) : l \in L3Outs}
    BY DEF IInv, Bridges
  <2> QED  BY <2>1, Parts DEF TypeOK
<1> QED  BY Initially, Inductive, <1>1, PTL DEF Spec

\* Whatever was done with an L3Out, its networks, its clones and their VRFs, once
\* delete_l3outside has deleted it, nothing that the strategies created for it is left,
\* but for the application profile, which other L3Outs may share, and subnets of EPGs,
\* which are the caller's; and no contract or subnet is left of a network that is gone,
\* but for the subnets of shadows that lack the network.
THEOREM NothingIsLeft == Spec => []NothingLeft
<1>1. IInv => NothingLeft
  <2> SUFFICES ASSUME IInv PROVE NothingLeft
    OBVIOUS
  <2>1. Standing(l3outs, nat, vrfs)
    BY DEF IInv
  <2>2. \A l \in L3Outs \ DOMAIN l3outs :
            /\ nat \cap (NatObjects(l) \ {NatAp(l)}) = {}
            /\ \A gw \in Gateways[l] : <<"subnet", NatBd(l), gw>> \notin nat
            /\ NatVrf(l) \notin vrfs
    BY <2>1 DEF Standing
  <2>3. \A l \in L3Outs \ DOMAIN l3outs : \A n \in DOMAIN nets : n[1] # l
    BY Parts
  <2> QED  BY <2>2, <2>3, Parts DEF NothingLeft
<1> QED  BY Initially, Inductive, <1>1, PTL DEF Spec

\* An L3Out that create_l3outside has created has its filter, contract, bridge domain,
\* application profile, EPG and VRF, whatever is deleted of others that share the profile.
THEOREM CreatedIsComplete == Spec => []Complete
<1>1. IInv => Complete
  BY DEF IInv, Standing, Complete
<1> QED  BY Initially, Inductive, <1>1, PTL DEF Spec

\* A clone of an L3Out lasts exactly as long as a network is connected through it, its
\* networks are networks of its source, and read_vrfs names the VRF it was made for.
THEOREM ShadowsAreInUse == Spec => []ShadowsInUse
<1>1. IInv => ShadowsInUse
  <2> SUFFICES ASSUME IInv PROVE ShadowsInUse
    OBVIOUS
  <2>1. \A c \in DOMAIN clones :
            \E n \in AllNets : <<c, n>> \in DOMAIN nets /\ <<clones[c], n>> \in DOMAIN nets
    <3> SUFFICES ASSUME NEW c \in DOMAIN clones
                 PROVE  \E n \in AllNets : <<c, n>> \in DOMAIN nets /\ <<clones[c], n>> \in DOMAIN nets
      OBVIOUS
    <3>1. PICK n \in AllNets : <<c, n>> \in DOMAIN nets
      BY Parts
    <3>2. PICK k \in DOMAIN nets : k = <<c, n>>
      BY <3>1
    <3>3. k[1] = c /\ k[2] = n
      BY <3>2
    <3>4. <<clones[k[1]], k[2]>> \in DOMAIN nets
      BY <3>3, Parts
    <3> QED  BY <3>1, <3>3, <3>4
  <2>2. ASSUME NEW l \in L3Outs \cap DOMAIN l3outs, NEW v \in AllVrfs \cap vrfs, NEW n \in AllNets,
               <<Clone(l, v), n>> \in DOMAIN nets
        PROVE  v \in ReadVrfs(l)
    <3> DEFINE c == Clone(l, v)
    <3>1. PICK k \in DOMAIN nets : k = <<c, n>>
      BY <2>2
    <3>2. c \notin L3Outs /\ v = <<Tenant(v), Name(v)>> /\ Tenant(c) = Tenant(v)
      BY NamesAssumption DEF Clone, Tenant
    <3>3. \A m \in L3Outs, w \in AllVrfs : c = Clone(m, w) => m = l /\ w = v
      BY NamesAssumption
    <3> HIDE DEF c
    <3>4. k[1] = c
      BY <3>1
    <3>5. c \in DOMAIN clones
      BY <3>2, <3>4, Parts
    <3>6. PICK w \in AllVrfs : c = Clone(clones[c], w) /\ l3outs[c].vrf = Name(w)
      BY <3>5, Parts
    <3>7. clones[c] = l /\ l3outs[c].vrf = Name(v)
      BY <3>3, <3>5, <3>6, Parts
    <3> QED  BY <3>2, <3>5, <3>7, TablesIsDb DEF ReadVrfs, ClonesOf
  <2>3. \A l \in DOMAIN l3outs \ L3Outs : l \in DOMAIN clones
    BY Parts
  <2> QED  BY <2>1, <2>2, <2>3, Parts DEF ShadowsInUse
<1> QED  BY Initially, Inductive, <1>1, PTL DEF Spec

\* update_external_cidrs, connect_vrf and delete_external_network keep the subnets of a
\* network and of its copies in clones the same.
THEOREM ShadowsAreAgreed == Spec => []ShadowsAgree
<1>1. IInv => ShadowsAgree
  <2> SUFFICES ASSUME IInv PROVE ShadowsAgree
    OBVIOUS
  <2> QED  BY Parts DEF ShadowsAgree
<1> QED  BY Initially, Inductive, <1>1, PTL DEF Spec
=============================================================================
