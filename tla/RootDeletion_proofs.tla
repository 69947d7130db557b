------------------------ MODULE RootDeletion_proofs -------------------------
(* Proofs about RootDeletion, for any number of cycles to wait for, changes   *)
(* and faults.                                                               *)
EXTENDS RootDeletion, TLAPS

\* The trees may only lack objects that a log will add, and may only differ from
\* the objects while there are logs.  (NothingForgotten says nothing of a root
\* with trees and logs, which is what Cleanup meets.)
Covered ==
    /\ ~exists => tree = {}
    /\ "add" \notin log => db \subseteq tree
    /\ exists /\ log = {} => tree = db

\* Changes of the objects are covered by the logs that go with them.
LEMMA WritesAreLogged ==
    ASSUME Covered, NEW new, db' = new, log' = Logged(new),
           UNCHANGED <<tree, exists>>
    PROVE  Covered'
<1>1. "add" \notin log' => db' \subseteq tree'
  <2>1. "add" \notin log' => new \subseteq db /\ "add" \notin log
    BY DEF Logged
  <2> QED  BY <2>1 DEF Covered
<1>2. exists' /\ log' = {} => tree' = db'
  <2>1. log' = {} => new \subseteq db /\ db \subseteq new /\ log = {}
    BY DEF Logged
  <2> QED  BY <2>1 DEF Covered
<1> QED  BY <1>1, <1>2 DEF Covered

LEMMA ObserveCovers ==
    ASSUME Covered, NEW p \in Pairs, Observe(p)
    PROVE  Covered'
<1> DEFINE due  == log # {} /\ (served \/ ~exists)
           made == exists \/ (due /\ "add" \in log)
<1>1. /\ log' = IF due THEN {} ELSE log
      /\ tree' = IF due /\ made THEN db ELSE tree
      /\ exists' = made /\ db' = db
  BY DEF Observe
<1>2. CASE due /\ made
  BY <1>1, <1>2 DEF Covered
<1>3. CASE due /\ ~made
  <2>1. tree = {} /\ db \subseteq {}
    BY <1>3 DEF Covered
  <2> QED  BY <1>1, <1>3, <2>1 DEF Covered
<1>4. CASE ~due
  <2>1. log' = log /\ tree' = tree /\ db' = db /\ (exists' <=> exists)
    BY <1>1, <1>4
  <2> QED  BY <2>1 DEF Covered
<1> QED  BY <1>2, <1>3, <1>4

LEMMA CoveredStep ==
    ASSUME Covered, [Next]_vars
    PROVE  Covered'
<1>0. CASE UNCHANGED database
  BY <1>0 DEF Covered, database
<1>1. ASSUME NEW n \in Nodes, Configure(n)
      PROVE  Covered'
  <2>1. PICK new : db' = new /\ log' = Logged(new)
    BY <1>1 DEF Configure
  <2>2. UNCHANGED <<tree, exists>>
    BY <1>1 DEF Configure
  <2> QED  BY <2>1, <2>2, WritesAreLogged
<1>2. ASSUME NEW how \in [Pairs -> Outcomes], Reconcile(how)
      PROVE  Covered'
  <2>1. \E new : db' = new /\ log' = Logged(new)
    BY <1>2 DEF Reconcile
  <2>2. UNCHANGED <<tree, exists>>
    BY <1>2 DEF Reconcile
  <2> QED  BY <2>1, <2>2, WritesAreLogged
<1>3. ASSUME NEW p \in Pairs, Observe(p)
      PROVE  Covered'
  BY <1>3, ObserveCovers
<1>4. CASE Cleanup
  <2>1. /\ db' = db /\ log' = log /\ tree' = tree
        /\ exists' => exists
        /\ ~exists' => ~exists \/ tree = {}
    BY <1>4 DEF Cleanup
  <2> QED  BY <2>1 DEF Covered
<1>5. ASSUME NEW asked \in BOOLEAN, Serve(asked)
      PROVE  Covered'
  BY <1>5, <1>0 DEF Serve
<1>6. CASE Thread
  BY <1>6, <1>0 DEF Thread, Subscribe, Events, Push, Lose, Die
<1>7. ASSUME NEW n \in Nodes, ChangeApic(n)
      PROVE  Covered'
  BY <1>7, <1>0 DEF ChangeApic
<1>8. CASE UNCHANGED vars
  BY <1>8, <1>0 DEF vars, database
<1> QED
  BY <1>1, <1>2, <1>3, <1>4, <1>5, <1>6, <1>7, <1>8 DEF Next, Agent

\* cleanup_state "never removes a tenant if there are leftovers": a root that is
\* removed while its objects are changing comes back from its logs.
THEOREM NothingIsForgotten == Spec => []NothingForgotten
<1>1. Init => Covered
  BY DEF Init, Covered
<1>2. Covered => NothingForgotten
  BY DEF Covered, NothingForgotten
<1> QED  BY <1>1, <1>2, CoveredStep, PTL DEF Spec

-----------------------------------------------------------------------------
(* Types, and the length of the backlog.                                   *)

Requests == {"create", "delete"}
Distinct(s) == \A i, j \in DOMAIN s : s[i] = s[j] => i = j
Backlogs == {s \in Seq(Requests) : Len(s) <= 2 /\ Distinct(s)}

LEMMA EmptyBacklog == <<>> \in Backlogs
  BY DEF Backlogs, Distinct

LEMMA TailBacklog ==
    ASSUME NEW s \in Backlogs, s # <<>>
    PROVE  Tail(s) \in Backlogs
<1>1. s \in Seq(Requests) /\ Len(s) \in Nat /\ Len(s) <= 2 /\ Len(s) # 0
  BY DEF Backlogs
<1>2. Tail(s) \in Seq(Requests) /\ Len(Tail(s)) = Len(s) - 1
  BY <1>1
<1>3. \A i \in DOMAIN Tail(s) : i + 1 \in DOMAIN s /\ Tail(s)[i] = s[i + 1] /\ i \in Nat
  BY <1>1, <1>2
<1>4. Distinct(Tail(s))
  <2> SUFFICES ASSUME NEW i \in DOMAIN Tail(s), NEW j \in DOMAIN Tail(s), Tail(s)[i] = Tail(s)[j]
               PROVE  i = j
    BY DEF Distinct
  <2>1. i + 1 = j + 1
    BY <1>3 DEF Backlogs, Distinct
  <2> QED  BY <2>1, <1>3
<1> QED  BY <1>1, <1>2, <1>4 DEF Backlogs

\* push_aim_resources() keeps one request for an object: the backlog does not grow
\* however often the same request is made.
LEMMA QueuedBacklog ==
    ASSUME NEW op \in Requests, backlog \in Backlogs
    PROVE  Queued(op) \in Backlogs
<1>1. CASE \E i \in DOMAIN backlog : backlog[i] = op
  BY <1>1 DEF Queued
<1>2. CASE \A i \in DOMAIN backlog : backlog[i] # op
  <2> DEFINE s == Append(backlog, op)
  <2>1. backlog \in Seq(Requests) /\ Len(backlog) \in Nat /\ Len(backlog) <= 2
    BY DEF Backlogs
  <2>2. s \in Seq(Requests) /\ Len(s) = Len(backlog) + 1
    BY <2>1
  <2>3. Len(backlog) # 2
    <3> SUFFICES ASSUME Len(backlog) = 2 PROVE FALSE
      OBVIOUS
    <3>0. DOMAIN backlog = 1..2 /\ \A i \in DOMAIN backlog : backlog[i] \in Requests
      BY <2>1
    <3>1. backlog[1] \in Requests /\ backlog[2] \in Requests /\ 1 \in DOMAIN backlog /\ 2 \in DOMAIN backlog
      BY <3>0
    <3>2. backlog[1] # op /\ backlog[2] # op /\ backlog[1] # backlog[2]
      BY <3>1, <1>2 DEF Backlogs, Distinct
    <3> QED  BY <3>1, <3>2 DEF Requests
  <2>4. \A i \in DOMAIN s : IF i = Len(backlog) + 1 THEN s[i] = op
                            ELSE i \in DOMAIN backlog /\ s[i] = backlog[i]
    BY <2>1, <2>2
  <2>5. Distinct(s)
    <3> SUFFICES ASSUME NEW i \in DOMAIN s, NEW j \in DOMAIN s, s[i] = s[j]
                 PROVE  i = j
      BY DEF Distinct
    <3> HIDE DEF s
    <3>1. CASE i = Len(backlog) + 1
      BY <3>1, <1>2, <2>4
    <3>2. CASE j = Len(backlog) + 1
      BY <3>2, <1>2, <2>4
    <3>3. CASE i # Len(backlog) + 1 /\ j # Len(backlog) + 1
      BY <3>3, <2>4 DEF Backlogs, Distinct
    <3> QED  BY <3>1, <3>2, <3>3
  <2>6. Queued(op) = s
    BY <1>2 DEF Queued
  <2> HIDE DEF s
  <2>7. Len(s) <= 2
    <3>1. \A n \in Nat : n <= 2 /\ n # 2 => n + 1 <= 2
      OBVIOUS
    <3> QED  BY <2>1, <2>2, <2>3, <3>1
  <2>8. s \in Backlogs
    BY <2>2, <2>5, <2>7 DEF Backlogs
  <2> QED  BY <2>6, <2>8
<1> QED  BY <1>1, <1>2

\* The inductive invariant.  TypeOK says of the backlog that it is short; that follows
\* from its having each of the two requests at most once.
DbType == db \subseteq Nodes /\ log \subseteq {"add", "remove"} /\ tree \subseteq Nodes /\ exists \in BOOLEAN
StateType ==
    /\ aim \in [Pairs -> SUBSET (Nodes \cup Absent)]
    /\ aci \in [Pairs -> SUBSET (Nodes \cup Absent)]
    /\ \A p \in Pairs : /\ aim[p] = Absent \/ aim[p] \subseteq Kinds[p]
                        /\ aci[p] = Absent \/ aci[p] \subseteq Kinds[p]
CycleType ==
    /\ served \in BOOLEAN /\ candidate \in BOOLEAN
    /\ count \in [Pairs -> 0..(Wait + 1)]
    /\ phase \in Pairs \cup {"serve", "reconcile", "cleanup"}
FabricType ==
    /\ apic \subseteq Nodes /\ seen \subseteq Nodes
    /\ mgr \in {"none", "cold", "warm", "killed", "dead"}
    /\ backlog \in Backlogs
BoundType == changes \in 0..MaxChanges /\ faults \in 0..MaxFaults

IType == DbType /\ StateType /\ CycleType /\ FabricType /\ BoundType

LEMMA ITypeUsers ==
    ASSUME IType, NEW n \in Nodes, Configure(n) \/ ChangeApic(n)
    PROVE  IType'
<1>0. DbType /\ StateType /\ CycleType /\ FabricType /\ BoundType
  BY DEF IType
<1>1. BoundType'
  BY <1>0, BoundAssumption DEF BoundType, Configure, ChangeApic, Change
<1>2. CASE Configure(n)
  <2>1. DbType'
    BY <1>0, <1>2 DEF DbType, Configure, Logged, Pruned, Nodes
  <2>2. StateType' /\ CycleType' /\ FabricType'
    BY <1>0, <1>2 DEF StateType, CycleType, FabricType, Configure, cycle, fabric
  <2> QED  BY <1>1, <2>1, <2>2 DEF IType
<1>3. CASE ChangeApic(n)
  <2>1. apic' \subseteq Nodes
    BY <1>0, <1>3 DEF FabricType, ChangeApic, Pruned, Nodes
  <2>2. DbType' /\ StateType' /\ CycleType' /\ FabricType'
    BY <1>0, <1>3, <2>1 DEF DbType, StateType, CycleType, FabricType, ChangeApic, cycle, database
  <2> QED  BY <1>1, <2>2 DEF IType
<1> QED  BY <1>2, <1>3

LEMMA ITypeThread ==
    ASSUME IType, Thread
    PROVE  IType'
<1>0. DbType /\ StateType /\ CycleType /\ FabricType /\ BoundType
  BY DEF IType
<1>1. UNCHANGED <<database, cycle, changes>>
  BY DEF Thread, Subscribe, Events, Push, Lose, Die
<1>2. DbType' /\ StateType' /\ CycleType'
  BY <1>0, <1>1 DEF DbType, StateType, CycleType, database, cycle
<1>3. BoundType'
  BY <1>0, BoundAssumption DEF Thread, Subscribe, Events, Push, Lose, Die, Fault, BoundType
<1>4. FabricType'
  <2>1. CASE Subscribe \/ Events \/ Die
    BY <1>0, <2>1 DEF FabricType, Subscribe, Events, Die
  <2>2. CASE Lose
    BY <1>0, <2>2, EmptyBacklog DEF FabricType, Lose
  <2>3. ASSUME NEW ok \in BOOLEAN, Push(ok)
        PROVE  FabricType'
    <3>1. backlog' \in Backlogs
      BY <1>0, <2>3, TailBacklog DEF FabricType, Push
    <3>2. apic' \subseteq Nodes
      BY <1>0, <2>3 DEF FabricType, Push, Applied, Pruned, Nodes
    <3> QED  BY <1>0, <2>3, <3>1, <3>2 DEF FabricType, Push
  <2> QED  BY <2>1, <2>2, <2>3 DEF Thread
<1> QED  BY <1>2, <1>3, <1>4 DEF IType

LEMMA ITypeServe ==
    ASSUME IType, NEW asked \in BOOLEAN, Serve(asked)
    PROVE  IType'
<1>0. DbType /\ StateType /\ CycleType /\ FabricType /\ BoundType
  BY DEF IType
<1>1. DbType' /\ BoundType' /\ CycleType'
  BY <1>0 DEF DbType, BoundType, CycleType, Serve, database, Pairs
<1>2. FabricType'
  BY <1>0, EmptyBacklog DEF FabricType, Serve
<1>3. StateType'
  BY <1>0 DEF StateType, Serve, AllAbsent
<1> QED  BY <1>1, <1>2, <1>3 DEF IType

LEMMA ITypeObserve ==
    ASSUME IType, NEW p \in Pairs, Observe(p)
    PROVE  IType'
<1>0. DbType /\ StateType /\ CycleType /\ FabricType /\ BoundType
  BY DEF IType
<1>1. FabricType' /\ BoundType'
  BY <1>0 DEF FabricType, BoundType, Observe, fabric
<1>2. DbType'
  BY <1>0 DEF DbType, Observe
<1>3. CycleType'
  BY <1>0 DEF CycleType, Observe, Pairs
<1>4. StateType'
  <2>1. PICK a \in SUBSET (Nodes \cup Absent) :
            (a = Absent \/ a \subseteq Kinds[p]) /\ aim' = [aim EXCEPT ![p] = a]
    <3> DEFINE due  == log # {} /\ (served \/ ~exists)
               made == exists \/ (due /\ "add" \in log)
               now  == IF due /\ made THEN db ELSE tree
               a    == IF served /\ made THEN now \cap Kinds[p] ELSE aim[p]
    <3>1. aim' = [aim EXCEPT ![p] = a]
      BY DEF Observe
    <3>2. now \subseteq Nodes
      BY <1>0 DEF DbType
    <3>3. a \in SUBSET (Nodes \cup Absent) /\ (a = Absent \/ a \subseteq Kinds[p])
      BY <1>0, <3>2 DEF StateType
    <3> QED  BY <3>1, <3>3
  <2>2. PICK b \in SUBSET (Nodes \cup Absent) :
            (b = Absent \/ b \subseteq Kinds[p]) /\ aci' = [aci EXCEPT ![p] = b]
    BY <1>0 DEF Observe, FabricType
  <2> QED  BY <1>0, <2>1, <2>2 DEF StateType
<1> QED  BY <1>1, <1>2, <1>3, <1>4 DEF IType

\* push_resources() of AIM gets trees of the pair's own kinds, because roots that a
\* universe does not have are not compared.
LEMMA MirroredType ==
    ASSUME NEW s \in SUBSET Nodes, NEW p \in Pairs, NEW w \in SUBSET Nodes
    PROVE  Mirrored(s, p, w) \subseteq Nodes
BY DEF Mirrored, Pruned

LEMMA ITypeReconcile ==
    ASSUME IType, NEW how \in [Pairs -> Outcomes], Reconcile(how)
    PROVE  IType'
<1>0. DbType /\ StateType /\ CycleType /\ FabricType /\ BoundType
  BY DEF IType
<1> DEFINE cand    == [config |-> Voted,
                       oper   |-> Passes("config", Voted, how["config"]),
                       mon    |-> Passes("oper", Passes("config", Voted, how["config"]),
                                         how["oper"])]
           differs(p) == Compared(p) /\ Desired(p, cand[p]) # Current(p)
           pushes(p)  == differs(p) /\ how[p] = "push"
           after(s, p) == IF pushes(p) THEN Mirrored(s, p, Desired(p, cand[p])) ELSE s
           new        == after(after(db, "oper"), "mon")
<1>1. BoundType'
  BY <1>0, BoundAssumption DEF BoundType, Reconcile, Fault
<1>2. \A p \in Pairs : Kinds[p] \subseteq Nodes
  BY DEF Kinds, Pairs, Nodes
<1>3. \A p \in Pairs : Compared(p) => \A c : Desired(p, c) \subseteq Nodes
  BY <1>0, <1>2 DEF StateType, Compared, Desired
<1>4. \A p \in Pairs, s \in SUBSET Nodes : after(s, p) \in SUBSET Nodes
  BY <1>3, MirroredType
<1>5. new \subseteq Nodes
  <2>1. "oper" \in Pairs /\ "mon" \in Pairs /\ db \in SUBSET Nodes
    BY <1>0 DEF Pairs, DbType
  <2> HIDE DEF after
  <2>2. after(db, "oper") \in SUBSET Nodes
    BY <2>1, <1>4
  <2> QED  BY <2>1, <2>2, <1>4
<1>6. db' = new /\ log' = Logged(new) /\ UNCHANGED <<tree, exists>>
  BY DEF Reconcile
<1>7. DbType'
  <2> HIDE DEF new
  <2> QED  BY <1>0, <1>5, <1>6 DEF DbType, Logged
<1>8. StateType'
  BY <1>0 DEF StateType, Reconcile
<1>9. CycleType'
  <2>1. \A p \in Pairs : \A c : DeletingCount(p, c) \in 0..(Wait + 1)
    BY <1>0, BoundAssumption DEF CycleType, DeletingCount
  <2>2. count' \in [Pairs -> 0..(Wait + 1)]
    <3>1. count' = [p \in Pairs |-> DeletingCount(p, cand[p])]
      BY DEF Reconcile
    <3> HIDE DEF cand
    <3> QED  BY <3>1, <2>1
  <2>3. candidate' \in BOOLEAN
    BY DEF Reconcile, Passes
  <2> QED  BY <1>0, <2>2, <2>3 DEF CycleType, Reconcile
<1>10. FabricType'
  <2>1. backlog' \in Backlogs
    <3>1. backlog' = <<>> \/ backlog' = backlog \/ backlog' = Queued("create") \/ backlog' = Queued("delete")
      BY DEF Reconcile
    <3> QED  BY <1>0, <3>1, EmptyBacklog, QueuedBacklog DEF FabricType, Requests
  <2>2. /\ apic' = apic /\ (seen' = seen \/ seen' = {})
        /\ mgr' = mgr \/ mgr' = "killed"
    BY DEF Reconcile
  <2> QED  BY <1>0, <2>1, <2>2 DEF FabricType
<1> QED  BY <1>1, <1>7, <1>8, <1>9, <1>10 DEF IType

LEMMA ITypeCleanup ==
    ASSUME IType, Cleanup
    PROVE  IType'
<1>0. DbType /\ StateType /\ CycleType /\ FabricType /\ BoundType
  BY DEF IType
<1>1. DbType' /\ FabricType' /\ BoundType'
  BY <1>0 DEF DbType, FabricType, BoundType, Cleanup, fabric
<1>3. CycleType'
  <2>1. count' \in [Pairs -> 0..(Wait + 1)]
    BY <1>0, BoundAssumption DEF CycleType, Cleanup, NoCount
  <2> QED  BY <1>0, <2>1 DEF CycleType, Cleanup
<1>2. StateType'
  BY <1>0 DEF StateType, Cleanup, AllAbsent
<1> QED  BY <1>1, <1>2, <1>3 DEF IType

\* The values of all the variables stay within their types; in particular the
\* backlog of a tenant never holds more than one creation and one deletion of an
\* object, however often the differences are pushed before the thread gets to them.
THEOREM TypeCorrect == Spec => []TypeOK
<1>1. Init => IType
  <2> SUFFICES ASSUME Init PROVE DbType /\ StateType /\ CycleType /\ FabricType /\ BoundType
    BY DEF IType
  <2>1. BoundType
    BY BoundAssumption DEF Init, BoundType
  <2>5. DbType
    BY DEF Init, DbType, Nodes
  <2>4. CycleType
    <3>1. count \in [Pairs -> 0..(Wait + 1)]
      BY BoundAssumption DEF Init, NoCount
    <3> QED  BY <3>1 DEF Init, CycleType
  <2>2. StateType
    BY DEF Init, StateType, AllAbsent
  <2>3. FabricType
    BY EmptyBacklog DEF Init, FabricType, Nodes
  <2> QED  BY <2>1, <2>2, <2>3, <2>4, <2>5
<1>2. IType /\ [Next]_vars => IType'
  <2> SUFFICES ASSUME IType, [Next]_vars PROVE IType'
    OBVIOUS
  <2>1. CASE UNCHANGED vars
    <3>1. DbType /\ StateType /\ CycleType /\ FabricType /\ BoundType
      BY DEF IType
    <3>2. (DbType /\ StateType /\ CycleType /\ FabricType /\ BoundType)'
      BY <2>1, <3>1 DEF vars, DbType, StateType, CycleType, FabricType, BoundType
    <3> QED  BY <3>2 DEF IType
  <2> QED
    BY <2>1, ITypeUsers, ITypeThread, ITypeServe, ITypeObserve, ITypeReconcile, ITypeCleanup
    DEF Next, Agent
<1>3. IType => TypeOK
  BY DEF IType, DbType, StateType, CycleType, FabricType, BoundType, Backlogs, Requests, TypeOK
<1> QED  BY <1>1, <1>2, <1>3, PTL DEF Spec
=============================================================================
