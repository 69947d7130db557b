-------------------------- MODULE AciTenant_proofs --------------------------
(* Proofs about the tenants of the ACI universe: about TenantPush, for any     *)
(* objects, values, limits and bounds, and about Converter, for any batch of   *)
(* resources and any order of their objects.                                   *)
EXTENDS TenantPush, Converter, SequenceTheorems, TLAPS

-----------------------------------------------------------------------------
(* Requests.                                                               *)

\* A creation is a function from objects to values.
LEMMA CreationsAre ==
    \A f : f \in Creations <=> DOMAIN f \in SUBSET Objs /\ f \in [DOMAIN f -> Vals]
<1> SUFFICES ASSUME NEW f
             PROVE  f \in Creations <=> DOMAIN f \in SUBSET Objs /\ f \in [DOMAIN f -> Vals]
  OBVIOUS
<1>1. ASSUME f \in Creations
      PROVE  DOMAIN f \in SUBSET Objs /\ f \in [DOMAIN f -> Vals]
  <2>1. PICK s \in SUBSET Objs : f \in [s -> Vals]
    BY <1>1 DEF Creations
  <2> QED  BY <2>1
<1>2. ASSUME DOMAIN f \in SUBSET Objs, f \in [DOMAIN f -> Vals]
      PROVE  f \in Creations
  BY <1>2 DEF Creations
<1> QED  BY <1>1, <1>2

\* A request, by its parts.
LEMMA RequestParts ==
    ASSUME NEW r \in Request
    PROVE  /\ r.create \in [DOMAIN r.create -> Vals]
           /\ DOMAIN r.create \subseteq Objs /\ r.delete \subseteq Objs
BY CreationsAre DEF Request

LEMMA NoRequestIsOne == NoRequest \in Request
BY CreationsAre DEF NoRequest, Request

\* What is left of a request is one.
LEMMA RestIsRequest ==
    ASSUME NEW r \in Request, NEW o, NEW S \in SUBSET Objs
    PROVE  /\ [r EXCEPT !.create = Without(@, o)] \in Request
           /\ [r EXCEPT !.delete = S] \in Request
<1>1. Without(r.create, o) \in Creations
  BY RequestParts, CreationsAre DEF Without
<1> QED  BY <1>1 DEF Request

\* The pairs of requests in a queue have no object in common.
Apart(q) ==
    \A i, j \in DOMAIN q : i # j =>
        /\ DOMAIN q[i].create \cap DOMAIN q[j].create = {}
        /\ q[i].delete \cap q[j].delete = {}

Queue == Seq(Request \ {NoRequest})

LEMMA TailIsQueue ==
    ASSUME NEW q \in Queue, q # <<>>, Apart(q)
    PROVE  Head(q) \in Request \ {NoRequest} /\ Tail(q) \in Queue /\ Apart(Tail(q))
<1>1. Head(q) \in Request \ {NoRequest} /\ Tail(q) \in Queue
  BY DEF Queue
<1>2. /\ DOMAIN Tail(q) = 1..(Len(q) - 1) /\ DOMAIN q = 1..Len(q)
      /\ \A i \in 1..(Len(q) - 1) : Tail(q)[i] = q[i + 1]
  BY DEF Queue
<1> QED  BY <1>1, <1>2 DEF Apart, Queue

\* Replacing what a queue has of a request keeps its domains.
LEMMA ReplacedIsQueue ==
    ASSUME backlog \in Queue, NEW new \in Request
    PROVE  LET p == Replaced(new)
           IN  /\ p \in Queue /\ DOMAIN p = DOMAIN backlog
               /\ \A i \in DOMAIN backlog : /\ DOMAIN p[i].create = DOMAIN backlog[i].create
                                           /\ p[i].delete = backlog[i].delete
<1> DEFINE p == Replaced(new)
           q == backlog
<1>1. Len(q) \in Nat /\ DOMAIN q = 1..Len(q)
  BY DEF Queue
<1>2. ASSUME NEW i \in DOMAIN q
      PROVE  /\ p[i] \in Request \ {NoRequest}
             /\ DOMAIN p[i].create = DOMAIN q[i].create /\ p[i].delete = q[i].delete
  <2> DEFINE f == q[i].create
             g == [o \in DOMAIN f |-> IF o \in DOMAIN new.create THEN new.create[o] ELSE f[o]]
  <2>1. q[i] \in Request \ {NoRequest}
    BY DEF Queue
  <2>2. f \in [DOMAIN f -> Vals] /\ DOMAIN f \subseteq Objs
    BY <2>1, RequestParts
  <2>3. new.create \in [DOMAIN new.create -> Vals]
    BY RequestParts
  <2>4. g \in [DOMAIN f -> Vals] /\ DOMAIN g = DOMAIN f
    BY <2>2, <2>3
  <2>5. g \in Creations
    BY <2>2, <2>4, CreationsAre
  <2>6. p[i] = [q[i] EXCEPT !.create = g]
    BY Zenon DEF Replaced
  <2> HIDE DEF f, g, p, q
  <2>7. p[i] \in Request /\ p[i].create = g /\ p[i].delete = q[i].delete
    BY <2>1, <2>5, <2>6 DEF Request
  <2>8. p[i] # NoRequest
    <3>1. (q[i].create = f /\ DOMAIN f # {}) \/ q[i].delete # {}
      <4>1. ASSUME DOMAIN f = {}, q[i].delete = {}
            PROVE  q[i] = NoRequest
        <5>1. f = [o \in {} |-> Absent]
          BY <2>2, <4>1
        <5> QED  BY <2>1, <4>1, <5>1 DEF f, NoRequest, Request
      <4> QED  BY <2>1, <4>1 DEF f
    <3>2. NoRequest.delete = {} /\ DOMAIN NoRequest.create = {}
      BY DEF NoRequest
    <3> QED  BY <2>4, <2>7, <3>1, <3>2
  <2> QED  BY <2>4, <2>7, <2>8 DEF f
<1>3. DOMAIN p = 1..Len(q) /\ p = [i \in DOMAIN p |-> p[i]]
  BY <1>1 DEF Replaced
<1> HIDE DEF p, q
<1>4. p \in Queue
  <2>1. p \in [1..Len(q) -> Request \ {NoRequest}]
    BY <1>1, <1>2, <1>3
  <2> QED  BY <1>1, <2>1, SeqDef DEF Queue
<1> QED  BY <1>1, <1>2, <1>3, <1>4 DEF p, q

\* What is pushed on the backlog has no object in common with what is in it.
LEMMA QueuedIsQueue ==
    ASSUME backlog \in Queue, Apart(backlog), NEW new \in Request
    PROVE  Queued(new) \in Queue /\ Apart(Queued(new))
<1> DEFINE replaced == Replaced(new)
           creating == UNION {DOMAIN backlog[i].create : i \in DOMAIN backlog}
           deleting == UNION {backlog[i].delete : i \in DOMAIN backlog}
           rest     == [create |-> [o \in DOMAIN new.create \ creating |-> new.create[o]],
                        delete |-> new.delete \ deleting]
<1>1. Queued(new) = IF rest = NoRequest THEN replaced ELSE Append(replaced, rest)
  BY Zenon DEF Queued
<1>2. /\ replaced \in Queue /\ DOMAIN replaced = DOMAIN backlog
      /\ \A i \in DOMAIN backlog : /\ DOMAIN replaced[i].create = DOMAIN backlog[i].create
                                  /\ replaced[i].delete = backlog[i].delete
  BY ReplacedIsQueue
<1>3. Apart(replaced)
  BY <1>2 DEF Apart
<1>4. rest \in Request
  <2>1. new.create \in [DOMAIN new.create -> Vals] /\ DOMAIN new.create \subseteq Objs /\ new.delete \subseteq Objs
    BY RequestParts
  <2>2. rest.create \in Creations
    BY <2>1, CreationsAre
  <2>3. rest.delete \in SUBSET Objs
    BY <2>1
  <2> HIDE DEF creating, deleting
  <2> QED  BY <2>2, <2>3 DEF Request
<1>5. \A i \in DOMAIN replaced : /\ DOMAIN replaced[i].create \cap DOMAIN rest.create = {}
                               /\ replaced[i].delete \cap rest.delete = {}
  BY <1>2
<1> HIDE DEF replaced, rest
<1>6. ASSUME rest # NoRequest
      PROVE  Append(replaced, rest) \in Queue /\ Apart(Append(replaced, rest))
  <2> DEFINE q == Append(replaced, rest)
  <2>1. q \in Queue
    BY <1>2, <1>4, <1>6 DEF Queue
  <2>2. /\ DOMAIN q = DOMAIN replaced \cup {Len(replaced) + 1}
        /\ \A i \in DOMAIN replaced : q[i] = replaced[i]
        /\ q[Len(replaced) + 1] = rest
    BY <1>2, <1>4 DEF Queue
  <2> HIDE DEF q
  <2>3. Apart(q)
    BY <1>3, <1>5, <2>2 DEF Apart
  <2> QED  BY <2>1, <2>3 DEF q
<1> QED  BY <1>1, <1>2, <1>3, <1>6

-----------------------------------------------------------------------------
(* The counters of failed operations.                                      *)

\* _track_universe_actions: a counter that is kept has not run out, through every
\* reset and error.
LEMMA TrackedIsEntry ==
    ASSUME TypeOK, NEW o \in Objs
    PROVE  Tracked(o) \in Entry /\ Tracked(o).left >= 0
<1>l. /\ ResetLimit \in Nat /\ PurgeLimit \in Nat /\ ResetLimit < PurgeLimit
      /\ Again \in Nat /\ Again > 1
  BY PushAssumption
<1>1. Current(o) \in Entry /\ Current(o).left >= 0
  <2>1. aim[o] \in Wanted
    BY DEF TypeOK
  <2>2. CASE Repeated(o)
    BY <2>2 DEF Current, Repeated, TypeOK
  <2>3. CASE ~Repeated(o)
    <3> DEFINE e == [val |-> aim[o], action |-> "reset", left |-> ResetLimit + 1]
    <3>1. e \in Entry /\ e.left >= 0
      BY <1>l, <2>1 DEF Entry
    <3>2. Current(o) = e
      BY <2>3 DEF Current
    <3> QED  BY <3>1, <3>2
  <2> QED  BY <2>2, <2>3
<1>2. Counted(o) \in Entry /\ Counted(o).left >= -1
  BY <1>1 DEF Counted, Entry
<1>3. CASE ~Exceeds(o)
  <2>1. Counted(o).left >= 0
    BY <1>2, <1>3 DEF Exceeds, Entry
  <2> QED  BY <1>2, <1>3, <2>1 DEF Tracked
<1>4. CASE Exceeds(o) /\ Counted(o).action = "reset"
  <2> DEFINE n == PurgeLimit - (ResetLimit + 1)
             e == [Counted(o) EXCEPT !.action = "purge", !.left = n]
  <2>n. n \in Int /\ n >= 0
    BY <1>l
  <2> HIDE DEF n
  <2>1. e \in Entry /\ e.left >= 0
    <3>1. e.left = n
      BY <1>2 DEF Entry
    <3>2. e \in Entry
      BY <1>2, <2>n, Zenon DEF Entry
    <3> QED  BY <2>n, <3>1, <3>2
  <2>2. Tracked(o) = e
    BY <1>4 DEF Tracked, n
  <2> QED  BY <2>1, <2>2
<1>5. CASE Exceeds(o) /\ Counted(o).action # "reset"
  <2> DEFINE e == [Counted(o) EXCEPT !.left = @ + Again]
  <2>1. e \in Entry /\ e.left >= 0
    BY <1>l, <1>2 DEF Entry
  <2>2. Tracked(o) = e
    BY <1>5 DEF Tracked
  <2> QED  BY <2>1, <2>2
<1> QED  BY <1>3, <1>4, <1>5

-----------------------------------------------------------------------------
(* The invariant.                                                          *)

IInv == TypeOK /\ BacklogBounded

LEMMA IInvParts ==
    IInv => TypeOK /\ backlog \in Queue /\ Apart(backlog) /\ doing \in Request
BY DEF IInv, TypeOK, BacklogBounded, Apart, Queue

\* Only the parts of the state that a step changes have to be looked at.
LEMMA Bounds ==
    ASSUME TypeOK, (Change /\ UNCHANGED faults) \/ (Fault /\ UNCHANGED changes)
                   \/ UNCHANGED <<changes, faults>>
    PROVE  changes' \in 0..MaxChanges /\ faults' \in 0..MaxFaults
BY PushAssumption DEF TypeOK, Change, Fault

\* The thread goes on.
LEMMA ProceedStep ==
    ASSUME IInv, NEW rest \in Request, Proceed(rest)
    PROVE  doing' \in Request /\ backlog' \in Queue /\ Apart(backlog')
<1>1. backlog \in Queue /\ Apart(backlog)
  BY IInvParts
<1>2. CASE rest # NoRequest \/ backlog = <<>>
  BY <1>1, <1>2, NoRequestIsOne DEF Proceed
<1>3. CASE rest = NoRequest /\ backlog # <<>>
  BY <1>1, <1>3, TailIsQueue DEF Proceed
<1> QED  BY <1>2, <1>3

LEMMA UserStep ==
    ASSUME IInv, NEW o \in Objs, NEW v \in Wanted, Configure(o, v) \/ ChangeApic(o, v)
    PROVE  IInv'
<1>1. /\ changes' \in 0..MaxChanges /\ faults' \in 0..MaxFaults
  BY Bounds DEF IInv, Configure, ChangeApic
<1>2. /\ aim' \in [Objs -> Wanted] /\ apic' \in [Objs -> Wanted]
      /\ failed' \subseteq {x \in Objs : aim'[x] # Absent}
  BY DEF IInv, TypeOK, Configure, ChangeApic
<1>3. UNCHANGED <<seen, mgr, backlog, doing, track>>
  BY DEF Configure, ChangeApic
<1> QED  BY <1>1, <1>2, <1>3 DEF IInv, TypeOK, BacklogBounded

\* Steps of the thread that push nothing.
LEMMA ThreadStep ==
    ASSUME IInv, Subscribe \/ BeginPush \/ Lose \/ Die
                 \/ \E objects \in SUBSET Objs : Events(objects)
    PROVE  IInv'
<1>1. changes' \in 0..MaxChanges /\ faults' \in 0..MaxFaults
  BY Bounds DEF IInv, Subscribe, BeginPush, Lose, Die, Events
<1>2. UNCHANGED <<aim, failed, apic, track>>
  BY DEF Subscribe, BeginPush, Lose, Die, Events
<1>3. seen' \in [Objs -> Wanted] /\ mgr' \in {"cold", "warm", "killed", "dead"}
  BY DEF IInv, TypeOK, Subscribe, BeginPush, Lose, Die, Events
<1>4. doing' \in Request /\ backlog' \in Queue /\ Apart(backlog')
  <2>1. CASE BeginPush
    BY <2>1, IInvParts, TailIsQueue DEF BeginPush
  <2>2. CASE Lose
    BY <2>2, IInvParts DEF Lose, Queue, Apart
  <2>3. CASE UNCHANGED <<backlog, doing>>
    BY <2>3, IInvParts
  <2> QED  BY <2>1, <2>2, <2>3 DEF Subscribe, Die, Events
<1> QED  BY <1>1, <1>2, <1>3, <1>4 DEF IInv, TypeOK, BacklogBounded, Queue, Apart

LEMMA PushStep ==
    ASSUME IInv, Push
    PROVE  IInv'
<1>1. PICK o \in Objs, how \in Outcomes : PushCreate(o, how) \/ PushDelete(o, how)
  BY DEF Push
<1>2. changes' \in 0..MaxChanges /\ faults' \in 0..MaxFaults
  BY <1>1, Bounds DEF IInv, PushCreate, PushDelete
<1>3. UNCHANGED <<aim, seen, mgr, track>>
  BY <1>1 DEF PushCreate, PushDelete
<1>d. doing \in Request
  BY IInvParts
<1>4. CASE PushCreate(o, how)
  <2>1. doing.create[o] \in Wanted
    BY <1>4, <1>d, RequestParts DEF PushCreate, Wanted
  <2>2. apic' \in [Objs -> Wanted] /\ failed' \subseteq {x \in Objs : aim'[x] # Absent}
    BY <1>3, <1>4, <2>1 DEF IInv, TypeOK, PushCreate
  <2>3. Proceed([doing EXCEPT !.create = Without(@, o)])
    BY <1>4 DEF PushCreate
  <2>4. doing' \in Request /\ backlog' \in Queue /\ Apart(backlog')
    BY <1>d, <2>3, RestIsRequest, ProceedStep
  <2> QED  BY <1>2, <1>3, <2>2, <2>4 DEF IInv, TypeOK, BacklogBounded, Queue, Apart
<1>5. CASE PushDelete(o, how)
  <2>1. apic' \in [Objs -> Wanted] /\ UNCHANGED failed
    BY <1>5 DEF IInv, TypeOK, PushDelete, Wanted
  <2> DEFINE S == {p \in doing.delete \ {o} : <<o, p>> \notin Covers}
  <2>2. S \in SUBSET Objs
    BY <1>d, RequestParts
  <2>3. Proceed([doing EXCEPT !.delete = S])
    BY <1>5, Zenon DEF PushDelete
  <2> HIDE DEF S
  <2>4. doing' \in Request /\ backlog' \in Queue /\ Apart(backlog')
    BY <1>d, <2>2, <2>3, RestIsRequest, ProceedStep
  <2> QED  BY <1>2, <1>3, <2>1, <2>4 DEF IInv, TypeOK, BacklogBounded, Queue, Apart
<1> QED  BY <1>1, <1>4, <1>5

\* A cycle queues what it has not found in the backlog, unless the thread is
\* pushing; it fails only objects that AIM has.
LEMMA CycleStep ==
    ASSUME IInv, NEW soon \in SUBSET Objs, Cycle(soon)
    PROVE  IInv'
<1> DEFINE differ == ToCreate \cup ToDelete
           tried  == differ \ soon
           over   == {o \in tried : Exceeds(o)}
           reset  == \E o \in over : Counted(o).action = "reset"
           pushed == tried \ over
           new    == [create |-> [o \in pushed \cap ToCreate |-> aim[o]],
                      delete |-> pushed \cap ToDelete]
<1>1. /\ track' = [o \in Objs |-> IF o \notin differ THEN NoEntry
                                  ELSE IF o \in soon THEN track[o] ELSE Tracked(o)]
      /\ IF reset
         THEN mgr' = "killed" /\ backlog' = <<>> /\ UNCHANGED failed
         ELSE /\ failed' = failed \cup (over \ ToDelete)
              /\ backlog' = IF Locked THEN backlog ELSE Queued(new)
              /\ UNCHANGED mgr
      /\ UNCHANGED <<aim, apic, seen, doing, changes, faults>>
  BY Zenon DEF Cycle
<1>2. over \subseteq Objs
  BY DEF ToCreate, ToDelete
<1>3. new \in Request
  <2>1. \A o \in ToCreate : o \in Objs /\ aim[o] \in Vals
    BY DEF ToCreate, IInv, TypeOK, Wanted
  <2>2. new.create \in Creations
    BY <2>1, CreationsAre
  <2>3. new.delete \in SUBSET Objs
    BY DEF ToDelete
  <2> HIDE DEF pushed
  <2> QED  BY <2>2, <2>3 DEF Request
<1>4. backlog' \in Queue /\ Apart(backlog')
  <2>1. backlog \in Queue /\ Apart(backlog)
    BY IInvParts
  <2>2. <<>> \in Queue /\ Apart(<<>>)
    BY DEF Queue, Apart
  <2> HIDE DEF reset, over, new
  <2> QED  BY <1>1, <1>3, <2>1, <2>2, QueuedIsQueue
<1>5. failed' \subseteq {o \in Objs : aim'[o] # Absent}
  <2>1. \A o \in over \ ToDelete : aim[o] # Absent
    BY DEF ToCreate
  <2> HIDE DEF reset, over, new
  <2> QED  BY <1>1, <1>2, <2>1 DEF IInv, TypeOK
<1>6. mgr' \in {"cold", "warm", "killed", "dead"}
  <2> HIDE DEF reset, over, new
  <2> QED  BY <1>1 DEF IInv, TypeOK
<1>7. /\ track' \in [Objs -> Entry \cup {NoEntry}]
      /\ \A o \in Objs : track'[o] # NoEntry => track'[o].left >= 0
  <2> HIDE DEF differ, reset, over, new
  <2>1. TypeOK /\ track \in [Objs -> Entry \cup {NoEntry}]
    BY DEF IInv, TypeOK
  <2> QED  BY <1>1, <2>1, TrackedIsEntry DEF TypeOK
<1> HIDE DEF differ, reset, over, new
<1> QED  BY <1>1, <1>4, <1>5, <1>6, <1>7 DEF IInv, TypeOK, BacklogBounded, Queue, Apart

LEMMA DaemonStep ==
    ASSUME IInv, Serve \/ Recover \/ Crash
    PROVE  IInv'
<1>1. changes' \in 0..MaxChanges /\ faults' \in 0..MaxFaults
  BY Bounds DEF IInv, Serve, Recover, Crash
<1>2. UNCHANGED <<aim, apic, seen>> /\ failed' \in {failed, {}}
      /\ mgr' \in {mgr, "cold"}
  BY DEF Serve, Recover, Crash
<1>3. doing' \in Request /\ backlog' \in {backlog, <<>>}
  BY IInvParts, NoRequestIsOne DEF Serve, Recover, Crash
<1>4. track' \in {track, [o \in Objs |-> NoEntry]}
  BY DEF Serve, Recover, Crash
<1>5. backlog' \in Queue /\ Apart(backlog')
  <2>1. <<>> \in Queue /\ Apart(<<>>)
    BY DEF Queue, Apart
  <2> QED  BY <1>3, <2>1, IInvParts
<1> QED  BY <1>1, <1>2, <1>3, <1>4, <1>5 DEF IInv, TypeOK, BacklogBounded, Queue, Apart

LEMMA Inductive ==
    ASSUME IInv, [Next]_vars
    PROVE  IInv'
<1>1. CASE UNCHANGED vars
  BY <1>1 DEF vars, IInv, TypeOK, BacklogBounded
<1>2. CASE Thread
  BY <1>2, ThreadStep, PushStep DEF Thread
<1>3. CASE Daemon
  BY <1>3, DaemonStep, CycleStep DEF Daemon
<1>4. CASE \E o \in Objs, v \in Wanted : Configure(o, v) \/ ChangeApic(o, v)
  BY <1>4, UserStep
<1> QED  BY <1>1, <1>2, <1>3, <1>4 DEF Next

LEMMA Initially == Init => IInv
<1> SUFFICES ASSUME Init
             PROVE  IInv
  OBVIOUS
<1>1. aim \in [Objs -> Wanted] /\ apic \in [Objs -> Wanted] /\ seen \in [Objs -> Wanted]
  BY DEF Init, Nothing, Wanted
<1>2. backlog = <<>> /\ backlog \in Seq(Request \ {NoRequest})
  BY DEF Init
<1>3. changes \in 0..MaxChanges /\ faults \in 0..MaxFaults
  BY PushAssumption DEF Init
<1> QED  BY <1>1, <1>2, <1>3, NoRequestIsOne DEF Init, IInv, TypeOK, BacklogBounded

\* The trees, the backlog and the counters have their types; no counter of
\* _sync_log that is kept has run out.
THEOREM TypeCorrect == Spec => []TypeOK
<1>1. IInv => TypeOK
  BY DEF IInv
<1> QED  BY Initially, Inductive, <1>1, PTL DEF Spec

\* push_aim_resources, however often a cycle repeats what the thread has not pushed
\* yet: the requests in object_backlog have no object in common.
THEOREM BacklogStaysBounded == Spec => []BacklogBounded
<1>1. IInv => BacklogBounded
  BY DEF IInv
<1> QED  BY Initially, Inductive, <1>1, PTL DEF Spec

-----------------------------------------------------------------------------
(* The objects of a resource.                                              *)

\* An object of a list carries one entry, of any of the attributes of its rule.
OneEntry(r, val, p) ==
    \E e \in UNION {val[b] : b \in r.attrs} : p = [a \in r.attrs |-> {e}]

\* What an object of a rule carries: the whole attributes, or one entry of the lists.
LEMMA PayloadIs ==
    ASSUME NEW r \in Rules, NEW val, NEW p \in Payloads(r, val)
    PROVE  /\ DOMAIN p \subseteq r.attrs
           /\ r.kind \notin ListKinds => \A a \in DOMAIN p : p[a] = val[a]
           /\ r.kind \in ListKinds => OneEntry(r, val, p)
<1>k. r.kind \in ListKinds \cup {"object", "reference", "container", "terminal"}
  BY RulesAssumption
<1>1. CASE r.kind = "object"
  <2>1. p = Whole(r, val)
    BY <1>1 DEF Payloads, ObjectPayload
  <2> QED BY <1>1, <2>1 DEF Whole, ListKinds
<1>2. ASSUME p \in EachPayload(r, val), r.kind \in ListKinds
      PROVE  OneEntry(r, val, p) /\ DOMAIN p \subseteq r.attrs
  BY <1>2 DEF EachPayload, OneEntry
<1>3. CASE r.kind = "each"
  BY <1>2, <1>3 DEF Payloads, ListKinds
<1>4. CASE r.kind = "items"
  BY <1>2, <1>4 DEF Payloads, ItemPayload, ListKinds
<1>5. CASE r.kind = "domains"
  BY <1>2, <1>5 DEF Payloads, DomainPayload, ListKinds
<1>6. CASE r.kind = "reference"
  <2>1. p = Whole(r, val) \/ p = Empty
    BY <1>6 DEF Payloads, ReferencePayload
  <2> QED BY <1>6, <2>1 DEF Whole, Empty, ListKinds
<1>7. CASE r.kind = "container"
  <2>1. p = Empty
    BY <1>7 DEF Payloads, ContainerPayload
  <2> QED BY <1>7, <2>1 DEF Empty, ListKinds
<1>8. CASE r.kind = "terminal"
  <2>1. p = Empty
    BY <1>8 DEF Payloads
  <2> QED BY <1>8, <2>1 DEF Empty, ListKinds
<1> QED BY <1>k, <1>1, <1>3, <1>4, <1>5, <1>6, <1>7, <1>8 DEF ListKinds

\* Filling in the tenant of a cluster keeps class and names.
LEMMA FilledSame ==
    ASSUME NEW res, DOMAIN res.val = AttrsOf(res.klass),
           res = [klass |-> res.klass, owner |-> res.owner, name |-> res.name,
                  flag |-> res.flag, val |-> res.val]
    PROVE  DOMAIN Filled(res).val = AttrsOf(res.klass)
BY DEF Filled, Given

\* The resources that are converted, with unambiguous keys.
SourcesOK(b) ==
    /\ \A res \in Sources(b) :
          /\ res = [klass |-> res.klass, owner |-> res.owner, name |-> res.name,
                    flag |-> res.flag, val |-> res.val]
          /\ DOMAIN res.val = AttrsOf(res.klass)
          /\ res.klass \in SystemClasses <=> res.owner = "SystemSecurityGroup"
    /\ \A x, y \in Sources(b) :
          \/ x = y
          \/ /\ Key(x) # Key(y)
             /\ x.klass = y.klass => \A r \in RulesOf(x.klass) : r.kind # "items"

\* An object that carries p of the resource res.
IsObjectOf(o, r, res) ==
    /\ r \in Rules /\ Applies(r, res)
    /\ \E p \in Payloads(r, Filled(res).val) :
          o = [mo |-> r.mo, owner |-> res.owner, name |-> res.name, val |-> p]

\* Every object that is sent is one of a rule and of a resource.
LEMMA ObjectsHaveRules ==
    ASSUME NEW b, NEW o
    PROVE  o \in AimToAci(b) <=> \E res \in Sources(b) : \E r \in Rules : IsObjectOf(o, r, res)
BY DEF AimToAci, ObjectsOf, IsObjectOf

\* The schema of its DN tells the rule of an object, and its names the resource.
LEMMA RuleIsFound ==
    ASSUME NEW b, SourcesOK(b), NEW res \in Sources(b), NEW o, NEW r, IsObjectOf(o, r, res)
    PROVE  /\ RuleFor(o) = r /\ r.klass = res.klass
           /\ <<RuleFor(o).klass, o.owner, o.name>> = Key(res)
           /\ o.val \in Payloads(r, Filled(res).val)
<1> DEFINE rules == {q \in Rules : q.mo = o.mo}
           Fits(q) == \/ \A x \in rules : x = q
                      \/ q.klass \in SystemClasses <=> o.owner = "SystemSecurityGroup"
<1>1. PICK p \in Payloads(r, Filled(res).val) :
          o = [mo |-> r.mo, owner |-> res.owner, name |-> res.name, val |-> p]
  BY DEF IsObjectOf
<1>2. o.mo = r.mo /\ o.owner = res.owner /\ o.name = res.name /\ o.val = p
  BY <1>1
<1>3. r \in rules /\ r.klass = res.klass
  BY <1>2 DEF IsObjectOf, Applies
<1>4. Fits(r)
  BY <1>2, <1>3 DEF SourcesOK
<1>5. ASSUME NEW q \in rules, Fits(q) PROVE q = r
  <2>1. CASE \A x \in rules : x = q
    BY <1>3, <2>1
  <2>2. CASE q.klass \in SystemClasses <=> o.owner = "SystemSecurityGroup"
    <3>1. (q.klass \in SystemClasses) = (r.klass \in SystemClasses)
      BY <1>2, <1>3, <2>2 DEF SourcesOK
    <3>2. q \in Rules /\ r \in Rules /\ q.mo = r.mo
      BY <1>2, <1>3
    <3> QED BY <3>1, <3>2, RulesAssumption
  <2> QED BY <1>5, <2>1, <2>2
<1>6. RuleFor(o) = CHOOSE q \in rules : Fits(q)
  BY DEF RuleFor
<1> HIDE DEF rules, Fits
<1>7. RuleFor(o) = r
  BY <1>3, <1>4, <1>5, <1>6
<1> QED BY <1>1, <1>2, <1>3, <1>7 DEF Key

-----------------------------------------------------------------------------
(* What is read of an object.                                              *)

\* What the APIC can tell of an attribute.
Sent(res, a) == IF a \in Unsent[res.klass] THEN {} ELSE Normal(res)[a]

\* What is read of an object was in its resource.
LEMMA ReadIsSent ==
    ASSUME NEW b, SourcesOK(b), NEW res \in Sources(b), NEW o, NEW r, IsObjectOf(o, r, res)
    PROVE  /\ DOMAIN Read(o) \subseteq r.attrs
           /\ DOMAIN Read(o) \subseteq AttrsOf(res.klass)
           /\ \A a \in DOMAIN Read(o) : Read(o)[a] \subseteq Sent(res, a)
<1> DEFINE v == Filled(res).val
<1>1. r \in Rules /\ r.klass = res.klass /\ o.val \in Payloads(r, v)
  BY RuleIsFound DEF IsObjectOf
<1>2. DOMAIN v = AttrsOf(res.klass)
  BY FilledSame DEF SourcesOK
<1>3. r.attrs \subseteq AttrsOf(res.klass)
  <2>1. r \in RulesOf(res.klass)
    BY <1>1 DEF RulesOf
  <2>2. r.attrs \cup r.skip \in {q.attrs \cup q.skip : q \in RulesOf(res.klass)}
    BY <2>1
  <2> QED BY <2>2 DEF AttrsOf
<1>4. r.attrs \cap Unsent[res.klass] = {}
  BY <1>1, RulesAssumption
<1>5. DOMAIN Read(o) = DOMAIN o.val
  BY DEF Read
<1> HIDE DEF v
<1>6. DOMAIN o.val \subseteq r.attrs
  BY <1>1, PayloadIs
<1>7. ASSUME NEW a \in DOMAIN o.val PROVE Read(o)[a] \subseteq Normal(res)[a]
  <2>1. a \in DOMAIN v /\ a \in r.attrs
    BY <1>2, <1>3, <1>6
  <2>2. CASE r.kind \notin ListKinds
    <3>1. a \notin VmmLists \cup PhysicalLists
      BY <1>1, <2>1, <2>2, RulesAssumption DEF ListKinds
    <3>2. o.val[a] = v[a]
      BY <1>1, <2>2, PayloadIs
    <3>3. Read(o)[a] = v[a] /\ Normal(res)[a] = v[a]
      BY <2>1, <3>1, <3>2 DEF Read, Normal, v, VmmLists, PhysicalLists
    <3> QED BY <3>3
  <2>3. CASE r.kind \in {"each", "items"}
    <3>1. PICK e \in UNION {v[c] : c \in r.attrs} : o.val = [c \in r.attrs |-> {e}]
      <4>1. r.kind \in ListKinds
        BY <2>3 DEF ListKinds
      <4>2. OneEntry(r, v, o.val)
        BY <1>1, <4>1, PayloadIs
      <4> QED BY <4>2 DEF OneEntry
    <3>2. r.attrs = {a}
      BY <1>1, <2>1, <2>3, RulesAssumption
    <3>3. e \in v[a] /\ o.val[a] = {e}
      BY <3>1, <3>2
    <3>4. a \notin VmmLists \cup PhysicalLists
      BY <1>1, <2>1, <2>3, RulesAssumption
    <3>5. Read(o)[a] = {e} /\ Normal(res)[a] = v[a]
      BY <2>1, <3>3, <3>4 DEF Read, Normal, v, VmmLists, PhysicalLists
    <3> QED BY <3>3, <3>5
  <2>4. CASE r.kind = "domains"
    <3>1. PICK e \in UNION {v[c] : c \in r.attrs} : o.val = [c \in r.attrs |-> {e}]
      <4>1. r.kind \in ListKinds
        BY <2>4 DEF ListKinds
      <4>2. OneEntry(r, v, o.val)
        BY <1>1, <4>1, PayloadIs
      <4> QED BY <4>2 DEF OneEntry
    <3>2. o.val[a] = {e}
      BY <2>1, <3>1
    <3>3. CASE r.attrs = VmmLists
      <4>1. e \in v["vmm_domains"] \cup v["openstack_vmm_domain_names"]
        BY <3>1, <3>3 DEF VmmLists
      <4>2. CASE a = "vmm_domains"
        BY <2>1, <3>2, <4>1, <4>2 DEF Read, Normal, v
      <4>3. CASE a = "openstack_vmm_domain_names"
        BY <2>1, <3>2, <4>1, <4>3 DEF Read, Normal, v
      <4> QED BY <2>1, <3>3, <4>2, <4>3 DEF VmmLists
    <3>4. CASE r.attrs = PhysicalLists
      <4>1. e \in v["physical_domains"] \cup v["physical_domain_names"]
        BY <3>1, <3>4 DEF PhysicalLists
      <4>2. a \in {"physical_domains", "physical_domain_names"}
        BY <2>1, <3>4 DEF PhysicalLists
      <4> QED BY <2>1, <3>2, <4>1, <4>2 DEF Read, Normal, v
    <3> QED BY <1>1, <2>4, <3>3, <3>4, RulesAssumption
  <2> QED BY <2>2, <2>3, <2>4 DEF ListKinds
<1> QED BY <1>3, <1>4, <1>5, <1>6, <1>7 DEF Sent

\* A list grows, another attribute is replaced.
LEMMA MergeIs ==
    ASSUME NEW r, NEW val, NEW read
    PROVE  /\ DOMAIN Merge(r, val, read) = DOMAIN val
           /\ \A a \in DOMAIN val :
                 \/ a \notin DOMAIN read /\ Merge(r, val, read)[a] = val[a]
                 \/ /\ a \in DOMAIN read /\ r.kind \in ListKinds
                    /\ Merge(r, val, read)[a] = val[a] \cup read[a]
                 \/ /\ a \in DOMAIN read /\ r.kind \notin ListKinds
                    /\ Merge(r, val, read)[a] = read[a]
<1>1. ASSUME NEW a \in DOMAIN val, a \notin DOMAIN read
      PROVE  Merge(r, val, read)[a] = val[a]
  BY <1>1 DEF Merge
<1>2. ASSUME NEW a \in DOMAIN val, a \in DOMAIN read, r.kind \in ListKinds
      PROVE  Merge(r, val, read)[a] = val[a] \cup read[a]
  BY <1>2 DEF Merge
<1>3. ASSUME NEW a \in DOMAIN val, a \in DOMAIN read, r.kind \notin ListKinds
      PROVE  Merge(r, val, read)[a] = read[a]
  BY <1>3 DEF Merge
<1>4. DOMAIN Merge(r, val, read) = DOMAIN val
  BY DEF Merge
<1> QED BY <1>1, <1>2, <1>3, <1>4

\* Merging what was sent into what was sent.
LEMMA MergeSent ==
    ASSUME NEW r, NEW res, NEW val, NEW read, DOMAIN val = AttrsOf(res.klass),
           \A a \in DOMAIN val : val[a] \subseteq Sent(res, a),
           \A a \in DOMAIN read : read[a] \subseteq Sent(res, a)
    PROVE  /\ DOMAIN Merge(r, val, read) = AttrsOf(res.klass)
           /\ \A a \in AttrsOf(res.klass) :
                 Merge(r, val, read)[a] \subseteq Sent(res, a)
<1>1. DOMAIN Merge(r, val, read) = AttrsOf(res.klass)
  BY MergeIs
<1>2. ASSUME NEW a \in AttrsOf(res.klass) PROVE Merge(r, val, read)[a] \subseteq Sent(res, a)
  <2>1. \/ a \notin DOMAIN read /\ Merge(r, val, read)[a] = val[a]
        \/ /\ a \in DOMAIN read /\ r.kind \in ListKinds
           /\ Merge(r, val, read)[a] = val[a] \cup read[a]
        \/ /\ a \in DOMAIN read /\ r.kind \notin ListKinds
           /\ Merge(r, val, read)[a] = read[a]
    BY MergeIs
  <2> QED BY <2>1
<1> QED BY <1>1, <1>2

\* What is read of resources whose keys are told apart.
ReadOK ==
    \A key \in DOMAIN got : \E res \in Sources(batch) :
        /\ Key(res) = key /\ res.klass \in Converted
        /\ DOMAIN got[key] = AttrsOf(res.klass)
        /\ \A a \in DOMAIN got[key] : got[key][a] \subseteq Sent(res, a)

\* An entry that is found again is one of the only resource of its class.
ItemsOK ==
    \A i \in DOMAIN items :
        /\ items[i] \in DOMAIN got
        /\ \E res \in Sources(batch) :
              /\ items[i] = Key(res) /\ i[1] = res.klass
              /\ \E q \in RulesOf(res.klass) : q.kind = "items"

\* What objects that are no longer in the list carried has been read.
DoneOK ==
    \A o \in AimToAci(batch) \ wire :
        LET key == <<RuleFor(o).klass, o.owner, o.name>>
        IN  /\ key \in DOMAIN got
            /\ \A a \in DOMAIN Read(o) : Read(o)[a] \subseteq got[key][a]

ConversionInv ==
    /\ SourcesOK(batch)
    /\ wire \subseteq AimToAci(batch)
    /\ ReadOK /\ ItemsOK /\ DoneOK

\* _squash puts what is read of an object into the resource it is of.
LEMMA SquashIs ==
    ASSUME ConversionInv, NEW o, NEW r, NEW res \in Sources(batch), IsObjectOf(o, r, res),
           Convert(o)
    PROVE  LET was == IF Key(res) \in DOMAIN got THEN got[Key(res)] ELSE Default(res.klass)
           IN  /\ DOMAIN got' = DOMAIN got \cup {Key(res)}
               /\ \A k \in DOMAIN got \ {Key(res)} : got'[k] = got[k]
               /\ got'[Key(res)] = Merge(r, was, Read(o))
               /\ items' = [i \in DOMAIN items \cup ItemsOf(r, Read(o)) |->
                               IF i \in DOMAIN items THEN items[i] ELSE Key(res)]
<1> DEFINE key == Key(res)
           read == Read(o)
           base == IF key \in DOMAIN got THEN got
                   ELSE [k \in DOMAIN got \cup {key} |->
                            IF k = key THEN Default(r.klass) ELSE got[k]]
           known == ItemsOf(r, read) \cap DOMAIN items
           target == IF known = {} THEN key ELSE items[CHOOSE i \in known : TRUE]
<1>1. SourcesOK(batch)
  BY DEF ConversionInv
<1>2. RuleFor(o) = r /\ r.klass = res.klass /\ <<RuleFor(o).klass, o.owner, o.name>> = key
  BY <1>1, RuleIsFound
<1>3. Squash(r, key, read)
  BY <1>2 DEF Convert
<1>4. ASSUME NEW i \in known PROVE items[i] = key
  <2>1. i \in ItemsOf(r, read) /\ i \in DOMAIN items
    OBVIOUS
  <2>2. r.kind = "items" /\ i[1] = r.klass
    BY <2>1 DEF ItemsOf
  <2>3. PICK x \in Sources(batch) : items[i] = Key(x) /\ i[1] = x.klass
    BY <2>1 DEF ConversionInv, ItemsOK
  <2>4. x.klass = res.klass /\ r \in RulesOf(res.klass)
    BY <1>2, <2>2, <2>3 DEF RulesOf, IsObjectOf
  <2>5. x = res
    BY <1>1, <2>2, <2>4 DEF SourcesOK
  <2> QED BY <2>3, <2>5
<1>5. target = key
  <2> HIDE DEF known, key
  <2> QED BY <1>4
<1>6. /\ got' = [base EXCEPT ![target] = Merge(r, @, read)]
      /\ items' = [i \in DOMAIN items \cup ItemsOf(r, read) |->
                      IF i \in DOMAIN items THEN items[i] ELSE key]
  BY <1>3 DEF Squash
<1> HIDE DEF target, known, read
<1>7. got' = [base EXCEPT ![key] = Merge(r, base[key], read)]
  BY <1>5, <1>6
<1>8. DOMAIN base = DOMAIN got \cup {key} /\ \A k \in DOMAIN got \ {key} : base[k] = got[k]
  <2> HIDE DEF key
  <2> QED OBVIOUS
<1>9. base[key] = IF key \in DOMAIN got THEN got[key] ELSE Default(res.klass)
  <2> HIDE DEF key
  <2> QED BY <1>2
<1> HIDE DEF base
<1>10. /\ DOMAIN got' = DOMAIN got \cup {key}
       /\ \A k \in DOMAIN got \ {key} : got'[k] = got[k]
       /\ got'[key] = Merge(r, base[key], read)
  <2> HIDE DEF key
  <2> QED BY <1>7, <1>8
<1> QED BY <1>6, <1>9, <1>10 DEF read

-----------------------------------------------------------------------------
(* Reading one object keeps the invariant.                                 *)

\* A resource with all its defaults has nothing that was not sent.
LEMMA DefaultSent ==
    ASSUME NEW res
    PROVE  /\ DOMAIN Default(res.klass) = AttrsOf(res.klass)
           /\ \A a \in AttrsOf(res.klass) : Default(res.klass)[a] \subseteq Sent(res, a)
BY DEF Default

\* Two resources with one key are one.
LEMMA OneSource ==
    ASSUME NEW b, SourcesOK(b), NEW x \in Sources(b), NEW y \in Sources(b), Key(x) = Key(y)
    PROVE  x = y
BY DEF SourcesOK

\* Each object that is read keeps the invariant.
LEMMA ConvertStep ==
    ASSUME ConversionInv, NEW o \in wire, Convert(o)
    PROVE  ConversionInv'
<1>1. SourcesOK(batch) /\ wire \subseteq AimToAci(batch) /\ ReadOK /\ ItemsOK /\ DoneOK
  BY DEF ConversionInv
<1>2. batch' = batch /\ wire' = wire \ {o}
  BY DEF Convert
<1>3. PICK res \in Sources(batch) : \E r \in Rules : IsObjectOf(o, r, res)
  BY <1>1, ObjectsHaveRules
<1>4. PICK r \in Rules : IsObjectOf(o, r, res)
  BY <1>3
<1>5. /\ RuleFor(o) = r /\ r.klass = res.klass
      /\ <<RuleFor(o).klass, o.owner, o.name>> = Key(res)
      /\ o.val \in Payloads(r, Filled(res).val)
  BY <1>1, <1>4, RuleIsFound
<1> DEFINE key == Key(res)
           was == IF key \in DOMAIN got THEN got[key] ELSE Default(res.klass)
<1>6. /\ DOMAIN got' = DOMAIN got \cup {key}
      /\ \A k \in DOMAIN got \ {key} : got'[k] = got[k]
      /\ got'[key] = Merge(r, was, Read(o))
      /\ items' = [i \in DOMAIN items \cup ItemsOf(r, Read(o)) |->
                      IF i \in DOMAIN items THEN items[i] ELSE key]
  BY <1>4, SquashIs
<1>7. /\ DOMAIN was = AttrsOf(res.klass)
      /\ \A a \in AttrsOf(res.klass) : was[a] \subseteq Sent(res, a)
  <2>1. CASE key \in DOMAIN got
    <3>1. PICK x \in Sources(batch) :
             /\ Key(x) = key /\ DOMAIN got[key] = AttrsOf(x.klass)
             /\ \A a \in DOMAIN got[key] : got[key][a] \subseteq Sent(x, a)
      BY <1>1, <2>1 DEF ReadOK
    <3>2. x = res
      BY <1>1, <3>1, OneSource
    <3> QED BY <2>1, <3>1, <3>2
  <2>2. CASE key \notin DOMAIN got
    BY <2>2, DefaultSent
  <2> QED BY <2>1, <2>2
<1>r. /\ DOMAIN Read(o) \subseteq r.attrs
      /\ DOMAIN Read(o) \subseteq AttrsOf(res.klass)
      /\ \A a \in DOMAIN Read(o) : Read(o)[a] \subseteq Sent(res, a)
  BY <1>1, <1>4, ReadIsSent
<1> HIDE DEF was
<1>8. /\ DOMAIN got'[key] = AttrsOf(res.klass)
      /\ \A a \in AttrsOf(res.klass) : got'[key][a] \subseteq Sent(res, a)
  <2>1. DOMAIN Merge(r, was, Read(o)) = AttrsOf(res.klass)
    BY <1>7, <1>r, MergeSent
  <2>2. \A a \in AttrsOf(res.klass) : Merge(r, was, Read(o))[a] \subseteq Sent(res, a)
    BY <1>7, <1>r, MergeSent
  <2> QED BY <1>6, <2>1, <2>2
<1>9. ReadOK'
  <2> SUFFICES ASSUME NEW k \in DOMAIN got'
               PROVE  \E x \in Sources(batch) :
                         /\ Key(x) = k /\ x.klass \in Converted
                         /\ DOMAIN got'[k] = AttrsOf(x.klass)
                         /\ \A a \in DOMAIN got'[k] : got'[k][a] \subseteq Sent(x, a)
    BY <1>2 DEF ReadOK, Sent, Normal, Filled, Sources, Generated
  <2>1. CASE k = key
    <3>1. res.klass \in Converted
      BY <1>5 DEF Converted
    <3> QED BY <1>8, <2>1, <3>1
  <2>2. CASE k # key
    BY <1>1, <1>6, <2>2 DEF ReadOK
  <2> QED BY <2>1, <2>2
<1>10. ItemsOK'
  <2> SUFFICES ASSUME NEW i \in DOMAIN items'
               PROVE  /\ items'[i] \in DOMAIN got'
                      /\ \E x \in Sources(batch) :
                            /\ items'[i] = Key(x) /\ i[1] = x.klass
                            /\ \E q \in RulesOf(x.klass) : q.kind = "items"
    BY <1>2 DEF ItemsOK
  <2>1. CASE i \in DOMAIN items
    <3>1. items'[i] = items[i]
      BY <1>6, <2>1
    <3> QED BY <1>1, <1>6, <2>1, <3>1 DEF ItemsOK
  <2>2. CASE i \notin DOMAIN items
    <3>1. i \in ItemsOf(r, Read(o)) /\ items'[i] = key
      BY <1>6, <2>2
    <3>2. r.kind = "items" /\ i[1] = r.klass
      BY <3>1 DEF ItemsOf
    <3>3. r \in RulesOf(res.klass)
      BY <1>5 DEF RulesOf
    <3> QED BY <1>5, <1>6, <3>1, <3>2, <3>3
  <2> QED BY <2>1, <2>2
<1>11. DoneOK'
  <2> SUFFICES ASSUME NEW p \in AimToAci(batch), p \notin wire \/ p = o
               PROVE  LET k == <<RuleFor(p).klass, p.owner, p.name>>
                      IN  /\ k \in DOMAIN got'
                          /\ \A a \in DOMAIN Read(p) : Read(p)[a] \subseteq got'[k][a]
    BY <1>2 DEF DoneOK
  <2>1. PICK x \in Sources(batch) : \E q \in Rules : IsObjectOf(p, q, x)
    BY ObjectsHaveRules
  <2>2. PICK q \in Rules : IsObjectOf(p, q, x)
    BY <2>1
  <2>3. /\ q.klass = x.klass /\ p.val \in Payloads(q, Filled(x).val)
        /\ <<RuleFor(p).klass, p.owner, p.name>> = Key(x)
    BY <1>1, <2>2, RuleIsFound
  <2> SUFFICES /\ Key(x) \in DOMAIN got'
               /\ \A a \in DOMAIN Read(p) : Read(p)[a] \subseteq got'[Key(x)][a]
    BY <2>3
  <2>4. /\ DOMAIN Read(p) \subseteq q.attrs /\ DOMAIN Read(p) \subseteq AttrsOf(x.klass)
    BY <1>1, <2>2, ReadIsSent
  <2>5. CASE Key(x) # key
    <3>1. p # o
      BY <1>5, <2>3, <2>5
    <3>2. /\ Key(x) \in DOMAIN got
          /\ \A a \in DOMAIN Read(p) : Read(p)[a] \subseteq got[Key(x)][a]
      BY <1>1, <2>3, <3>1 DEF DoneOK
    <3> QED BY <1>6, <2>5, <3>2
  <2>6. CASE Key(x) = key
    <3>1. x = res
      BY <1>1, <2>6, OneSource
    <3>2. ASSUME NEW a \in DOMAIN Read(p) PROVE Read(p)[a] \subseteq got'[key][a]
      <4>1. a \in AttrsOf(res.klass) /\ a \in q.attrs
        BY <2>4, <3>1
      <4>2. CASE p = o
        <5>1. \/ got'[key][a] = was[a] \cup Read(o)[a]
              \/ got'[key][a] = Read(o)[a]
          BY <1>6, <1>7, <3>2, <4>1, <4>2, MergeIs
        <5> QED BY <4>2, <5>1
      <4>3. CASE p # o
        <5>1. key \in DOMAIN got /\ Read(p)[a] \subseteq was[a]
          BY <1>1, <2>3, <2>6, <4>3 DEF DoneOK, was
        <5>2. CASE a \notin DOMAIN Read(o) \/ r.kind \in ListKinds
          <6>1. got'[key][a] = was[a] \/ got'[key][a] = was[a] \cup Read(o)[a]
            BY <1>6, <1>7, <4>1, <5>2, MergeIs
          <6> QED BY <5>1, <6>1
        <5>3. CASE a \in DOMAIN Read(o) /\ r.kind \notin ListKinds
          <6>1. got'[key][a] = Read(o)[a]
            BY <1>6, <1>7, <4>1, <5>3, MergeIs
          <6>2. a \in r.attrs
            BY <1>r, <5>3
          <6>3. q.kind \notin ListKinds
            BY <1>5, <2>3, <3>1, <4>1, <5>3, <6>2, RulesAssumption
          <6>4. DOMAIN Read(o) = DOMAIN o.val /\ DOMAIN Read(p) = DOMAIN p.val
            BY DEF Read
          <6>5. o.val[a] = Filled(res).val[a]
            BY <1>5, <5>3, <6>4, PayloadIs
          <6>6. p.val[a] = Filled(res).val[a]
            BY <2>3, <3>1, <3>2, <6>3, <6>4, PayloadIs
          <6>7. Read(o)[a] = Read(p)[a]
            BY <3>2, <5>3, <6>4, <6>5, <6>6 DEF Read
          <6> QED BY <6>1, <6>7
        <5> QED BY <5>2, <5>3
      <4> QED BY <4>2, <4>3
    <3> QED BY <1>6, <2>6, <3>2
  <2> QED BY <2>5, <2>6
<1>12. SourcesOK(batch)' /\ wire' \subseteq AimToAci(batch)'
  BY <1>1, <1>2
<1> QED BY <1>9, <1>10, <1>11, <1>12 DEF ConversionInv

-----------------------------------------------------------------------------
(* Resources, given and generated.                                         *)

\* A resource as the model has it.
IsResource(res) ==
    /\ res = [klass |-> res.klass, owner |-> res.owner, name |-> res.name,
              flag |-> res.flag, val |-> res.val]
    /\ DOMAIN res.val = AttrsOf(res.klass)

\* Attributes that are given replace the defaults, the others stay empty.
LEMMA GivenIs ==
    ASSUME NEW k, NEW owner, NEW name, NEW flag, NEW given,
           NEW res, res = Given(Resource(k, owner, name, flag), given)
    PROVE  /\ IsResource(res)
           /\ res.klass = k /\ res.owner = owner /\ res.name = name /\ res.flag = flag
           /\ \A a \in AttrsOf(k) :
                 res.val[a] = IF a \in DOMAIN given THEN given[a] ELSE {}
<1> DEFINE base == Resource(k, owner, name, flag)
           v == [a \in AttrsOf(k) |-> IF a \in DOMAIN given THEN given[a] ELSE {}]
<1>1. /\ base = [klass |-> k, owner |-> owner, name |-> name, flag |-> flag,
                 val |-> [a \in AttrsOf(k) |-> {}]]
  BY DEF Resource, Default
<1>2. res = [base EXCEPT !.val = v]
  <2>1. base.val = [a \in AttrsOf(k) |-> {}]
    BY <1>1
  <2>2. v = [a \in DOMAIN base.val |-> IF a \in DOMAIN given THEN given[a] ELSE base.val[a]]
    <3> HIDE DEF base
    <3> QED BY <2>1
  <2> HIDE DEF v
  <2> QED BY <2>2 DEF Given
<1> HIDE DEF base, v
<1>3. res = [klass |-> k, owner |-> owner, name |-> name, flag |-> flag, val |-> v]
  BY <1>1, <1>2
<1>4. DOMAIN v = AttrsOf(k)
  BY DEF v
<1>5. /\ res.klass = k /\ res.owner = owner /\ res.name = name /\ res.flag = flag
      /\ res.val = v
  BY <1>3
<1> QED BY <1>3, <1>4, <1>5 DEF IsResource, v

\* A resource with its defaults.
LEMMA ResourceIs ==
    ASSUME NEW k, NEW owner, NEW name, NEW flag, NEW res, res = Resource(k, owner, name, flag)
    PROVE  /\ IsResource(res)
           /\ res.klass = k /\ res.owner = owner /\ res.name = name /\ res.flag = flag
<1>1. res = [klass |-> k, owner |-> owner, name |-> name, flag |-> flag,
             val |-> [a \in AttrsOf(k) |-> {}]]
  BY DEF Resource, Default
<1> QED BY <1>1 DEF IsResource

\* The nodes of the chain of a service graph.
NodesOK(nodes) ==
    /\ Len(nodes) \in 0..3
    /\ \A i, j \in 1..Len(nodes) : nodes[i] = nodes[j] => i = j

\* Positions have different names.
LEMMA PositionsApart ==
    ASSUME NEW i \in 1..4, NEW j \in 1..4, Positions[i] = Positions[j]
    PROVE  i = j
BY DEF Positions

\* What a conversion generates belongs to its resource and has names of its own.
LEMMA GeneratedIs ==
    ASSUME NEW res, res.klass = "ServiceGraph" => NodesOK(Named(res))
    PROVE  /\ \A g \in Generated(res) :
                 /\ IsResource(g)
                 /\ g.klass \in GeneratedClasses
                 /\ g.owner = res.owner /\ g.flag = "managed"
           /\ \A g, h \in Generated(res) : Key(g) = Key(h) => g = h
           /\ Generated(res) # {} =>
                 res.klass \in {"DeviceCluster", "DeviceClusterContext", "ServiceGraph"}
<1>1. CASE res.flag = "pre"
  BY <1>1 DEF Generated
<1>2. CASE res.flag # "pre" /\ res.klass = "DeviceCluster"
  <2>1. Generated(res) = DeviceResources(res)
    BY <1>2 DEF Generated
  <2> DEFINE named == {e \in res.val["devices"] : e[1] # ""}
             devices == {e[1] : e \in named}
             PathOf(d) == {<<e[2], "">> : e \in {x \in named : x[1] = d /\ x[2] # ""}}
             given == [rest |-> res.val["encap"],
                       concrete_interfaces |-> {<<d, "">> : d \in devices}]
             If == Given(Resource("DeviceClusterInterface", res.owner, "interface", "managed"),
                         given)
             Dev(d) == Resource("ConcreteDevice", res.owner, d, "managed")
             DevIf(d) == Given(Resource("ConcreteDeviceInterface", res.owner, d, "managed"),
                               [path |-> PathOf(d)])
  <2>2. ASSUME NEW g \in DeviceResources(res)
        PROVE  \/ g = If
               \/ \E d : g = Dev(d)
               \/ \E d : g = DevIf(d)
    BY DEF DeviceResources
  <2> HIDE DEF given, named, devices, PathOf
  <2>3. /\ IsResource(If) /\ If.klass = "DeviceClusterInterface"
        /\ If.owner = res.owner /\ If.flag = "managed"
    BY GivenIs
  <2>4. ASSUME NEW d
        PROVE  /\ IsResource(Dev(d)) /\ Dev(d).klass = "ConcreteDevice"
               /\ Dev(d).owner = res.owner /\ Dev(d).flag = "managed" /\ Dev(d).name = d
    BY ResourceIs
  <2>5. ASSUME NEW d
        PROVE  /\ IsResource(DevIf(d)) /\ DevIf(d).klass = "ConcreteDeviceInterface"
               /\ DevIf(d).owner = res.owner /\ DevIf(d).flag = "managed" /\ DevIf(d).name = d
    BY GivenIs
  <2> HIDE DEF If, Dev, DevIf
  <2>6. \A g \in Generated(res) :
           /\ IsResource(g) /\ g.klass \in GeneratedClasses
           /\ g.owner = res.owner /\ g.flag = "managed"
    BY <2>1, <2>2, <2>3, <2>4, <2>5 DEF GeneratedClasses
  <2>7. ASSUME NEW g \in Generated(res), NEW h \in Generated(res), Key(g) = Key(h)
        PROVE  g = h
    <3>1. g.klass = h.klass /\ g.name = h.name
      BY <2>7 DEF Key
    <3>2. CASE g = If
      BY <2>1, <2>2, <2>3, <2>4, <2>5, <3>1, <3>2
    <3>3. ASSUME NEW d, g = Dev(d) PROVE g = h
      BY <2>1, <2>2, <2>3, <2>4, <2>5, <3>1, <3>3
    <3>4. ASSUME NEW d, g = DevIf(d) PROVE g = h
      BY <2>1, <2>2, <2>3, <2>4, <2>5, <3>1, <3>4
    <3> QED BY <2>1, <2>2, <3>2, <3>3, <3>4
  <2> QED BY <1>2, <2>6, <2>7
<1>3. CASE res.flag # "pre" /\ res.klass = "DeviceClusterContext"
  <2>1. Generated(res) = ContextResources(res)
    BY <1>3 DEF Generated
  <2> DEFINE Ctx(c) == Given(Resource("DeviceClusterInterfaceContext", res.owner, c, "managed"),
                             [device_cluster_interface_dn |-> res.val["device_cluster_name"],
                              bridge_domain_dn |-> res.val["bridge_domain_name"],
                              service_redirect_policy_dn |->
                                  res.val["service_redirect_policy_name"]])
  <2>2. ASSUME NEW g \in ContextResources(res) PROVE \E c : g = Ctx(c)
    BY DEF ContextResources
  <2>3. ASSUME NEW c
        PROVE  /\ IsResource(Ctx(c)) /\ Ctx(c).klass = "DeviceClusterInterfaceContext"
               /\ Ctx(c).owner = res.owner /\ Ctx(c).flag = "managed" /\ Ctx(c).name = c
    BY GivenIs
  <2> HIDE DEF Ctx
  <2>4. \A g \in Generated(res) :
           /\ IsResource(g) /\ g.klass \in GeneratedClasses
           /\ g.owner = res.owner /\ g.flag = "managed"
    BY <2>1, <2>2, <2>3 DEF GeneratedClasses
  <2>5. ASSUME NEW g \in Generated(res), NEW h \in Generated(res), Key(g) = Key(h)
        PROVE  g = h
    <3>1. g.name = h.name
      BY <2>5 DEF Key
    <3> QED BY <2>1, <2>2, <2>3, <3>1
  <2> QED BY <1>3, <2>4, <2>5
<1>4. CASE res.flag # "pre" /\ res.klass = "ServiceGraph"
  <2>1. Generated(res) = GraphResources(res)
    BY <1>4 DEF Generated
  <2> DEFINE nodes == Named(res)
             Node(i) == Given(Resource("ServiceGraphNode", res.owner, nodes[i], "managed"),
                              [rest |-> Plain(Positions[i]),
                               device_cluster_name |-> ClusterOf(nodes[i]),
                               device_cluster_tenant_name |-> ClusterOf(nodes[i]),
                               connectors |-> {<<nodes[i], c>> : c \in {"consumer", "provider"}}])
             Conn(i) == Given(Resource("ServiceGraphConnection", res.owner, Positions[i], "managed"),
                              [connector_dns |-> {PrevConn(nodes, i), NextConn(nodes, i)}])
  <2>2. ASSUME NEW g \in GraphResources(res)
        PROVE  \/ \E i \in 1..Len(nodes) : g = Node(i)
               \/ \E i \in 1..(Len(nodes) + 1) : g = Conn(i)
    BY DEF GraphResources
  <2>3. ASSUME NEW i
        PROVE  /\ IsResource(Node(i)) /\ Node(i).klass = "ServiceGraphNode"
               /\ Node(i).owner = res.owner /\ Node(i).flag = "managed"
               /\ Node(i).name = nodes[i]
    BY GivenIs
  <2>4. ASSUME NEW i
        PROVE  /\ IsResource(Conn(i)) /\ Conn(i).klass = "ServiceGraphConnection"
               /\ Conn(i).owner = res.owner /\ Conn(i).flag = "managed"
               /\ Conn(i).name = Positions[i]
    BY GivenIs
  <2>5. NodesOK(nodes)
    BY <1>4
  <2> HIDE DEF Node, Conn, nodes
  <2>6. \A g \in Generated(res) :
           /\ IsResource(g) /\ g.klass \in GeneratedClasses
           /\ g.owner = res.owner /\ g.flag = "managed"
    BY <2>1, <2>2, <2>3, <2>4 DEF GeneratedClasses
  <2>7. ASSUME NEW g \in Generated(res), NEW h \in Generated(res), Key(g) = Key(h)
        PROVE  g = h
    <3>1. g.klass = h.klass /\ g.name = h.name
      BY <2>7 DEF Key
    <3>2. ASSUME NEW i \in 1..Len(nodes), g = Node(i) PROVE g = h
      <4>1. PICK j \in 1..Len(nodes) : h = Node(j)
        BY <2>1, <2>2, <2>3, <2>4, <3>1, <3>2
      <4>2. nodes[i] = nodes[j]
        BY <2>3, <3>1, <3>2, <4>1
      <4> QED BY <2>5, <3>2, <4>1, <4>2 DEF NodesOK
    <3>3. ASSUME NEW i \in 1..(Len(nodes) + 1), g = Conn(i) PROVE g = h
      <4>1. PICK j \in 1..(Len(nodes) + 1) : h = Conn(j)
        BY <2>1, <2>2, <2>3, <2>4, <3>1, <3>3
      <4>2. Positions[i] = Positions[j]
        BY <2>4, <3>1, <3>3, <4>1
      <4>3. i \in 1..4 /\ j \in 1..4
        BY <2>5 DEF NodesOK
      <4> QED BY <3>3, <4>1, <4>2, <4>3, PositionsApart
    <3> QED BY <2>1, <2>2, <3>2, <3>3
  <2> QED BY <1>4, <2>6, <2>7
<1>5. CASE res.klass \notin {"DeviceCluster", "DeviceClusterContext", "ServiceGraph"}
  <2>1. Generated(res) = {}
    BY <1>5 DEF Generated
  <2> QED BY <2>1
<1> QED BY <1>1, <1>2, <1>3, <1>4, <1>5

-----------------------------------------------------------------------------
(* The batches, and what holds of all that is read.                        *)

\* Entries of lists of dictionaries have parts that a rule is there for.
ItemsHaveParts(res) ==
    \A r \in RulesOf(res.klass) : r.kind = "items" =>
        \A a \in r.attrs : \A e \in res.val[a] :
            \E q \in RulesOf(res.klass) :
                q.kind = "items" /\ q.attrs = r.attrs /\ q.part = e[2]

\* A batch: resources of one class, with owners of their own.
BatchOK ==
    \E k \in Classes :
        /\ \A x \in batch :
              /\ IsResource(x) /\ x.klass = k
              /\ k \in SystemClasses <=> x.owner = "SystemSecurityGroup"
              /\ k = "ServiceGraph" => NodesOK(Named(x))
              /\ ItemsHaveParts(x)
        /\ \A x, y \in batch :
              \/ x = y
              \/ /\ x.owner # y.owner /\ \A r \in RulesOf(k) : r.kind # "items"
                 /\ k = "ServiceGraph" => Named(x) = <<>>

\* What a rule carries are attributes of its class.
LEMMA AttrsOfRule ==
    ASSUME NEW k, NEW r \in RulesOf(k)
    PROVE  r.attrs \subseteq AttrsOf(k)
<1>1. r.attrs \cup r.skip \in {q.attrs \cup q.skip : q \in RulesOf(k)}
  OBVIOUS
<1> QED BY <1>1 DEF AttrsOf

\* The batches of the specification are such batches.
LEMMA BatchIs == ConversionInit /\ TwinsApart => BatchOK
<1> SUFFICES ASSUME ConversionInit, TwinsApart PROVE BatchOK
  OBVIOUS
<1>1. PICK k \in Classes, flag \in {"managed", "monitored", "pre"} :
         LET R(first) == Resource(k, OwnerName(k, first), "", flag) IN
         \/ \E set \in {s \in SUBSET (AttrsOf(k) \ {"linear_chain_nodes"}) : Cardinality(s) <= MaxSet} :
             \/ batch = {Given(R(TRUE), Filling2(k, set, TRUE))}
             \/ /\ k \in Twins
                /\ batch = {Given(R(first), Filling2(k, set, first)) : first \in BOOLEAN}
         \/ /\ k = "ServiceGraph"
            /\ \E c \in Chains : batch = {Given(R(TRUE), [linear_chain_nodes |-> ChainVal(c)])}
  BY DEF ConversionInit
<1> DEFINE R(first) == Resource(k, OwnerName(k, first), "", flag)
           X(set, first) == Given(R(first), Filling2(k, set, first))
           Y(c) == Given(R(TRUE), [linear_chain_nodes |-> ChainVal(c)])
<1>2. k = "ServiceGraph" => "linear_chain_nodes" \in AttrsOf(k)
  <2> SUFFICES ASSUME k = "ServiceGraph" PROVE "linear_chain_nodes" \in Unsent[k]
    BY DEF AttrsOf
  <2>1. k \in Converted
    BY ConverterAssumption
  <2> QED BY <2>1 DEF Unsent
<1>3. ASSUME NEW first \in BOOLEAN
      PROVE  /\ k \in SystemClasses <=> OwnerName(k, first) = "SystemSecurityGroup"
             /\ k \notin SystemClasses => OwnerName(k, TRUE) # OwnerName(k, FALSE)
  BY DEF OwnerName
<1>4. ASSUME NEW set \in SUBSET (AttrsOf(k) \ {"linear_chain_nodes"}), NEW first \in BOOLEAN
      PROVE  /\ IsResource(X(set, first)) /\ X(set, first).klass = k
             /\ X(set, first).owner = OwnerName(k, first)
             /\ k = "ServiceGraph" => /\ NodesOK(Named(X(set, first)))
                                       /\ Named(X(set, first)) = <<>>
             /\ ItemsHaveParts(X(set, first))
  <2>1. PICK x, f, own : /\ x = X(set, first) /\ f = Filling2(k, set, first)
                         /\ own = OwnerName(k, first)
    OBVIOUS
  <2>0. PICK name : x = Given(Resource(k, own, name, flag), f)
    BY <2>1, Zenon
  <2>2. /\ IsResource(x) /\ x.klass = k /\ x.owner = own
        /\ \A a \in AttrsOf(k) :
              x.val[a] = IF a \in DOMAIN f THEN f[a] ELSE {}
    BY <2>0, GivenIs
  <2>3. DOMAIN f = set /\ \A a \in set : f[a] = Filling(k, a, first)
    BY <2>1 DEF Filling2
  <2>4. ASSUME k = "ServiceGraph" PROVE NodesOK(Named(x)) /\ Named(x) = <<>>
    <3>1. x.val["linear_chain_nodes"] = {}
      BY <1>2, <2>2, <2>3, <2>4
    <3>2. Named(x) = <<>>
      BY <3>1, ChainAssumption DEF Named
    <3> QED BY <3>2 DEF NodesOK
  <2>5. ItemsHaveParts(x)
    <3> SUFFICES ASSUME NEW r \in RulesOf(k), r.kind = "items", NEW a \in r.attrs, NEW e \in x.val[a]
                 PROVE  \E q \in RulesOf(k) :
                           q.kind = "items" /\ q.attrs = r.attrs /\ q.part = e[2]
      BY <2>2 DEF ItemsHaveParts
    <3>1. a \in AttrsOf(k)
      BY AttrsOfRule
    <3>2. e \in Filling(k, a, first)
      BY <2>2, <2>3, <3>1
    <3>3. k \in Converted
      BY ConverterAssumption
    <3> QED BY <3>2, <3>3, MapsAssumption
  <2> QED BY <2>1, <2>2, <2>4, <2>5
<1>5. ASSUME NEW c \in Chains, k = "ServiceGraph"
      PROVE  /\ IsResource(Y(c)) /\ Y(c).klass = k /\ Y(c).owner = OwnerName(k, TRUE)
             /\ NodesOK(Named(Y(c))) /\ ItemsHaveParts(Y(c))
  <2>1. PICK x, f, own : /\ x = Y(c) /\ f = [linear_chain_nodes |-> ChainVal(c)]
                         /\ own = OwnerName(k, TRUE)
    OBVIOUS
  <2>0. PICK name : x = Given(Resource(k, own, name, flag), f)
    BY <2>1, Zenon
  <2>2. /\ IsResource(x) /\ x.klass = k /\ x.owner = own
        /\ \A a \in AttrsOf(k) : x.val[a] = IF a \in DOMAIN f THEN f[a] ELSE {}
    BY <2>0, GivenIs
  <2>3. "linear_chain_nodes" \in DOMAIN f /\ f["linear_chain_nodes"] = ChainVal(c)
    BY <2>1
  <2>4. x.val["linear_chain_nodes"] = ChainVal(c)
    BY <1>2, <1>5, <2>2, <2>3
  <2>5. PICK nodes : nodes = NamedIn(ChainVal(c))
    OBVIOUS
  <2>6. /\ nodes \in Seq({"n1", "n2", "n3"}) /\ Len(nodes) <= MaxChain
        /\ \A i, j \in 1..Len(nodes) : nodes[i] = nodes[j] => i = j
        /\ MaxChain \in 0..3
    BY <2>5, ChainAssumption
  <2>7. NodesOK(nodes)
    <3>1. Len(nodes) \in Nat
      BY <2>6
    <3>2. Len(nodes) \in 0..3
      <4>1. \A n \in Nat : \A m \in 0..3 : n <= m => n \in 0..3
        OBVIOUS
      <4>2. Len(nodes) <= MaxChain /\ MaxChain \in 0..3
        BY <2>6
      <4> QED BY <3>1, <4>1, <4>2, Zenon
    <3>3. \A i, j \in 1..Len(nodes) : nodes[i] = nodes[j] => i = j
      BY <2>6
    <3> QED BY <3>2, <3>3 DEF NodesOK
  <2>8. ItemsHaveParts(x)
    <3>1. \A r \in RulesOf(k) : r.kind # "items"
      BY <1>5, RulesAssumption DEF RulesOf
    <3> QED BY <2>2, <3>1 DEF ItemsHaveParts
  <2> QED BY <2>1, <2>2, <2>4, <2>5, <2>7, <2>8 DEF Named
<1> HIDE DEF X, Y
<1>6. \/ \E set \in SUBSET (AttrsOf(k) \ {"linear_chain_nodes"}) :
            \/ batch = {X(set, TRUE)}
            \/ k \in Twins /\ batch = {X(set, first) : first \in BOOLEAN}
      \/ k = "ServiceGraph" /\ \E c \in Chains : batch = {Y(c)}
  BY <1>1 DEF X, Y
<1>7. ASSUME NEW set \in SUBSET (AttrsOf(k) \ {"linear_chain_nodes"}), batch = {X(set, TRUE)}
      PROVE  BatchOK
  <2>1. PICK x : x = X(set, TRUE)
    OBVIOUS
  <2>2. /\ IsResource(x) /\ x.klass = k
        /\ k \in SystemClasses <=> x.owner = "SystemSecurityGroup"
        /\ k = "ServiceGraph" => NodesOK(Named(x))
        /\ ItemsHaveParts(x)
    BY <1>3, <1>4, <2>1
  <2>3. batch = {x}
    BY <1>7, <2>1
  <2> QED BY <2>2, <2>3 DEF BatchOK
<1>8. ASSUME NEW set \in SUBSET (AttrsOf(k) \ {"linear_chain_nodes"}), k \in Twins,
             batch = {X(set, first) : first \in BOOLEAN}
      PROVE  BatchOK
  <2>1. k \notin SystemClasses /\ \A r \in RulesOf(k) : r.kind # "items"
    BY <1>8 DEF TwinsApart
  <2>2. ASSUME NEW x \in batch, NEW y \in batch, x # y
        PROVE  x.owner # y.owner /\ (k = "ServiceGraph" => Named(x) = <<>>)
    <3>1. \/ x = X(set, TRUE) /\ y = X(set, FALSE)
          \/ x = X(set, FALSE) /\ y = X(set, TRUE)
      BY <1>8, <2>2
    <3> QED BY <1>3, <1>4, <2>1, <3>1
  <2>3. ASSUME NEW x \in batch
        PROVE  /\ IsResource(x) /\ x.klass = k
               /\ k \in SystemClasses <=> x.owner = "SystemSecurityGroup"
               /\ k = "ServiceGraph" => NodesOK(Named(x))
               /\ ItemsHaveParts(x)
    <3>1. PICK first \in BOOLEAN : x = X(set, first)
      BY <1>8
    <3> QED BY <1>3, <1>4, <3>1
  <2> QED BY <2>1, <2>2, <2>3 DEF BatchOK
<1>9. ASSUME NEW c \in Chains, k = "ServiceGraph", batch = {Y(c)}
      PROVE  BatchOK
  BY <1>3, <1>5, <1>9 DEF BatchOK
<1> QED BY <1>6, <1>7, <1>8, <1>9

\* What is converted has keys of its own.
LEMMA BatchSources ==
    ASSUME BatchOK
    PROVE  SourcesOK(batch)
<1>1. PICK k \in Classes :
        /\ \A x \in batch :
              /\ IsResource(x) /\ x.klass = k
              /\ k \in SystemClasses <=> x.owner = "SystemSecurityGroup"
              /\ k = "ServiceGraph" => NodesOK(Named(x))
              /\ ItemsHaveParts(x)
        /\ \A x, y \in batch :
              \/ x = y
              \/ /\ x.owner # y.owner /\ \A r \in RulesOf(k) : r.kind # "items"
                 /\ k = "ServiceGraph" => Named(x) = <<>>
  BY DEF BatchOK
<1>2. ASSUME NEW x \in batch, NEW g \in Generated(x)
      PROVE  /\ IsResource(g) /\ g.klass \in GeneratedClasses /\ g.owner = x.owner
             /\ k \in {"DeviceCluster", "DeviceClusterContext", "ServiceGraph"}
             /\ g.klass # k /\ g.klass \notin SystemClasses /\ k \notin SystemClasses
             /\ \A r \in RulesOf(g.klass) : r.kind # "items"
  <2>1. /\ IsResource(g) /\ g.klass \in GeneratedClasses /\ g.owner = x.owner
        /\ k \in {"DeviceCluster", "DeviceClusterContext", "ServiceGraph"}
    BY <1>1, GeneratedIs
  <2>2. \A r \in RulesOf(g.klass) : r.kind # "items"
    BY <2>1, RulesAssumption DEF RulesOf
  <2> QED BY <2>1, <2>2 DEF GeneratedClasses, SystemClasses
<1>3. \A s : s \in Sources(batch) <=> \E x \in batch : s = x \/ s \in Generated(x)
  BY DEF Sources
<1>4. ASSUME NEW s \in Sources(batch)
      PROVE  IsResource(s) /\ (s.klass \in SystemClasses <=> s.owner = "SystemSecurityGroup")
  BY <1>1, <1>2, <1>3
<1>5. ASSUME NEW s \in Sources(batch), NEW t \in Sources(batch), s # t
      PROVE  /\ Key(s) # Key(t)
             /\ s.klass = t.klass => \A r \in RulesOf(s.klass) : r.kind # "items"
  <2>1. PICK x \in batch : s = x \/ s \in Generated(x)
    BY <1>3
  <2>2. PICK y \in batch : t = y \/ t \in Generated(y)
    BY <1>3
  <2>3. CASE s = x /\ t = y
    BY <1>1, <1>5, <2>3 DEF Key
  <2>4. CASE s = x /\ t \in Generated(y)
    BY <1>1, <1>2, <2>4 DEF Key
  <2>5. CASE s \in Generated(x) /\ t = y
    BY <1>1, <1>2, <2>5 DEF Key
  <2>6. CASE s \in Generated(x) /\ t \in Generated(y)
    <3>1. CASE x = y
      BY <1>1, <1>2, <1>5, <2>6, <3>1, GeneratedIs
    <3>2. CASE x # y
      BY <1>1, <1>2, <2>6, <3>2 DEF Key
    <3> QED BY <3>1, <3>2
  <2> QED BY <2>1, <2>2, <2>3, <2>4, <2>5, <2>6
<1> QED BY <1>4, <1>5 DEF SourcesOK, IsResource

\* The inductive invariant holds before anything is read, whatever is read next, and so always.
LEMMA ConversionStarts == ConversionInit /\ TwinsApart => ConversionInv
<1> SUFFICES ASSUME ConversionInit, TwinsApart PROVE ConversionInv
  OBVIOUS
<1>1. SourcesOK(batch)
  BY BatchIs, BatchSources
<1>2. wire = AimToAci(batch) /\ DOMAIN got = {} /\ DOMAIN items = {}
  BY DEF ConversionInit, Empty
<1> QED BY <1>1, <1>2 DEF ConversionInv, ReadOK, ItemsOK, DoneOK

\* Reading an object of the list, in whatever order, keeps it.
LEMMA ConversionInductive ==
    ASSUME ConversionInv, [ConversionNext]_conversionVars
    PROVE  ConversionInv'
<1>1. CASE UNCHANGED conversionVars
  <2>1. batch' = batch /\ wire' = wire /\ got' = got /\ items' = items
    BY <1>1 DEF conversionVars
  <2>2. ReadOK' /\ ItemsOK' /\ DoneOK'
    BY <2>1 DEF ConversionInv, ReadOK, ItemsOK, DoneOK
  <2> QED BY <2>1, <2>2 DEF ConversionInv
<1>2. CASE ConversionNext
  <2>1. PICK o \in Upcoming : Convert(o)
    BY <1>2 DEF ConversionNext
  <2>2. o \in wire
    BY <2>1 DEF Convert
  <2> QED BY <2>1, <2>2, ConvertStep
<1> QED BY <1>1, <1>2

\* It holds in every state.
LEMMA ConversionInvAlways == TwinsApart /\ ConversionSpec => []ConversionInv
BY ConversionStarts, ConversionInductive, PTL DEF ConversionSpec

\* Type correctness of the converters, for any classes, pairs and bounds: a resource that
\* AciToAimModelConverter builds has exactly the attributes of its class, and the entries
\* that _squash keeps for dictionaries point to resources that are there.
THEOREM ConversionTypeCorrect == TwinsApart /\ ConversionSpec => []ConversionTypeOK
<1>1. ASSUME ConversionInv PROVE ConversionTypeOK
  <2>1. ASSUME NEW key \in DOMAIN got
        PROVE  key[1] \in Converted /\ DOMAIN got[key] = AttrsOf(key[1])
    <3>1. PICK res \in Sources(batch) :
             /\ Key(res) = key /\ res.klass \in Converted
             /\ DOMAIN got[key] = AttrsOf(res.klass)
      BY <1>1 DEF ConversionInv, ReadOK
    <3>2. key[1] = res.klass
      BY <3>1 DEF Key
    <3> QED BY <3>1, <3>2
  <2> QED BY <1>1, <2>1 DEF ConversionTypeOK, ConversionInv, ItemsOK
<1> QED BY <1>1, ConversionInvAlways, PTL

\* NothingInvented, for any classes, any attributes that are set and any order of the
\* list: _squash brings objects of the same identity together and no others, provided no
\* two resources of a batch have lists of dictionaries (TwinsApart; the run that drops
\* this shows how their entries get mixed up).
THEOREM NothingIsInvented == TwinsApart /\ ConversionSpec => []NothingInvented
<1>1. ASSUME ConversionInv PROVE NothingInvented
  <2> SUFFICES ASSUME NEW key \in DOMAIN got
               PROVE  \E res \in Sources(batch) :
                         /\ Key(res) = key
                         /\ \A a \in DOMAIN got[key] : got[key][a] \subseteq Normal(res)[a]
    BY DEF NothingInvented
  <2>1. PICK res \in Sources(batch) :
           /\ Key(res) = key
           /\ \A a \in DOMAIN got[key] : got[key][a] \subseteq Sent(res, a)
    BY <1>1 DEF ConversionInv, ReadOK
  <2>2. \A a : Sent(res, a) \subseteq Normal(res)[a]
    BY DEF Sent
  <2> QED BY <2>1, <2>2
<1> QED BY <1>1, ConversionInvAlways, PTL

-----------------------------------------------------------------------------
(* What the objects of a resource carry.                                   *)

\* Everything but a tenant that is filled in stays as it is.
LEMMA FilledItems ==
    ASSUME NEW res, NEW r \in RulesOf(res.klass), r.kind = "items"
    PROVE  Filled(res) = res
<1>1. r \in Rules /\ r.klass = res.klass
  BY DEF RulesOf
<1>2. res.klass # "DeviceClusterContext"
  BY <1>1, RulesAssumption
<1> QED BY <1>2 DEF Filled

\* The objects of a rule that is in use for the attributes that are set.
LEMMA InUseSends ==
    ASSUME NEW res, res.flag = "managed", NEW r \in InUse(res.klass, SetAttrs(res)),
           DOMAIN Filled(res).val = AttrsOf(res.klass)
    PROVE  /\ r \in Rules /\ r.klass = res.klass /\ Applies(r, res)
           /\ Due(r, Filled(res).val)
           /\ r.kind \in {"object", "reference"} =>
                 Whole(r, Filled(res).val) \in Payloads(r, Filled(res).val)
           /\ r.kind \in {"each", "domains"} =>
                 \A e \in UNION {Filled(res).val[b] : b \in r.attrs} :
                    [a \in r.attrs |-> {e}] \in Payloads(r, Filled(res).val)
<1> DEFINE v == Filled(res).val
<1>1. /\ r \in Rules /\ r.klass = res.klass
      /\ r.when \subseteq SetAttrs(res) /\ r.unless \cap SetAttrs(res) = {}
      /\ r.kind = "reference" => r.attrs \subseteq SetAttrs(res)
  BY DEF InUse, DueSet, RulesOf
<1>2. Applies(r, res)
  BY <1>1 DEF Applies
<1>3. Due(r, v)
  <2>1. \A a \in r.when : v[a] # {}
    BY <1>1 DEF SetAttrs
  <2>2. ASSUME NEW a \in r.unless PROVE v[a] = {}
    <3>1. res.klass \in Converted /\ r \in RulesOf(res.klass)
      BY <1>1 DEF Converted, RulesOf
    <3>2. a \in AttrsOf(res.klass)
      BY <3>1, MapsAssumption
    <3> QED BY <1>1, <3>2 DEF SetAttrs
  <2> QED BY <2>1, <2>2 DEF Due
<1>4. ASSUME r.kind = "object" PROVE Whole(r, v) \in Payloads(r, v)
  BY <1>3, <1>4 DEF Payloads, ObjectPayload
<1>5. ASSUME r.kind = "reference" PROVE Whole(r, v) \in Payloads(r, v)
  <2>1. \A a \in r.attrs : v[a] # {}
    BY <1>1, <1>5 DEF SetAttrs
  <2> QED BY <1>5, <2>1 DEF Payloads, ReferencePayload
<1>6. ASSUME r.kind \in {"each", "domains"}, NEW e \in UNION {v[b] : b \in r.attrs}
      PROVE  [a \in r.attrs |-> {e}] \in Payloads(r, v)
  <2>1. [a \in r.attrs |-> {e}] \in EachPayload(r, v)
    BY <1>3 DEF EachPayload
  <2> QED BY <1>6, <2>1 DEF Payloads, DomainPayload
<1> QED BY <1>1, <1>2, <1>3, <1>4, <1>5, <1>6

\* An object that carries a payload of a rule, and what is read of it.
LEMMA ObjectCarries ==
    ASSUME NEW res, NEW r \in Rules, Applies(r, res), NEW p \in Payloads(r, Filled(res).val),
           NEW a \in DOMAIN p
    PROVE  \E o : /\ IsObjectOf(o, r, res) /\ a \in DOMAIN Read(o)
                  /\ \A e \in p[a] : (a = "openstack_vmm_domain_names" => e[2] = "OpenStack")
                                        => e \in Read(o)[a]
<1>1. PICK o : o = [mo |-> r.mo, owner |-> res.owner, name |-> res.name, val |-> p]
  OBVIOUS
<1>2. IsObjectOf(o, r, res)
  BY <1>1 DEF IsObjectOf
<1>3. o.val = p
  BY <1>1
<1>4. /\ DOMAIN Read(o) = DOMAIN p
      /\ Read(o)[a] = IF a = "openstack_vmm_domain_names"
                      THEN {e \in p[a] : e[2] = "OpenStack"} ELSE p[a]
  BY <1>3 DEF Read
<1> QED BY <1>2, <1>4

\* An entry that is read of one of the objects of a resource.
ReadFrom(res, a, e) ==
    \E o : \E r \in Rules : IsObjectOf(o, r, res) /\ a \in DOMAIN Read(o) /\ e \in Read(o)[a]

\* What a rule in use carries of an attribute is in an object.
LEMMA InUseCarries ==
    ASSUME NEW b, SourcesOK(b), NEW res \in Sources(b), res.flag = "managed", ItemsHaveParts(res),
           NEW r \in InUse(res.klass, SetAttrs(res)), NEW a \in r.attrs,
           a \notin VmmLists \cup PhysicalLists, NEW e \in Filled(res).val[a]
    PROVE  ReadFrom(res, a, e)
<1> DEFINE v == Filled(res).val
           k == res.klass
<1>1. DOMAIN v = AttrsOf(k)
  BY FilledSame DEF SourcesOK
<1>2. /\ r \in Rules /\ r.klass = k /\ Applies(r, res)
      /\ Due(r, v)
      /\ r.kind \in {"object", "reference"} => Whole(r, v) \in Payloads(r, v)
      /\ r.kind \in {"each", "domains"} =>
            \A x \in UNION {v[c] : c \in r.attrs} : [c \in r.attrs |-> {x}] \in Payloads(r, v)
  BY <1>1, InUseSends
<1>3. a # "openstack_vmm_domain_names"
  BY DEF VmmLists
<1>4. ASSUME NEW q \in Rules, Applies(q, res), NEW p \in Payloads(q, v), a \in DOMAIN p, e \in p[a]
      PROVE  ReadFrom(res, a, e)
  BY <1>3, <1>4, ObjectCarries DEF ReadFrom
<1> HIDE DEF v
<1>5. CASE r.kind \in {"object", "reference"}
  <2>1. PICK p \in Payloads(r, v) : a \in DOMAIN p /\ e \in p[a]
    BY <1>2, <1>5 DEF Whole, v
  <2> QED BY <1>2, <1>4, <2>1
<1>6. CASE r.kind = "each"
  <2>1. e \in UNION {v[c] : c \in r.attrs}
    BY DEF v
  <2>2. [c \in r.attrs |-> {e}] \in Payloads(r, v)
    BY <1>2, <1>6, <2>1
  <2>3. PICK p \in Payloads(r, v) : a \in DOMAIN p /\ e \in p[a]
    BY <2>2
  <2> QED BY <1>2, <1>4, <2>3
<1>7. CASE r.kind = "items"
  <2>1. r \in RulesOf(k) /\ v = res.val
    BY <1>2, <1>7, FilledItems DEF RulesOf, v
  <2>2. PICK q \in RulesOf(k) : q.kind = "items" /\ q.attrs = r.attrs /\ q.part = e[2]
    BY <1>7, <2>1 DEF ItemsHaveParts, v
  <2>3. q \in Rules /\ q.klass = k /\ q.when = {} /\ q.unless = {} /\ Applies(q, res)
    BY <2>2, RulesAssumption DEF RulesOf, Applies
  <2> DEFINE p == [c \in q.attrs |-> {e}]
  <2>4. p \in EachPayload(q, v)
    <3>1. Due(q, v)
      BY <2>3 DEF Due
    <3>2. e \in UNION {v[c] : c \in q.attrs}
      BY <2>2 DEF v
    <3> QED BY <3>1, <3>2 DEF EachPayload
  <2>5. p \in ItemPayload(q, v)
    BY <2>2, <2>4 DEF ItemPayload
  <2>6. p \in Payloads(q, v)
    BY <2>2, <2>5 DEF Payloads
  <2>7. a \in DOMAIN p /\ e \in p[a]
    BY <2>2
  <2> HIDE DEF p
  <2> QED BY <1>4, <2>3, <2>6, <2>7
<1>8. r.kind \in {"object", "reference", "each", "items"}
  BY <1>2, RulesAssumption DEF ListKinds
<1> QED BY <1>5, <1>6, <1>7, <1>8

\* A domain is in an object whichever list names it, and can be read into both lists.
LEMMA DomainCarries ==
    ASSUME NEW b, SourcesOK(b), NEW res \in Sources(b), res.flag = "managed",
           NEW lists \in {VmmLists, PhysicalLists}, NEW a \in lists, NEW c \in lists,
           NEW r \in RulesOf(res.klass), c \in r.attrs, NEW e \in Filled(res).val[c],
           a = "openstack_vmm_domain_names" => e[2] = "OpenStack"
    PROVE  ReadFrom(res, a, e)
<1> DEFINE v == Filled(res).val
<1>1. r \in Rules /\ r.klass = res.klass
  BY DEF RulesOf
<1>2. r.kind = "domains"
  BY <1>1, RulesAssumption
<1>3. r.attrs = lists /\ r.when = {} /\ r.unless = {}
  <2>1. r.attrs \in {VmmLists, PhysicalLists} /\ r.when = {} /\ r.unless = {}
    BY <1>1, <1>2, RulesAssumption
  <2> QED BY <2>1 DEF VmmLists, PhysicalLists
<1>4. Applies(r, res) /\ Due(r, v)
  BY <1>1, <1>3 DEF Applies, Due
<1>5. [d \in r.attrs |-> {e}] \in EachPayload(r, v)
  <2>1. e \in UNION {v[d] : d \in r.attrs}
    BY <1>3
  <2> QED BY <1>4, <2>1 DEF EachPayload
<1>6. PICK p \in Payloads(r, v) : a \in DOMAIN p /\ e \in p[a]
  <2>1. [d \in r.attrs |-> {e}] \in Payloads(r, v)
    BY <1>2, <1>5 DEF Payloads, DomainPayload
  <2> QED BY <1>3, <2>1
<1> QED BY <1>1, <1>4, <1>6, ObjectCarries DEF ReadFrom

\* Whatever can be told of a coherent resource is in an object of it.
LEMMA EverythingIsSent ==
    ASSUME NEW b, SourcesOK(b), NEW res \in Sources(b), res.flag = "managed", Coherent(res),
           res.klass \in Converted, ItemsHaveParts(res),
           NEW a \in AttrsOf(res.klass) \ Unsent[res.klass], NEW e \in Normal(res)[a]
    PROVE  ReadFrom(res, a, e)
<1> DEFINE v == Filled(res).val
           k == res.klass
           set == SetAttrs(res)
<1>1. DOMAIN v = AttrsOf(k)
  BY FilledSame DEF SourcesOK
<1>2. set \in SUBSET AttrsOf(k) /\ CoherentSet(k, set)
  BY DEF SetAttrs, Coherent
<1>3. ASSUME NEW c \in AttrsOf(k) \ Unsent[k], v[c] # {}
      PROVE  \E r \in InUse(k, set) : c \in r.attrs
  <2>1. c \in set \ Unsent[k]
    BY <1>3 DEF SetAttrs
  <2> HIDE DEF set
  <2>2. c \in Carried(k, set)
    BY <1>2, <2>1, MapsAssumption
  <2> QED BY <2>2 DEF Carried
<1> HIDE DEF set
<1>4. CASE a \notin VmmLists \cup PhysicalLists
  <2>1. Normal(res)[a] = v[a] /\ e \in v[a]
    BY <1>1, <1>4 DEF Normal, VmmLists, PhysicalLists
  <2> QED BY <1>3, <1>4, <2>1, InUseCarries DEF set
<1>5. ASSUME NEW lists \in {VmmLists, PhysicalLists}, a \in lists, NEW c \in lists, e \in v[c],
             a = "openstack_vmm_domain_names" => e[2] = "OpenStack"
      PROVE  ReadFrom(res, a, e)
  <2>1. c \in AttrsOf(k) \ Unsent[k]
    BY <1>5, MapsAssumption
  <2>2. PICK r \in InUse(k, set) : c \in r.attrs
    BY <1>3, <1>5, <2>1
  <2>3. r \in RulesOf(k)
    BY DEF InUse
  <2> QED BY <1>5, <2>2, <2>3, DomainCarries
<1>6. CASE a \in VmmLists
  <2>1. /\ e \in v["vmm_domains"] \cup v["openstack_vmm_domain_names"]
        /\ a = "openstack_vmm_domain_names" => e[2] = "OpenStack"
    BY <1>1, <1>6 DEF Normal, VmmLists
  <2> QED BY <1>5, <1>6, <2>1 DEF VmmLists
<1>7. CASE a \in PhysicalLists
  <2>1. /\ e \in v["physical_domains"] \cup v["physical_domain_names"]
        /\ a # "openstack_vmm_domain_names"
    BY <1>1, <1>7 DEF Normal, PhysicalLists
  <2> QED BY <1>5, <1>7, <2>1 DEF PhysicalLists
<1> QED BY <1>4, <1>6, <1>7

-----------------------------------------------------------------------------
(* The round trip.                                                         *)

\* The parts of the entries of all that is converted have rules.
LEMMA SourceParts ==
    ASSUME BatchOK, NEW res \in Sources(batch)
    PROVE  ItemsHaveParts(res) /\ res.klass \in Converted
<1>1. PICK k \in Classes :
        /\ \A x \in batch :
              /\ x.klass = k /\ ItemsHaveParts(x)
              /\ k = "ServiceGraph" => NodesOK(Named(x))
  BY DEF BatchOK
<1>2. PICK x \in batch : res = x \/ res \in Generated(x)
  BY DEF Sources
<1>3. CASE res = x
  BY <1>1, <1>3, ConverterAssumption
<1>4. CASE res \in Generated(x)
  <2>1. res.klass \in GeneratedClasses
    BY <1>1, <1>4, GeneratedIs
  <2>2. \A r \in RulesOf(res.klass) : r.kind # "items"
    BY <2>1, RulesAssumption DEF RulesOf
  <2> QED BY <2>1, <2>2, MapsAssumption DEF ItemsHaveParts
<1> QED BY <1>2, <1>3, <1>4

\* When nothing is left in the list, what every object carried has been read.
LEMMA AllIsRead ==
    ASSUME ConversionInv, wire = {}, NEW res \in Sources(batch), NEW o, NEW r \in Rules,
           IsObjectOf(o, r, res)
    PROVE  /\ Key(res) \in DOMAIN got
           /\ \A a \in DOMAIN Read(o) : Read(o)[a] \subseteq got[Key(res)][a]
<1>1. o \in AimToAci(batch) \ wire
  BY ObjectsHaveRules
<1>2. <<RuleFor(o).klass, o.owner, o.name>> = Key(res)
  BY RuleIsFound DEF ConversionInv
<1> QED BY <1>1, <1>2 DEF ConversionInv, DoneOK

\* A coherent resource is read as it was sent.
LEMMA ReadBack ==
    ASSUME ConversionInv, BatchOK, wire = {}, NEW res \in Sources(batch),
           res.flag = "managed", Coherent(res)
    PROVE  /\ Key(res) \in DOMAIN got
           /\ \A a \in AttrsOf(res.klass) : got[Key(res)][a] = Sent(res, a)
<1>1. SourcesOK(batch) /\ ReadOK
  BY DEF ConversionInv
<1>2. ItemsHaveParts(res) /\ res.klass \in Converted
  BY SourceParts
<1>3. DOMAIN Filled(res).val = AttrsOf(res.klass)
  BY <1>1, FilledSame DEF SourcesOK
<1>4. Key(res) \in DOMAIN got
  <2>1. SetAttrs(res) \in SUBSET AttrsOf(res.klass) /\ CoherentSet(res.klass, SetAttrs(res))
    BY DEF SetAttrs, Coherent
  <2>2. PICK r \in InUse(res.klass, SetAttrs(res)) : r.kind = "object"
    BY <1>2, <2>1, MapsAssumption
  <2>3. /\ r \in Rules /\ Applies(r, res)
        /\ Whole(r, Filled(res).val) \in Payloads(r, Filled(res).val)
    BY <1>3, <2>2, InUseSends
  <2>4. PICK o : o = [mo |-> r.mo, owner |-> res.owner, name |-> res.name,
                      val |-> Whole(r, Filled(res).val)]
    OBVIOUS
  <2>5. IsObjectOf(o, r, res)
    BY <2>3, <2>4 DEF IsObjectOf
  <2> QED BY <2>3, <2>5, AllIsRead
<1>5. \A a \in AttrsOf(res.klass) : got[Key(res)][a] \subseteq Sent(res, a)
  <2>1. PICK x \in Sources(batch) :
           /\ Key(x) = Key(res) /\ DOMAIN got[Key(res)] = AttrsOf(x.klass)
           /\ \A a \in DOMAIN got[Key(res)] : got[Key(res)][a] \subseteq Sent(x, a)
    BY <1>1, <1>4 DEF ReadOK
  <2>2. x = res
    BY <1>1, <2>1, OneSource
  <2> QED BY <2>1, <2>2
<1>6. ASSUME NEW a \in AttrsOf(res.klass), NEW e \in Sent(res, a)
      PROVE  e \in got[Key(res)][a]
  <2>1. a \notin Unsent[res.klass] /\ e \in Normal(res)[a]
    BY <1>6 DEF Sent
  <2>2. PICK o, r : r \in Rules /\ IsObjectOf(o, r, res) /\ a \in DOMAIN Read(o) /\ e \in Read(o)[a]
    BY <1>1, <1>2, <2>1, EverythingIsSent DEF ReadFrom
  <2> QED BY <2>2, AllIsRead
<1> QED BY <1>4, <1>5, <1>6

\* The batch stays what it is.
LEMMA BatchAlways == TwinsApart /\ ConversionSpec => []BatchOK
<1>1. ASSUME BatchOK, [ConversionNext]_conversionVars PROVE BatchOK'
  <2>1. batch' = batch
    BY <1>1 DEF ConversionNext, Convert, conversionVars
  <2> QED BY <1>1, <2>1 DEF BatchOK
<1> QED BY <1>1, BatchIs, PTL DEF ConversionSpec

\* RoundTrip, for any classes, any coherent attributes and any order of the list: what
\* AimToAciModelConverter sends is what AciToAimModelConverter returns, no more, no less.
THEOREM ConversionIsInverted == TwinsApart /\ ConversionSpec => []RoundTrip
<1>1. ASSUME ConversionInv, BatchOK PROVE RoundTrip
  BY <1>1, ReadBack DEF RoundTrip, Sent
<1> QED BY <1>1, ConversionInvAlways, BatchAlways, PTL

-----------------------------------------------------------------------------
(* The chains of service graphs.                                           *)

\* The connectors of a connection follow each other on the path.
LEMMA PathStep ==
    ASSUME NEW nodes, Len(nodes) \in 0..3, NEW i \in 1..(Len(nodes) + 1)
    PROVE  Path(nodes)[2 * i - 1] = PrevConn(nodes, i) /\ Path(nodes)[2 * i] = NextConn(nodes, i)
<1> DEFINE n == Len(nodes)
           last == 2 * n + 2
           At(p) == IF p = 1 THEN Terminal("T1")
                    ELSE IF p = last THEN Terminal("T2")
                    ELSE <<nodes[p \div 2], IF p % 2 = 0 THEN "consumer" ELSE "provider">>
<1>1. Path(nodes) = [p \in 1..last |-> At(p)]
  BY DEF Path
<1>2. PICK m \in 0..3 : m = n
  OBVIOUS
<1>3. i \in 1..(m + 1) /\ i \in 1..4
  BY <1>2
<1>4. 2 * i - 1 \in 1..last /\ 2 * i \in 1..last
  BY <1>2, <1>3
<1>5. Path(nodes)[2 * i - 1] = At(2 * i - 1) /\ Path(nodes)[2 * i] = At(2 * i)
  <2> HIDE DEF At, last
  <2> QED BY <1>1, <1>4
<1>6. At(2 * i - 1) = PrevConn(nodes, i)
  <2>1. CASE i = 1
    BY <2>1 DEF PrevConn
  <2>2. CASE i # 1
    <3>1. /\ 2 * i - 1 # 1 /\ 2 * i - 1 # last
          /\ (2 * i - 1) \div 2 = i - 1 /\ (2 * i - 1) % 2 # 0
      BY <1>2, <1>3, <2>2
    <3> QED BY <2>2, <3>1 DEF PrevConn
  <2> QED BY <2>1, <2>2
<1>7. At(2 * i) = NextConn(nodes, i)
  <2>1. CASE i = m + 1
    <3>1. 2 * i # 1 /\ 2 * i = last /\ i > n
      BY <1>2, <1>3, <2>1
    <3> QED BY <3>1 DEF NextConn
  <2>2. CASE i # m + 1
    <3>1. /\ 2 * i # 1 /\ 2 * i # last /\ ~(i > n)
          /\ (2 * i) \div 2 = i /\ (2 * i) % 2 = 0
      BY <1>2, <1>3, <2>2
    <3> QED BY <3>1 DEF NextConn
  <2> QED BY <2>1, <2>2
<1> QED BY <1>5, <1>6, <1>7

\* The i-th connection of a service graph
ConnectionOf(res, i) ==
    Given(Resource("ServiceGraphConnection", res.owner, Positions[i], "managed"),
          [connector_dns |-> {PrevConn(Named(res), i), NextConn(Named(res), i)}])
ConnectionsOf(res) == IF Named(res) = <<>> THEN {} ELSE 1..(Len(Named(res)) + 1)

\* The connections among what a service graph generates.
LEMMA GeneratedConnections ==
    ASSUME NEW res, res.klass = "ServiceGraph", res.flag # "pre"
    PROVE  /\ \A i \in ConnectionsOf(res) : ConnectionOf(res, i) \in Generated(res)
           /\ \A g \in Generated(res) : g.klass = "ServiceGraphConnection" =>
                 \E i \in ConnectionsOf(res) : g = ConnectionOf(res, i)
<1> DEFINE Node(i) == Given(Resource("ServiceGraphNode", res.owner, Named(res)[i], "managed"),
                            [rest |-> Plain(Positions[i]),
                             device_cluster_name |-> ClusterOf(Named(res)[i]),
                             device_cluster_tenant_name |-> ClusterOf(Named(res)[i]),
                             connectors |-> {<<Named(res)[i], c>> : c \in {"consumer", "provider"}}])
<1>1. Generated(res) = {Node(i) : i \in 1..Len(Named(res))}
                       \cup {ConnectionOf(res, i) : i \in ConnectionsOf(res)}
  BY DEF Generated, GraphResources, ConnectionOf, ConnectionsOf
<1>2. \A i : Node(i).klass = "ServiceGraphNode"
  BY GivenIs
<1> HIDE DEF Node
<1> QED BY <1>1, <1>2

\* A connection is read with its two connectors.
LEMMA ConnectionRead ==
    ASSUME ConversionInv, BatchOK, wire = {}, NEW res, NEW i,
           ConnectionOf(res, i) \in Sources(batch)
    PROVE  /\ Key(ConnectionOf(res, i)) \in DOMAIN got
           /\ got[Key(ConnectionOf(res, i))]["connector_dns"]
                 = {PrevConn(Named(res), i), NextConn(Named(res), i)}
<1> DEFINE both == {PrevConn(Named(res), i), NextConn(Named(res), i)}
           a == "connector_dns"
<1>1. PICK c, given : /\ c = ConnectionOf(res, i) /\ given = [connector_dns |-> both]
                      /\ c = Given(Resource("ServiceGraphConnection", res.owner, Positions[i], "managed"),
                                   given)
  BY DEF ConnectionOf
<1>2. DOMAIN given = {a} /\ given[a] = both
  BY <1>1
<1>3. a \in AttrsOf("ServiceGraphConnection") /\ "ServiceGraphConnection" \in Converted
  BY MapsAssumption DEF GeneratedClasses
<1> HIDE DEF both
<1>4. c.klass = "ServiceGraphConnection" /\ c.flag = "managed" /\ IsResource(c)
  BY <1>1, GivenIs
<1>5. c.val[a] = both
  BY <1>1, <1>2, <1>3, GivenIs
<1>6. Filled(c) = c
  BY <1>4 DEF Filled
<1>7. Coherent(c)
  <2>1. SetAttrs(c) \in SUBSET AttrsOf("ServiceGraphConnection")
    BY <1>4 DEF SetAttrs
  <2> QED BY <1>4, <2>1, MapsAssumption DEF Coherent
<1>8. Key(c) \in DOMAIN got /\ got[Key(c)][a] = Sent(c, a)
  BY <1>1, <1>3, <1>4, <1>7, ReadBack
<1>9. Sent(c, a) = both
  <2>1. Unsent["ServiceGraphConnection"] = {}
    BY <1>3 DEF Unsent
  <2>2. Normal(c)[a] = c.val[a]
    BY <1>3, <1>4, <1>6 DEF Normal, IsResource
  <2> QED BY <1>4, <1>5, <2>1, <2>2 DEF Sent
<1> QED BY <1>1, <1>8, <1>9 DEF both

\* ChainConnected, for any chain of up to three nodes, with or without names, and any order
\* of the list: the connections that service_graph_converter generates come back as one
\* path through all the nodes.
THEOREM ChainsStayConnected == TwinsApart /\ ConversionSpec => []ChainConnected
<1>1. ASSUME ConversionInv, BatchOK PROVE ChainConnected
  <2> SUFFICES ASSUME wire = {}, NEW res \in batch, res.klass = "ServiceGraph", res.flag # "pre"
               PROVE  {got[key]["connector_dns"] :
                          key \in {k \in DOMAIN got : k[1] = "ServiceGraphConnection"}}
                      = IF Named(res) = <<>> THEN {}
                        ELSE {{Path(Named(res))[2 * i - 1], Path(Named(res))[2 * i]} :
                                 i \in 1..(Len(Named(res)) + 1)}
    BY DEF ChainConnected
  <2> DEFINE Both(i) == {PrevConn(Named(res), i), NextConn(Named(res), i)}
             keys == {k \in DOMAIN got : k[1] = "ServiceGraphConnection"}
  <2>1. /\ \A x \in batch : x.klass = "ServiceGraph" /\ NodesOK(Named(x))
        /\ \A x, y \in batch : x = y \/ Named(x) = <<>>
    BY <1>1 DEF BatchOK
  <2>2. \A s : s \in Sources(batch) <=> \E x \in batch : s = x \/ s \in Generated(x)
    BY DEF Sources
  <2>3. ASSUME NEW i \in ConnectionsOf(res)
        PROVE  /\ Key(ConnectionOf(res, i)) \in keys
               /\ got[Key(ConnectionOf(res, i))]["connector_dns"] = Both(i)
    <3>1. ConnectionOf(res, i) \in Sources(batch)
      BY <2>2, GeneratedConnections
    <3>2. Key(ConnectionOf(res, i))[1] = "ServiceGraphConnection"
      BY GivenIs DEF Key, ConnectionOf
    <3> QED BY <1>1, <3>1, <3>2, ConnectionRead
  <2>4. ASSUME NEW key \in keys
        PROVE  \E i \in ConnectionsOf(res) : key = Key(ConnectionOf(res, i))
    <3>1. PICK s \in Sources(batch) : Key(s) = key
      BY <1>1 DEF ConversionInv, ReadOK
    <3>2. s.klass = "ServiceGraphConnection"
      BY <3>1 DEF Key
    <3>3. PICK y \in batch : s \in Generated(y)
      BY <2>1, <2>2, <3>2
    <3>4. y.flag # "pre"
      BY <3>3 DEF Generated
    <3>5. PICK i \in ConnectionsOf(y) : s = ConnectionOf(y, i)
      BY <2>1, <3>2, <3>3, <3>4, GeneratedConnections
    <3>6. y = res
      BY <2>1, <3>5 DEF ConnectionsOf
    <3> QED BY <3>1, <3>5, <3>6
  <2> HIDE DEF keys
  <2>5. {got[key]["connector_dns"] : key \in keys} = {Both(i) : i \in ConnectionsOf(res)}
    <3> HIDE DEF Both
    <3> QED BY <2>3, <2>4
  <2>6. CASE Named(res) = <<>>
    BY <2>5, <2>6 DEF ConnectionsOf, keys
  <2>7. CASE Named(res) # <<>>
    <3>1. ConnectionsOf(res) = 1..(Len(Named(res)) + 1)
      BY <2>7 DEF ConnectionsOf
    <3>2. Len(Named(res)) \in 0..3
      BY <2>1 DEF NodesOK
    <3>3. \A i \in ConnectionsOf(res) :
             Both(i) = {Path(Named(res))[2 * i - 1], Path(Named(res))[2 * i]}
      BY <3>1, <3>2, PathStep
    <3>4. {Both(i) : i \in ConnectionsOf(res)}
             = {{Path(Named(res))[2 * i - 1], Path(Named(res))[2 * i]} : i \in ConnectionsOf(res)}
      <4> HIDE DEF Both
      <4> QED BY <3>3
    <3> QED BY <2>5, <2>7, <3>1, <3>4 DEF keys
  <2> QED BY <2>6, <2>7
<1> QED BY <1>1, ConversionInvAlways, BatchAlways, PTL

-----------------------------------------------------------------------------
(* Where entries come from.                                                *)

\* Every entry of a resource that is read was in one of the objects of that resource.
FromOK ==
    \A res \in Sources(batch) : Key(res) \in DOMAIN got =>
        \A a \in AttrsOf(res.klass) : \A e \in got[Key(res)][a] : ReadFrom(res, a, e)

\* Nothing is read at first.
LEMMA FromStarts == ConversionInit => FromOK
<1>1. ConversionInit => DOMAIN got = {}
  BY DEF ConversionInit, Empty
<1> QED BY <1>1 DEF FromOK

\* Reading an object adds or replaces what is in that object.
LEMMA FromStep ==
    ASSUME ConversionInv, FromOK, [ConversionNext]_conversionVars
    PROVE  FromOK'
<1>1. CASE UNCHANGED conversionVars
  <2>1. batch' = batch /\ got' = got
    BY <1>1 DEF conversionVars
  <2> QED BY <2>1 DEF FromOK
<1>2. CASE ConversionNext
  <2>1. PICK o \in wire : Convert(o)
    BY <1>2 DEF ConversionNext, Convert
  <2>2. batch' = batch
    BY <2>1 DEF Convert
  <2>3. PICK res \in Sources(batch) : \E r \in Rules : IsObjectOf(o, r, res)
    BY <2>1, ObjectsHaveRules DEF ConversionInv
  <2>4. PICK r \in Rules : IsObjectOf(o, r, res)
    BY <2>3
  <2> DEFINE key == Key(res)
             was == IF key \in DOMAIN got THEN got[key] ELSE Default(res.klass)
  <2>5. /\ DOMAIN got' = DOMAIN got \cup {key}
        /\ \A k \in DOMAIN got \ {key} : got'[k] = got[k]
        /\ got'[key] = Merge(r, was, Read(o))
    BY <2>1, <2>4, SquashIs
  <2>6. DOMAIN was = AttrsOf(res.klass)
    <3>1. CASE key \in DOMAIN got
      <4>1. PICK x \in Sources(batch) : Key(x) = key /\ DOMAIN got[key] = AttrsOf(x.klass)
        BY <3>1 DEF ConversionInv, ReadOK
      <4>2. x = res
        BY <4>1, OneSource DEF ConversionInv
      <4> QED BY <3>1, <4>1, <4>2
    <3>2. CASE key \notin DOMAIN got
      BY <3>2, DefaultSent
    <3> QED BY <3>1, <3>2
  <2>7. ASSUME NEW a \in AttrsOf(res.klass), NEW e \in was[a] PROVE ReadFrom(res, a, e)
    <3>1. CASE key \in DOMAIN got
      BY <2>7, <3>1 DEF FromOK
    <3>2. CASE key \notin DOMAIN got
      BY <2>7, <3>2 DEF Default
    <3> QED BY <3>1, <3>2
  <2> HIDE DEF was
  <2>8. ASSUME NEW a \in AttrsOf(res.klass), NEW e \in got'[key][a] PROVE ReadFrom(res, a, e)
    <3>1. \/ e \in was[a]
          \/ a \in DOMAIN Read(o) /\ e \in Read(o)[a]
      BY <2>5, <2>6, <2>8, MergeIs
    <3>2. CASE e \in was[a]
      BY <2>7, <3>2
    <3>3. CASE a \in DOMAIN Read(o) /\ e \in Read(o)[a]
      BY <2>4, <3>3 DEF ReadFrom
    <3> QED BY <3>1, <3>2, <3>3
  <2>9. ASSUME NEW x \in Sources(batch), Key(x) \in DOMAIN got',
               NEW a \in AttrsOf(x.klass), NEW e \in got'[Key(x)][a]
        PROVE  ReadFrom(x, a, e)
    <3>1. CASE Key(x) = key
      <4>1. x = res
        BY <3>1, OneSource DEF ConversionInv
      <4> QED BY <2>8, <2>9, <4>1
    <3>2. CASE Key(x) # key
      BY <2>5, <2>9, <3>2 DEF FromOK
    <3> QED BY <3>1, <3>2
  <2> QED BY <2>2, <2>9 DEF FromOK
<1> QED BY <1>1, <1>2

\* It holds in every state.
LEMMA FromAlways == TwinsApart /\ ConversionSpec => []FromOK
BY FromStarts, FromStep, ConversionInvAlways, PTL DEF ConversionSpec

\* What an object was read of: the rule that sent it was in use.
LEMMA ReadFromInUse ==
    ASSUME NEW b, SourcesOK(b), NEW res \in Sources(b), NEW a, NEW e, ReadFrom(res, a, e),
           a \notin VmmLists \cup PhysicalLists
    PROVE  /\ e \in Filled(res).val[a] /\ a \in Carried(res.klass, SetAttrs(res))
<1> DEFINE v == Filled(res).val
           k == res.klass
<1>1. PICK o, r : r \in Rules /\ IsObjectOf(o, r, res) /\ a \in DOMAIN Read(o) /\ e \in Read(o)[a]
  BY DEF ReadFrom
<1>2. r.klass = k /\ o.val \in Payloads(r, v) /\ r \in RulesOf(k)
  BY <1>1, RuleIsFound DEF RulesOf
<1>3. PICK p : p = o.val
  OBVIOUS
<1>4. a \in DOMAIN p /\ e \in p[a]
  BY <1>1, <1>3 DEF Read
<1>5. DOMAIN v = AttrsOf(k)
  BY FilledSame DEF SourcesOK
<1>6. p \in Payloads(r, v) /\ a \in r.attrs
  BY <1>1, <1>2, <1>3, <1>4, PayloadIs
<1>7. e \in v[a]
  <2>1. CASE r.kind \notin ListKinds
    BY <1>1, <1>4, <1>6, <2>1, PayloadIs
  <2>2. CASE r.kind \in ListKinds
    <3>1. PICK x \in UNION {v[c] : c \in r.attrs} : p = [c \in r.attrs |-> {x}]
      <4>1. OneEntry(r, v, p)
        BY <1>1, <1>6, <2>2, PayloadIs
      <4> QED BY <4>1 DEF OneEntry
    <3>2. r.kind # "domains"
      BY <1>1, <1>6, RulesAssumption
    <3>3. r.attrs = {a}
      BY <1>1, <1>6, <2>2, <3>2, RulesAssumption DEF ListKinds
    <3> QED BY <1>4, <3>1, <3>3
  <2> QED BY <2>1, <2>2
<1>8. a \in SetAttrs(res)
  BY <1>2, <1>6, <1>7, AttrsOfRule DEF SetAttrs
<1>9. Due(r, v) \/ (r.when = {} /\ r.unless = {})
  <2>1. r.kind \in ListKinds \cup {"object", "reference"}
    BY <1>1, <1>6, RulesAssumption
  <2>2. CASE r.kind = "object"
    BY <1>6, <2>2 DEF Payloads, ObjectPayload
  <2>3. CASE r.kind = "each"
    BY <1>6, <2>3 DEF Payloads, EachPayload
  <2>4. CASE r.kind \in {"reference", "domains", "items"}
    BY <1>1, <2>4, RulesAssumption
  <2> QED BY <2>1, <2>2, <2>3, <2>4 DEF ListKinds
<1>10. DueSet(r, SetAttrs(res))
  <2>1. r.when \cup r.unless \subseteq AttrsOf(k)
    BY <1>2, MapsAssumption DEF Converted, RulesOf
  <2> QED BY <1>9, <2>1 DEF Due, DueSet, SetAttrs
<1>11. r.kind = "reference" => r.attrs \subseteq SetAttrs(res)
  <2> SUFFICES ASSUME r.kind = "reference" PROVE r.attrs \subseteq SetAttrs(res)
    OBVIOUS
  <2>1. p # Empty
    BY <1>4 DEF Empty
  <2>2. \A c \in r.attrs : v[c] # {}
    BY <1>6, <2>1 DEF Payloads, ReferencePayload
  <2> QED BY <1>2, <2>2, AttrsOfRule DEF SetAttrs
<1>12. r \in InUse(k, SetAttrs(res))
  BY <1>2, <1>10, <1>11 DEF InUse
<1> QED BY <1>6, <1>7, <1>8, <1>12 DEF Carried

\* A domain that is read is in one of the lists.
LEMMA ReadFromDomains ==
    ASSUME NEW b, SourcesOK(b), NEW res \in Sources(b), NEW lists \in {VmmLists, PhysicalLists},
           NEW a \in lists, NEW e, ReadFrom(res, a, e)
    PROVE  e \in UNION {Filled(res).val[c] : c \in lists}
<1> DEFINE v == Filled(res).val
<1>1. PICK o, r : r \in Rules /\ IsObjectOf(o, r, res) /\ a \in DOMAIN Read(o) /\ e \in Read(o)[a]
  BY DEF ReadFrom
<1>2. o.val \in Payloads(r, v)
  BY <1>1, RuleIsFound
<1>3. PICK p : p = o.val
  OBVIOUS
<1>4. a \in DOMAIN p /\ e \in p[a]
  BY <1>1, <1>3 DEF Read
<1>5. p \in Payloads(r, v) /\ a \in r.attrs
  BY <1>1, <1>2, <1>3, <1>4, PayloadIs
<1>6. r.kind = "domains"
  BY <1>1, <1>5, RulesAssumption
<1>7. r.attrs = lists
  <2>1. r.attrs \in {VmmLists, PhysicalLists}
    BY <1>1, <1>6, RulesAssumption
  <2> QED BY <1>5, <2>1 DEF VmmLists, PhysicalLists
<1>8. PICK x \in UNION {v[c] : c \in r.attrs} : p = [c \in r.attrs |-> {x}]
  <2>1. r.kind \in ListKinds
    BY <1>6 DEF ListKinds
  <2>2. OneEntry(r, v, p)
    BY <1>1, <1>5, <2>1, PayloadIs
  <2> QED BY <2>2 DEF OneEntry
<1> QED BY <1>4, <1>7, <1>8

-----------------------------------------------------------------------------
(* Converting again what was read.                                         *)

\* Of the attributes that are no domains, what is read is what was carried.
LEMMA ReadIsCarried ==
    ASSUME ConversionInv, BatchOK, FromOK, wire = {}, NEW res \in Sources(batch),
           res.flag = "managed", Key(res) \in DOMAIN got, NEW a \in AttrsOf(res.klass),
           a \notin VmmLists \cup PhysicalLists
    PROVE  /\ a \in Carried(res.klass, SetAttrs(res)) =>
                 got[Key(res)][a] = Filled(res).val[a] /\ Filled(res).val[a] # {}
           /\ a \notin Carried(res.klass, SetAttrs(res)) => got[Key(res)][a] = {}
<1>1. SourcesOK(batch) /\ ItemsHaveParts(res)
  BY SourceParts DEF ConversionInv
<1>2. ASSUME NEW e \in got[Key(res)][a]
      PROVE  e \in Filled(res).val[a] /\ a \in Carried(res.klass, SetAttrs(res))
  <2>1. ReadFrom(res, a, e)
    BY <1>2 DEF FromOK
  <2> QED BY <1>1, <2>1, ReadFromInUse
<1>3. ASSUME a \in Carried(res.klass, SetAttrs(res)), NEW e \in Filled(res).val[a]
      PROVE  e \in got[Key(res)][a]
  <2>1. PICK r \in InUse(res.klass, SetAttrs(res)) : a \in r.attrs
    BY <1>3 DEF Carried
  <2>2. ReadFrom(res, a, e)
    BY <1>1, <1>3, <2>1, InUseCarries
  <2>3. PICK o, q : q \in Rules /\ IsObjectOf(o, q, res) /\ a \in DOMAIN Read(o) /\ e \in Read(o)[a]
    BY <2>2 DEF ReadFrom
  <2> QED BY <2>3, AllIsRead
<1>4. a \in Carried(res.klass, SetAttrs(res)) => Filled(res).val[a] # {}
  BY DEF Carried, SetAttrs
<1> QED BY <1>2, <1>3, <1>4

\* The same rules apply to what is read.
LEMMA SameDue ==
    ASSUME ConversionInv, BatchOK, FromOK, wire = {}, NEW res \in Sources(batch),
           res.flag = "managed", Key(res) \in DOMAIN got, NEW r \in RulesOf(res.klass)
    PROVE  /\ Due(r, got[Key(res)]) <=> Due(r, Filled(res).val)
           /\ Due(r, Filled(res).val) <=> DueSet(r, SetAttrs(res))
<1> DEFINE w == got[Key(res)]
           v == Filled(res).val
           k == res.klass
           set == SetAttrs(res)
           carried == Carried(k, set)
<1>1. k \in Converted /\ r \in Rules
  BY DEF Converted, RulesOf
<1>2. r.when \cup r.unless \subseteq AttrsOf(k)
  BY <1>1, MapsAssumption
<1>3. (r.when \cup r.unless) \cap (VmmLists \cup PhysicalLists) = {}
  BY <1>1, RulesAssumption
<1>4. \A a \in r.when \cup r.unless : (w[a] # {} <=> a \in carried)
  BY <1>2, <1>3, ReadIsCarried
<1>5. \A a \in r.when \cup r.unless : (v[a] # {} <=> a \in set)
  BY <1>2 DEF SetAttrs
<1>6. set \in SUBSET AttrsOf(k)
  BY DEF SetAttrs
<1> HIDE DEF w, v, set
<1>7. DueSet(r, set) <=> DueSet(r, carried)
  BY <1>1, <1>6, MapsAssumption
<1> HIDE DEF carried
<1>8. Due(r, w) <=> DueSet(r, carried)
  BY <1>4 DEF Due, DueSet
<1>9. Due(r, v) <=> DueSet(r, set)
  BY <1>5 DEF Due, DueSet
<1> QED BY <1>7, <1>8, <1>9 DEF w, v, set

\* Lists that are sent are read again with the same entries.
LEMMA SameEntries ==
    ASSUME ConversionInv, BatchOK, FromOK, wire = {}, NEW res \in Sources(batch),
           res.flag = "managed", Key(res) \in DOMAIN got, NEW r \in RulesOf(res.klass),
           r.kind \in ListKinds, Due(r, Filled(res).val)
    PROVE  UNION {got[Key(res)][a] : a \in r.attrs} = UNION {Filled(res).val[a] : a \in r.attrs}
<1> DEFINE w == got[Key(res)]
           v == Filled(res).val
           k == res.klass
<1>1. r \in Rules /\ r.klass = k /\ r.attrs \subseteq AttrsOf(k)
  BY AttrsOfRule DEF RulesOf
<1>2. CASE r.kind = "domains"
  <2>1. PICK lists \in {VmmLists, PhysicalLists} : r.attrs = lists
    BY <1>1, <1>2, RulesAssumption
  <2>2. ASSUME NEW a \in lists, NEW e \in w[a] PROVE e \in UNION {v[c] : c \in lists}
    <3>1. ReadFrom(res, a, e)
      BY <1>1, <2>1, <2>2 DEF FromOK
    <3> QED BY <2>1, <3>1, ReadFromDomains DEF ConversionInv
  <2>3. PICK a \in lists : a # "openstack_vmm_domain_names"
    BY DEF VmmLists, PhysicalLists
  <2>4. ASSUME NEW c \in lists, NEW e \in v[c] PROVE e \in w[a]
    <3>1. ReadFrom(res, a, e)
      BY <2>1, <2>3, <2>4, DomainCarries DEF ConversionInv
    <3>2. PICK o, q : q \in Rules /\ IsObjectOf(o, q, res) /\ a \in DOMAIN Read(o) /\ e \in Read(o)[a]
      BY <3>1 DEF ReadFrom
    <3> QED BY <3>2, AllIsRead
  <2> HIDE DEF w, v
  <2>5. UNION {w[c] : c \in r.attrs} = UNION {v[c] : c \in r.attrs}
    BY <2>1, <2>2, <2>4
  <2> QED BY <2>5 DEF w, v
<1>3. CASE r.kind \in {"each", "items"}
  <2>1. PICK a \in r.attrs : r.attrs = {a}
    BY <1>1, <1>3, RulesAssumption
  <2>2. a \in AttrsOf(k) /\ a \notin VmmLists \cup PhysicalLists
    BY <1>1, <1>3, RulesAssumption
  <2>3. w[a] = v[a]
    <3>1. CASE v[a] = {}
      <4>1. a \notin Carried(k, SetAttrs(res))
        BY <3>1 DEF Carried, SetAttrs
      <4> QED BY <2>2, <3>1, <4>1, ReadIsCarried
    <3>2. CASE v[a] # {}
      <4>1. a \in SetAttrs(res)
        BY <2>2, <3>2 DEF SetAttrs
      <4>2. DueSet(r, SetAttrs(res))
        BY SameDue
      <4>3. a \in Carried(k, SetAttrs(res))
        BY <1>3, <4>1, <4>2 DEF Carried, InUse
      <4> QED BY <2>2, <4>3, ReadIsCarried
    <3> QED BY <3>1, <3>2
  <2> HIDE DEF w, v
  <2>4. UNION {w[c] : c \in r.attrs} = UNION {v[c] : c \in r.attrs}
    BY <2>1, <2>3
  <2> QED BY <2>4 DEF w, v
<1> QED BY <1>2, <1>3 DEF ListKinds

\* Objects carry what is read as they carried what was converted.
LEMMA SamePayloads ==
    ASSUME ConversionInv, BatchOK, FromOK, wire = {}, NEW res \in Sources(batch),
           res.flag = "managed", Key(res) \in DOMAIN got, NEW r \in RulesOf(res.klass)
    PROVE  Payloads(r, got[Key(res)]) = Payloads(r, Filled(res).val)
<1> DEFINE w == got[Key(res)]
           v == Filled(res).val
           k == res.klass
           set == SetAttrs(res)
<1>1. r \in Rules /\ r.klass = k /\ r.attrs \subseteq AttrsOf(k) /\ k \in Converted
  BY AttrsOfRule DEF RulesOf, Converted
<1>2. (Due(r, w) <=> Due(r, v)) /\ (Due(r, v) <=> DueSet(r, set))
  BY SameDue
<1>3. set \in SUBSET AttrsOf(k)
  BY DEF SetAttrs
<1>4. ASSUME NEW a \in AttrsOf(k), a \notin VmmLists \cup PhysicalLists
      PROVE  /\ a \in Carried(k, set) => w[a] = v[a] /\ v[a] # {}
             /\ a \notin Carried(k, set) => w[a] = {}
             /\ a \in set <=> v[a] # {}
  BY <1>4, ReadIsCarried DEF SetAttrs
<1>5. r.kind # "domains" => r.attrs \cap (VmmLists \cup PhysicalLists) = {}
  BY <1>1, RulesAssumption
<1>6. r.kind \in ListKinds /\ Due(r, v) =>
         UNION {w[a] : a \in r.attrs} = UNION {v[a] : a \in r.attrs}
  BY SameEntries
<1> HIDE DEF w, v, set
<1>7. CASE r.kind = "object"
  <2>1. CASE Due(r, v)
    <3>1. r \in InUse(k, set)
      BY <1>2, <1>7, <2>1 DEF InUse
    <3>2. ASSUME NEW a \in r.attrs PROVE w[a] = v[a]
      <4>1. a \in AttrsOf(k) /\ a \notin VmmLists \cup PhysicalLists
        BY <1>1, <1>5, <1>7
      <4>2. a \in set => a \in Carried(k, set)
        BY <3>1 DEF Carried
      <4>3. a \notin set => a \notin Carried(k, set)
        BY DEF Carried
      <4> QED BY <1>4, <4>1, <4>2, <4>3
    <3>3. Whole(r, w) = Whole(r, v)
      BY <3>2 DEF Whole
    <3>4. ObjectPayload(r, w) = ObjectPayload(r, v)
      BY <1>2, <3>3 DEF ObjectPayload
    <3> QED BY <1>7, <3>4 DEF Payloads, w, v
  <2>2. CASE ~Due(r, v)
    <3>1. ObjectPayload(r, w) = {} /\ ObjectPayload(r, v) = {}
      BY <1>2, <2>2 DEF ObjectPayload
    <3> QED BY <1>7, <3>1 DEF Payloads, w, v
  <2> QED BY <2>1, <2>2
<1>8. CASE r.kind \in ListKinds
  <2>1. EachPayload(r, w) = EachPayload(r, v)
    <3>1. CASE Due(r, v)
      BY <1>2, <1>6, <1>8, <3>1 DEF EachPayload
    <3>2. CASE ~Due(r, v)
      BY <1>2, <3>2 DEF EachPayload
    <3> QED BY <3>1, <3>2
  <2>2. ItemPayload(r, w) = ItemPayload(r, v) /\ DomainPayload(r, w) = DomainPayload(r, v)
    BY <2>1 DEF ItemPayload, DomainPayload
  <2>3. Payloads(r, w) = Payloads(r, v)
    <3>1. CASE r.kind = "each"
      BY <2>1, <3>1 DEF Payloads
    <3>2. CASE r.kind = "items"
      BY <2>2, <3>2 DEF Payloads
    <3>3. CASE r.kind = "domains"
      BY <2>2, <3>3 DEF Payloads
    <3> QED BY <1>8, <3>1, <3>2, <3>3 DEF ListKinds
  <2> QED BY <2>3 DEF w, v
<1>9. CASE r.kind = "reference"
  <2>1. \A a \in r.attrs : a \in AttrsOf(k) /\ a \notin VmmLists \cup PhysicalLists
    BY <1>1, <1>5, <1>9
  <2>2. CASE r.attrs \subseteq set
    <3>1. r.attrs \subseteq Carried(k, set)
      BY <1>1, <1>3, <1>9, <2>2, MapsAssumption
    <3>2. \A a \in r.attrs : w[a] = v[a] /\ v[a] # {}
      BY <1>4, <2>1, <3>1
    <3>3. Whole(r, w) = Whole(r, v)
      BY <3>2 DEF Whole
    <3>4. ReferencePayload(r, w) = ReferencePayload(r, v)
      BY <3>2, <3>3 DEF ReferencePayload
    <3> QED BY <1>9, <3>4 DEF Payloads, w, v
  <2>3. CASE ~(r.attrs \subseteq set)
    <3>1. PICK a \in r.attrs : a \notin set
      BY <2>3
    <3>2. a \notin Carried(k, set)
      BY <3>1 DEF Carried
    <3>3. w[a] = {} /\ v[a] = {}
      BY <1>4, <2>1, <3>1, <3>2
    <3>4. ReferencePayload(r, w) = {Empty} /\ ReferencePayload(r, v) = {Empty}
      BY <3>1, <3>3 DEF ReferencePayload
    <3> QED BY <1>9, <3>4 DEF Payloads, w, v
  <2> QED BY <2>2, <2>3
<1>10. CASE r.kind = "container"
  <2>1. \A a \in r.when : a \in AttrsOf(k) /\ a \notin VmmLists \cup PhysicalLists
    BY <1>1, MapsAssumption, RulesAssumption
  <2>2. r.when \cap set # {} <=> r.when \cap Carried(k, set) # {}
    <3>1. Carried(k, set) \subseteq set
      BY DEF Carried
    <3>2. r.when \cap set # {} => r.when \cap Carried(k, set) # {}
      BY <1>1, <1>3, <1>10, MapsAssumption
    <3> QED BY <3>1, <3>2
  <2>3. (\E a \in r.when : w[a] # {}) <=> (\E a \in r.when : v[a] # {})
    BY <1>4, <2>1, <2>2
  <2>4. ContainerPayload(r, w) = ContainerPayload(r, v)
    BY <2>3 DEF ContainerPayload
  <2> QED BY <1>10, <2>4 DEF Payloads, w, v
<1>11. CASE r.kind = "terminal"
  <2>1. Payloads(r, w) = {Empty} /\ Payloads(r, v) = {Empty}
    BY <1>11 DEF Payloads
  <2> QED BY <2>1 DEF w, v
<1> QED BY <1>1, <1>7, <1>8, <1>9, <1>10, <1>11, RulesAssumption

-----------------------------------------------------------------------------
(* The objects of what was read.                                           *)

\* The resource that is read with a key
Back(key) == [klass |-> key[1], owner |-> key[2], name |-> key[3], flag |-> "managed",
              val |-> got[key]]

\* What is read generates nothing: the attributes that would are not sent.
LEMMA BackGenerates ==
    ASSUME ConversionInv, NEW res \in Sources(batch), Key(res) \in DOMAIN got
    PROVE  Generated(Back(Key(res))) = {}
<1> DEFINE k == res.klass
<1>1. PICK back : back = Back(Key(res))
  OBVIOUS
<1>2. back.klass = k /\ back.flag = "managed" /\ back.val = got[Key(res)]
  BY <1>1 DEF Back, Key
<1>3. /\ k \in Converted /\ DOMAIN got[Key(res)] = AttrsOf(k)
      /\ \A a \in AttrsOf(k) : got[Key(res)][a] \subseteq Sent(res, a)
  <2>1. PICK x \in Sources(batch) :
           /\ Key(x) = Key(res) /\ x.klass \in Converted
           /\ DOMAIN got[Key(res)] = AttrsOf(x.klass)
           /\ \A a \in DOMAIN got[Key(res)] : got[Key(res)][a] \subseteq Sent(x, a)
    BY DEF ConversionInv, ReadOK
  <2>2. x = res
    BY <2>1, OneSource DEF ConversionInv
  <2> QED BY <2>1, <2>2
<1>4. ASSUME NEW a \in Unsent[k] PROVE back.val[a] = {}
  <2>1. a \in AttrsOf(k)
    BY DEF AttrsOf
  <2> QED BY <1>2, <1>3, <2>1 DEF Sent
<1>5. CASE k = "DeviceCluster"
  <2>1. "encap" \in Unsent[k] /\ "devices" \in Unsent[k]
    BY <1>3, <1>5 DEF Unsent
  <2>2. back.val["encap"] = {} /\ back.val["devices"] = {}
    BY <1>4, <2>1
  <2>3. DeviceResources(back) = {}
    BY <2>2 DEF DeviceResources
  <2> QED BY <1>1, <1>2, <1>5, <2>3 DEF Generated
<1>6. CASE k = "DeviceClusterContext"
  <2>1. "bridge_domain_name" \in Unsent[k]
    BY <1>3, <1>6 DEF Unsent
  <2>2. back.val["bridge_domain_name"] = {}
    BY <1>4, <2>1
  <2>3. ContextResources(back) = {}
    BY <2>2 DEF ContextResources
  <2> QED BY <1>1, <1>2, <1>6, <2>3 DEF Generated
<1>7. CASE k = "ServiceGraph"
  <2>1. "linear_chain_nodes" \in Unsent[k]
    BY <1>3, <1>7 DEF Unsent
  <2>2. Named(back) = <<>>
    BY <1>4, <2>1, ChainAssumption DEF Named
  <2>3. GraphResources(back) = {}
    BY <2>2 DEF GraphResources
  <2> QED BY <1>1, <1>2, <1>7, <2>3 DEF Generated
<1>8. CASE k \notin {"DeviceCluster", "DeviceClusterContext", "ServiceGraph"}
  BY <1>1, <1>2, <1>8 DEF Generated
<1> QED BY <1>5, <1>6, <1>7, <1>8

\* A reference to a cluster is read with its tenant, or not at all.
LEMMA BackFilled ==
    ASSUME ConversionInv, BatchOK, FromOK, wire = {}, NEW res \in Sources(batch),
           res.flag = "managed", Key(res) \in DOMAIN got
    PROVE  Filled(Back(Key(res))) = Back(Key(res))
<1>1. PICK back : back = Back(Key(res))
  OBVIOUS
<1>2. back.klass = res.klass /\ back.val = got[Key(res)]
  BY <1>1 DEF Back, Key
<1>3. CASE res.klass = "DeviceClusterContext"
  <2> DEFINE n == "device_cluster_name"
             t == "device_cluster_tenant_name"
             set == SetAttrs(res)
  <2>1. res.klass \in Converted /\ set \in SUBSET AttrsOf(res.klass)
    BY SourceParts DEF SetAttrs
  <2>2. n \in AttrsOf(res.klass) /\ t \in AttrsOf(res.klass)
    BY <1>3, MapsAssumption
  <2>3. n \notin VmmLists \cup PhysicalLists /\ t \notin VmmLists \cup PhysicalLists
    BY DEF VmmLists, PhysicalLists
  <2>4. n \in Carried(res.klass, set) => t \in Carried(res.klass, set)
    <3> HIDE DEF set
    <3> QED BY <1>3, <2>1, MapsAssumption
  <2>5. back.val[n] # {} => back.val[t] # {}
    BY <1>2, <2>2, <2>3, <2>4, ReadIsCarried
  <2> QED BY <1>1, <2>5 DEF Filled
<1>4. CASE res.klass # "DeviceClusterContext"
  BY <1>1, <1>2, <1>4 DEF Filled
<1> QED BY <1>3, <1>4

\* The objects of what is read are those that it was read of.
LEMMA SameObjects ==
    ASSUME ConversionInv, BatchOK, FromOK, wire = {}, NEW res \in Sources(batch),
           res.flag = "managed", Key(res) \in DOMAIN got
    PROVE  ObjectsOf(Back(Key(res))) = ObjectsOf(res)
<1>1. PICK back : back = Back(Key(res))
  OBVIOUS
<1>2. /\ back.klass = res.klass /\ back.owner = res.owner /\ back.name = res.name
      /\ back.flag = res.flag /\ back.val = got[Key(res)]
  BY <1>1 DEF Back, Key
<1>3. Filled(back).val = got[Key(res)]
  BY <1>1, <1>2, BackFilled
<1>4. {q \in Rules : Applies(q, back)} = RulesOf(res.klass)
  BY <1>2 DEF Applies, RulesOf
<1>5. {q \in Rules : Applies(q, res)} = RulesOf(res.klass)
  BY DEF Applies, RulesOf
<1>6. \A r \in RulesOf(res.klass) : Payloads(r, Filled(back).val) = Payloads(r, Filled(res).val)
  BY <1>3, SamePayloads
<1>7. ObjectsOf(back) =
         UNION {{[mo |-> r.mo, owner |-> res.owner, name |-> res.name, val |-> p]
                    : p \in Payloads(r, Filled(back).val)} : r \in RulesOf(res.klass)}
  BY <1>2, <1>4 DEF ObjectsOf
<1>8. ObjectsOf(res) =
         UNION {{[mo |-> r.mo, owner |-> res.owner, name |-> res.name, val |-> p]
                    : p \in Payloads(r, Filled(res).val)} : r \in RulesOf(res.klass)}
  BY <1>5 DEF ObjectsOf
<1> QED BY <1>1, <1>6, <1>7, <1>8

\* Stable, for any classes, any attributes, coherent or not, and any order of the list: a
\* resource that was read becomes the objects it was read of, so that the hash trees of
\* the two universes agree about it.
THEOREM ConversionIsStable == TwinsApart /\ ConversionSpec => []Stable
<1>1. ASSUME ConversionInv, BatchOK, FromOK PROVE Stable
  <2> SUFFICES ASSUME wire = {}, \A res \in batch : res.flag = "managed"
               PROVE  AimToAci({Back(key) : key \in DOMAIN got}) = AimToAci(batch)
    BY DEF Stable, Back
  <2> DEFINE backs == {Back(key) : key \in DOMAIN got}
  <2>1. ASSUME NEW res \in Sources(batch) PROVE res.flag = "managed"
    <3>1. PICK k \in Classes :
             \A x \in batch : x.klass = k /\ (k = "ServiceGraph" => NodesOK(Named(x)))
      BY <1>1 DEF BatchOK
    <3>2. PICK x \in batch : res = x \/ res \in Generated(x)
      BY DEF Sources
    <3> QED BY <3>1, <3>2, GeneratedIs
  <2>2. ASSUME NEW key \in DOMAIN got PROVE \E res \in Sources(batch) : Key(res) = key
    BY <1>1 DEF ConversionInv, ReadOK
  <2>3. ASSUME NEW s
        PROVE  s \in Sources(backs) <=>
                  \E res \in Sources(batch) : Key(res) \in DOMAIN got /\ s = Back(Key(res))
    <3>1. s \in Sources(backs) <=> \E x \in backs : s = x \/ s \in Generated(x)
      BY DEF Sources
    <3>2. \A x : x \in backs <=>
                    \E res \in Sources(batch) : Key(res) \in DOMAIN got /\ x = Back(Key(res))
      BY <2>2
    <3>3. \A x \in backs : Generated(x) = {}
      BY <1>1, <3>2, BackGenerates
    <3> QED BY <3>1, <3>2, <3>3
  <2> HIDE DEF backs
  <2>4. ASSUME NEW res \in Sources(batch), NEW o \in ObjectsOf(res) PROVE Key(res) \in DOMAIN got
    <3>1. PICK r \in Rules : IsObjectOf(o, r, res)
      BY <2>4 DEF ObjectsOf, IsObjectOf
    <3> QED BY <1>1, <3>1, AllIsRead
  <2>5. ASSUME NEW o PROVE o \in AimToAci(backs) <=> o \in AimToAci(batch)
    <3>1. o \in AimToAci(backs) <=> \E s \in Sources(backs) : o \in ObjectsOf(s)
      BY DEF AimToAci
    <3>2. o \in AimToAci(batch) <=> \E s \in Sources(batch) : o \in ObjectsOf(s)
      BY DEF AimToAci
    <3>3. \A res \in Sources(batch) :
             Key(res) \in DOMAIN got => ObjectsOf(Back(Key(res))) = ObjectsOf(res)
      BY <1>1, <2>1, SameObjects
    <3>4. ASSUME NEW s \in Sources(backs), o \in ObjectsOf(s)
          PROVE  \E x \in Sources(batch) : o \in ObjectsOf(x)
      BY <2>3, <3>3, <3>4
    <3>5. ASSUME NEW x \in Sources(batch), o \in ObjectsOf(x)
          PROVE  \E s \in Sources(backs) : o \in ObjectsOf(s)
      BY <2>3, <2>4, <3>3, <3>5
    <3> QED BY <3>1, <3>2, <3>4, <3>5
  <2> QED BY <2>5 DEF backs
<1> QED BY <1>1, ConversionInvAlways, BatchAlways, FromAlways, PTL
=============================================================================
