------------------------ MODULE TreeListener_proofs ------------------------
(***************************************************************************)
(* Theorems about TreeListener, for any objects, clients, agents and       *)
(* settings; and about ActionLogs, the logs of transactions with any       *)
(* number of objects, for any sessions and servers.                        *)
(***************************************************************************)
EXTENDS TreeListener, ActionLogs, FiniteSetTheorems, TLAPS

-----------------------------------------------------------------------------
(* The inductive invariant.                                                *)

\* The ids of the logs tell them apart and grow.
Ids ==
    /\ \A l \in log : l.id < nextId
    /\ \A l, m \in log : l.id = m.id => l = m
    /\ \A a \in Agents : atx[a].kind = "catchup" =>
          \A l \in atx[a].log : l.id < nextId

\* Logs and transactions are about the objects of the setting and belong to its
\* clients and agents.
Scope ==
    /\ \A l \in log : l.obj \in setting.objs
    /\ \A c \in Clients : ctx[c] # Idle =>
          /\ c \in setting.clients
          /\ ctx[c].obj \in setting.objs
          /\ ctx[c].kind = "delete" <=> ctx[c].val = Absent
    /\ \A a \in Agents : atx[a] # Idle => a \in setting.agents
    /\ \A a \in Agents : atx[a].kind = "cleanup" => a \in setting.cleaners

\* The epoch of the row of a rule never moves.
RuleRows ==
    /\ \A o \in SGRules : db[o].val # Absent => db[o].epoch = 1
    /\ \A c \in Clients :
          ctx[c] # Idle /\ ctx[c].obj \in SGRules /\ ctx[c].kind = "delete"
              => ctx[c].epoch = 1

\* Trees without rows are empty, and so are those that are being deleted.
Rootless ==
    /\ typed.exists \/ typed.content = EmptyContent
    /\ \A a \in Agents : atx[a].kind = "cleanup" => atx[a].typed.content = EmptyContent

Open == {c \in setting.clients : ctx[c] # Idle}

\* Below the threshold nobody ever counts too many logs.
Quiet ==
    NeverFull =>
        /\ ~Resetting(log)
        /\ \A c \in Clients : ctx[c] # Idle => ~ctx[c].resetting /\ ~ctx[c].full
        /\ Cardinality(log) < nextId
        /\ nextId + Cardinality(Open) <= writes + 1

\* A single agent finds the trees as it has read them.
Same ==
    Alone =>
        /\ typed.exists => base.exists
        /\ \A a \in Agents : atx[a] # Idle =>
              /\ atx[a].typed = typed
              /\ atx[a].base.exists = base.exists

\* The logs about an object that _preprocess_logs does not contradict.
Pending(o, L, rows) == {l \in L : l.obj = o /\ Usable(l, rows)}

\* What has happened since a snapshot was taken is in the logs written since.
Fresh(s, L, rows) ==
    /\ s.log \subseteq L
    /\ \A l \in s.log, m \in L \ s.log : l.id < m.id
    /\ \A o \in Objs :
          Pending(o, L \ s.log, rows) = {} => rows[o].val = s.db[o].val

\* A snapshot that can still be committed is fresh.
Current ==
    NeverFull =>
        /\ Alone => \A a \in Agents : atx[a].kind = "catchup" => Fresh(atx[a], log, db)
        /\ Steady =>
              /\ typed.exists
              /\ \A a \in Agents : atx[a].kind = "catchup" =>
                    /\ atx[a].typed.exists
                    /\ atx[a].typed.epoch <= typed.epoch
                    /\ atx[a].typed.epoch = typed.epoch =>
                          atx[a].typed = typed /\ Fresh(atx[a], log, db)

\* The last usable log of an object, or else the tree, has its value.
Settles(o, content, L, rows) ==
    \/ Pending(o, L, rows) = {} /\ content[o] = TreeVal(rows[o].val)
    \/ \E l \in Pending(o, L, rows) :
          /\ \A m \in Pending(o, L, rows) : m.id <= l.id
          /\ Built(l, rows) = TreeVal(rows[o].val)

AllSettle ==
    Sheltered => \A o \in Objs \ missed : Settles(o, typed.content, log, db)

IInv ==
    /\ TypeOK /\ Ids /\ Scope /\ RuleRows /\ Rootless
    /\ Quiet /\ Same /\ Current /\ AllSettle /\ IsFiniteSet(log)

-----------------------------------------------------------------------------
(* The logs that decide.                                                   *)

\* The natural numbers are well founded.
LEMMA LeastNumber ==
    ASSUME NEW T \in SUBSET Nat, T # {}
    PROVE  \E x \in T : \A y \in T : x <= y
<1> DEFINE R == StrictSubsetOrdering(Nat)
           D == {0..x : x \in T}
<1>1. IsWellFoundedOn(R, FiniteSubsetsOf(Nat))
  BY FS_StrictSubsetOrderingWellFounded
<1>2. \A x \in Nat : 0..x \in FiniteSubsetsOf(Nat)
  BY FS_Interval DEF FiniteSubsetsOf
<1>3. D \subseteq FiniteSubsetsOf(Nat) /\ D # {}
  BY <1>2
<1>4. \A x, y \in Nat : y < x => <<0..y, 0..x>> \in R
  <2> SUFFICES ASSUME NEW x \in Nat, NEW y \in Nat, y < x
               PROVE  <<0..y, 0..x>> \in R
    OBVIOUS
  <2>1. /\ 0..y \subseteq 0..x /\ 0..x \subseteq Nat
        /\ x \in 0..x /\ x \notin 0..y
    OBVIOUS
  <2> QED  BY <2>1, Zenon DEF StrictSubsetOrdering
<1> HIDE DEF R, D
<1>5. \E X \in D : \A Y \in D : ~(<<Y, X>> \in R)
  BY <1>1, <1>3, WFMin
<1>6. PICK x \in T : \A y \in T : ~(<<0..y, 0..x>> \in R)
  BY <1>5 DEF D
<1>7. \A y \in T : ~(y < x)
  BY <1>4, <1>6
<1> QED  BY <1>7

\* Of logs whose ids are bounded one has the largest id.
LEMMA NewestExists ==
    ASSUME NEW L, L # {}, NEW n \in Nat, \A l \in L : l.id \in Nat /\ l.id < n
    PROVE  \E l \in L : \A m \in L : m.id <= l.id
<1> DEFINE T == {n - l.id : l \in L}
<1>1. T \in SUBSET Nat /\ T # {}
  OBVIOUS
<1>2. PICK x \in T : \A y \in T : x <= y
  BY <1>1, LeastNumber
<1>3. PICK l \in L : x = n - l.id
  BY <1>2
<1>4. \A m \in L : n - l.id <= n - m.id
  BY <1>2, <1>3
<1> QED  BY <1>4

\* Replayed logs give trees.
LEMMA ReplayIsContent ==
    ASSUME NEW content \in Content, NEW rows \in [Objs -> Row],
           NEW L \in SUBSET LogEntry, NEW n \in Nat, \A l \in L : l.id < n
    PROVE  Replay(content, L, rows) \in Content
<1> SUFFICES ASSUME NEW o \in Objs
             PROVE  Replay(content, L, rows)[o] \in Vals \cup {Absent}
  BY DEF Replay, Content
<1> DEFINE mine == {l \in Effective(L, rows) : l.obj = o}
           last == CHOOSE l \in mine : \A m \in mine : m.id <= l.id
<1>1. Replay(content, L, rows)[o] = IF mine = {} THEN content[o] ELSE Built(last, rows)
  BY DEF Replay
<1>2. mine \subseteq L
  BY DEF Effective
<1>3. CASE mine = {}
  BY <1>1, <1>3 DEF Content
<1>4. CASE mine # {}
  <2>1. \A l \in mine : l.id \in Nat /\ l.id < n
    BY <1>2 DEF LogEntry
  <2>2. \E l \in mine : \A m \in mine : m.id <= l.id
    BY <1>4, <2>1, NewestExists
  <2>3. last \in mine
    BY <2>2
  <2>4. last \in LogEntry
    BY <2>3, <1>2
  <2>5. Built(last, rows) \in Vals \cup {Absent}
    BY <2>4 DEF Built, TreeVal, LogEntry, Row
  <2> QED  BY <1>1, <1>4, <2>5
<1> QED  BY <1>3, <1>4

\* So do the objects.
LEMMA RecreateIsContent ==
    ASSUME NEW rows \in [Objs -> Row]
    PROVE  Recreate(rows) \in Content
BY DEF Recreate, Content, TreeVal, Row

-----------------------------------------------------------------------------
(* Types.                                                                  *)

LEMMA WriteType ==
    ASSUME TypeOK, NEW c \in Clients, ctx[c] # Idle
    PROVE  ctx[c] \in WriteTx
BY DEF TypeOK, ClientTx

LEMMA CatchUpType ==
    ASSUME TypeOK, NEW a \in Agents, atx[a].kind = "catchup"
    PROVE  atx[a] \in CatchUpTx
BY DEF TypeOK, AgentTx, Idle, CleanupTx

LEMMA CleanupType ==
    ASSUME TypeOK, NEW a \in Agents, atx[a].kind = "cleanup"
    PROVE  atx[a] \in CleanupTx
BY DEF TypeOK, AgentTx, Idle, CatchUpTx

LEMMA SettingType ==
    ASSUME TypeOK
    PROVE  /\ setting \in Setting /\ setting.cleaners \subseteq setting.agents
           /\ IsFiniteSet(setting.clients)
           /\ setting.clients \subseteq Clients /\ setting.objs \subseteq Objs
           /\ setting.vals \subseteq Vals /\ setting.agents \subseteq Agents
           /\ setting.maxEvents \in Nat \ {0} /\ setting.maxWrites \in Nat
           /\ setting.maxResets \in Nat
BY ListenerAssumption DEF TypeOK, Setting

\* What a transaction of a client writes.
LEMMA WrittenTypes ==
    ASSUME TypeOK, NEW t \in WriteTx
    PROVE  /\ RowAfter(t) \in Row
           /\ LogOf(t) \subseteq LogEntry
<1>1. t.obj \in Objs /\ t.val \in Vals \cup {Absent} /\ t.epoch \in Nat
      /\ t.kind \in {"create", "update", "delete"}
  BY DEF WriteTx
<1>2. db[t.obj] \in Row
  BY <1>1 DEF TypeOK
<1>3. /\ [val |-> t.val, epoch |-> 1] \in Row
      /\ [val |-> t.val, epoch |-> t.epoch + 1] \in Row
      /\ [db[t.obj] EXCEPT !.val = t.val] \in Row
      /\ NoRow \in Row
  BY <1>1, <1>2 DEF Row, NoRow
<1>4. RowAfter(t) \in Row
  BY <1>1, <1>2, <1>3, Zenon DEF RowAfter
<1>5. \A x \in Actions : [id |-> nextId, action |-> x, obj |-> t.obj, val |-> t.val]
                             \in LogEntry
  BY <1>1 DEF LogEntry, TypeOK
<1>6. LogOf(t) \subseteq LogEntry
  BY <1>5 DEF LogOf, Actions
<1> QED  BY <1>4, <1>6

\* What a catch-up computes from its snapshot.
LEMMA ComputedTypes ==
    ASSUME TypeOK, NEW s \in CatchUpTx, \A l \in s.log : l.id < nextId
    PROVE  /\ NewContent(s) \in Content
           /\ BaseWrite(s) # Keep => BaseWrite(s) \in BaseRow
           /\ TypedWrite(s) # Keep => TypedWrite(s) \in TypedRow
<1>1. /\ s.log \in SUBSET LogEntry /\ s.db \in [Objs -> Row]
      /\ s.base \in BaseRow /\ s.typed \in TypedRow
  BY DEF CatchUpTx
<1>2. s.typed.content \in Content
  BY <1>1 DEF TypedRow
<1>3. Replayed(s) \in SUBSET LogEntry /\ \A l \in Replayed(s) : l.id < nextId
  BY <1>1 DEF Replayed
<1>4. NewContent(s) \in Content
  BY <1>1, <1>2, <1>3, ReplayIsContent, RecreateIsContent DEF NewContent, TypeOK
<1> DEFINE nb == s.base.epoch + 1
           nt == s.typed.epoch + 1
<1>0. nb \in Nat /\ nt \in Nat
  BY <1>1 DEF BaseRow, TypedRow
<1> HIDE DEF nb, nt
<1>5. [s.base EXCEPT !.reset = FALSE, !.epoch = @ + 1] \in BaseRow
  <2>1. [s.base EXCEPT !.reset = FALSE, !.epoch = nb] \in BaseRow
    BY <1>0, <1>1, Zenon DEF BaseRow
  <2> QED  BY <2>1 DEF nb
<1>6. [exists |-> TRUE, reset |-> FALSE, epoch |-> 1] \in BaseRow
  BY DEF BaseRow
<1>7. [s.typed EXCEPT !.content = NewContent(s), !.epoch = @ + 1] \in TypedRow
  <2>1. [s.typed EXCEPT !.content = NewContent(s), !.epoch = nt] \in TypedRow
    BY <1>0, <1>1, <1>4, Zenon DEF TypedRow
  <2> QED  BY <2>1 DEF nt
<1>8. [exists |-> TRUE, content |-> NewContent(s), epoch |-> 1] \in TypedRow
  BY <1>4 DEF TypedRow
<1> QED  BY <1>4, <1>5, <1>6, <1>7, <1>8 DEF BaseWrite, TypedWrite

\* A step of a client changes no transaction but its own.
LEMMA BeginWriteType ==
    ASSUME TypeOK, NEW c \in setting.clients, NEW kind \in {"create", "update", "delete"},
           NEW o \in setting.objs, NEW v \in setting.vals \cup {Absent},
           BeginWrite(c, kind, o, v)
    PROVE  /\ TypeOK' /\ c \in Clients /\ o \in Objs
           /\ ctx'[c] \in WriteTx
           /\ ctx'[c].kind = kind /\ ctx'[c].obj = o /\ ctx'[c].val = v
           /\ ctx'[c].epoch = db[o].epoch
           /\ ctx'[c].resetting = Resetting(log)
           /\ ctx'[c].full = (Cardinality(log) >= setting.maxEvents)
           /\ ctx'[c] # Idle
           /\ \A d \in Clients \ {c} : ctx'[d] = ctx[d]
<1> DEFINE full == Cardinality(log) >= setting.maxEvents
           t == [kind |-> kind, obj |-> o, val |-> v, epoch |-> db[o].epoch,
                 resetting |-> Resetting(log), full |-> full]
<1>1. c \in Clients /\ o \in Objs /\ v \in Vals \cup {Absent}
  BY SettingType
<1>2. full \in BOOLEAN /\ Resetting(log) \in BOOLEAN /\ db[o].epoch \in Nat
  BY <1>1 DEF TypeOK, Row, Resetting
<1>3. ctx' = [ctx EXCEPT ![c] = t]
  BY DEF BeginWrite
<1>4. /\ t.kind = kind /\ t.obj = o /\ t.val = v /\ t.epoch = db[o].epoch
      /\ t.resetting = Resetting(log) /\ t.full = full
  OBVIOUS
<1> HIDE DEF full
<1>5. t \in WriteTx
  BY <1>1, <1>2, Zenon DEF WriteTx
<1>6. t # Idle
  BY <1>4 DEF Idle
<1> HIDE DEF t
<1>7. ctx' \in [Clients -> ClientTx] /\ ctx'[c] = t
      /\ \A d \in Clients \ {c} : ctx'[d] = ctx[d]
  BY <1>1, <1>3, <1>5 DEF TypeOK, ClientTx
<1>8. writes' \in 0..setting'.maxWrites /\ setting' = setting
  BY SettingType DEF BeginWrite, TypeOK
<1>9. TypeOK'
  BY <1>7, <1>8 DEF TypeOK, BeginWrite
<1> QED  BY <1>1, <1>4, <1>5, <1>6, <1>7, <1>9 DEF full

\* What a commit writes.
LEMMA CommitWriteType ==
    ASSUME TypeOK, NEW c \in setting.clients, CommitWrite(c)
    PROVE  /\ TypeOK' /\ c \in Clients /\ ctx[c] \in WriteTx /\ ctx[c].obj \in Objs
           /\ ctx'[c] = Idle
           /\ \A d \in Clients \ {c} : ctx'[d] = ctx[d]
           /\ db'[ctx[c].obj] = RowAfter(ctx[c])
           /\ \A o \in Objs \ {ctx[c].obj} : db'[o] = db[o]
           /\ RowAfter(ctx[c]) \in Row /\ LogOf(ctx[c]) \subseteq LogEntry
<1>1. c \in Clients
  BY SettingType
<1>2. ctx[c] \in WriteTx /\ ctx[c].obj \in Objs
  BY <1>1, WriteType DEF CommitWrite, WriteTx
<1>3. RowAfter(ctx[c]) \in Row /\ LogOf(ctx[c]) \subseteq LogEntry
  BY <1>2, WrittenTypes
<1>4. ctx' \in [Clients -> ClientTx] /\ ctx'[c] = Idle
      /\ \A d \in Clients \ {c} : ctx'[d] = ctx[d]
  BY <1>1 DEF TypeOK, ClientTx, CommitWrite
<1>5. db' \in [Objs -> Row] /\ db'[ctx[c].obj] = RowAfter(ctx[c])
      /\ \A o \in Objs \ {ctx[c].obj} : db'[o] = db[o]
  BY <1>2, <1>3 DEF TypeOK, CommitWrite
<1>6. log' \subseteq LogEntry /\ missed' \subseteq Objs /\ nextId' \in Nat
  BY <1>2, <1>3 DEF TypeOK, CommitWrite
<1>7. TypeOK'
  BY <1>4, <1>5, <1>6 DEF TypeOK, CommitWrite
<1> QED  BY <1>1, <1>2, <1>3, <1>4, <1>5, <1>7

\* The end of a transaction that changes nothing.
LEMMA AbortWriteType ==
    ASSUME TypeOK, NEW c \in setting.clients, AbortWrite(c)
    PROVE  /\ TypeOK' /\ c \in Clients /\ ctx'[c] = Idle
           /\ \A d \in Clients \ {c} : ctx'[d] = ctx[d]
<1>1. c \in Clients
  BY SettingType
<1>2. ctx' \in [Clients -> ClientTx] /\ ctx'[c] = Idle
      /\ \A d \in Clients \ {c} : ctx'[d] = ctx[d]
  BY <1>1 DEF TypeOK, ClientTx, AbortWrite
<1> QED  BY <1>1, <1>2 DEF TypeOK, AbortWrite

LEMMA BeginCatchUpType ==
    ASSUME TypeOK, NEW a \in setting.agents, BeginCatchUp(a)
    PROVE  /\ TypeOK' /\ a \in Agents /\ atx'[a] \in CatchUpTx
           /\ atx'[a].kind = "catchup"
           /\ atx'[a].log = log /\ atx'[a].db = db
           /\ atx'[a].base = base /\ atx'[a].typed = typed
           /\ \A b \in Agents \ {a} : atx'[b] = atx[b]
<1> DEFINE s == [kind |-> "catchup", log |-> log, db |-> db, base |-> base,
                 typed |-> typed]
<1>1. a \in Agents
  BY SettingType
<1>2. s \in CatchUpTx
  BY DEF CatchUpTx, TypeOK
<1>3. s.kind = "catchup" /\ s.log = log /\ s.db = db /\ s.base = base /\ s.typed = typed
  OBVIOUS
<1>4. atx' = [atx EXCEPT ![a] = s]
  BY DEF BeginCatchUp
<1> HIDE DEF s
<1>5. atx' \in [Agents -> AgentTx] /\ atx'[a] = s
      /\ \A b \in Agents \ {a} : atx'[b] = atx[b]
  BY <1>1, <1>2, <1>4 DEF TypeOK, AgentTx
<1>6. TypeOK'
  BY <1>5 DEF TypeOK, BeginCatchUp
<1> QED  BY <1>1, <1>2, <1>3, <1>5, <1>6

LEMMA BeginCleanupType ==
    ASSUME TypeOK, NEW a \in setting.agents, BeginCleanup(a)
    PROVE  /\ TypeOK' /\ a \in Agents /\ atx'[a] \in CleanupTx
           /\ atx'[a].kind = "cleanup"
           /\ atx'[a].base = base /\ atx'[a].typed = typed
           /\ \A b \in Agents \ {a} : atx'[b] = atx[b]
<1> DEFINE s == [kind |-> "cleanup", base |-> base, typed |-> typed]
<1>1. a \in Agents
  BY SettingType
<1>2. s \in CleanupTx
  BY DEF CleanupTx, TypeOK
<1>3. s.kind = "cleanup" /\ s.base = base /\ s.typed = typed
  OBVIOUS
<1>4. atx' = [atx EXCEPT ![a] = s]
  BY DEF BeginCleanup
<1> HIDE DEF s
<1>5. atx' \in [Agents -> AgentTx] /\ atx'[a] = s
      /\ \A b \in Agents \ {a} : atx'[b] = atx[b]
  BY <1>1, <1>2, <1>4 DEF TypeOK, AgentTx
<1>6. TypeOK'
  BY <1>5 DEF TypeOK, BeginCleanup
<1> QED  BY <1>1, <1>2, <1>3, <1>5, <1>6

\* What a catch-up writes.
LEMMA CommitCatchUpType ==
    ASSUME TypeOK, Ids, NEW a \in setting.agents, CommitCatchUp(a)
    PROVE  /\ TypeOK' /\ a \in Agents /\ atx[a] \in CatchUpTx /\ atx'[a] = Idle
           /\ NewContent(atx[a]) \in Content
           /\ \A b \in Agents \ {a} : atx'[b] = atx[b]
<1>1. a \in Agents
  BY SettingType
<1>2. atx[a] \in CatchUpTx
  BY <1>1, CatchUpType DEF CommitCatchUp
<1>3. \A l \in atx[a].log : l.id < nextId
  BY <1>1 DEF Ids, CommitCatchUp
<1>4. /\ NewContent(atx[a]) \in Content
      /\ BaseWrite(atx[a]) # Keep => BaseWrite(atx[a]) \in BaseRow
      /\ TypedWrite(atx[a]) # Keep => TypedWrite(atx[a]) \in TypedRow
  BY <1>2, <1>3, ComputedTypes
<1>5. base' \in BaseRow /\ typed' \in TypedRow
  BY <1>4 DEF CommitCatchUp, TypeOK
<1>6. atx' \in [Agents -> AgentTx] /\ atx'[a] = Idle
      /\ \A b \in Agents \ {a} : atx'[b] = atx[b]
  BY <1>1 DEF TypeOK, AgentTx, CommitCatchUp
<1>7. log' \subseteq LogEntry
  BY DEF CommitCatchUp, TypeOK
<1>8. TypeOK'
  BY <1>5, <1>6, <1>7 DEF TypeOK, CommitCatchUp
<1> QED  BY <1>1, <1>2, <1>4, <1>6, <1>8

LEMMA AbortCatchUpType ==
    ASSUME TypeOK, NEW a \in setting.agents, AbortCatchUp(a)
    PROVE  /\ TypeOK' /\ a \in Agents /\ atx'[a] = Idle
           /\ \A b \in Agents \ {a} : atx'[b] = atx[b]
<1>1. a \in Agents
  BY SettingType
<1>2. atx' \in [Agents -> AgentTx] /\ atx'[a] = Idle
      /\ \A b \in Agents \ {a} : atx'[b] = atx[b]
  BY <1>1 DEF TypeOK, AgentTx, AbortCatchUp
<1> QED  BY <1>1, <1>2 DEF TypeOK, AbortCatchUp

LEMMA CommitCleanupType ==
    ASSUME TypeOK, NEW a \in setting.agents, CommitCleanup(a)
    PROVE  /\ TypeOK' /\ a \in Agents /\ atx[a] \in CleanupTx /\ atx'[a] = Idle
           /\ \A b \in Agents \ {a} : atx'[b] = atx[b]
<1>1. a \in Agents
  BY SettingType
<1>2. atx[a] \in CleanupTx
  BY <1>1, CleanupType DEF CommitCleanup
<1>3. atx' \in [Agents -> AgentTx] /\ atx'[a] = Idle
      /\ \A b \in Agents \ {a} : atx'[b] = atx[b]
  BY <1>1 DEF TypeOK, AgentTx, CommitCleanup
<1>4. NoBase \in BaseRow /\ NoTyped \in TypedRow
  BY DEF NoBase, NoTyped, BaseRow, TypedRow, Content, EmptyContent
<1>5. base' \in BaseRow /\ typed' \in TypedRow
  BY <1>4 DEF CommitCleanup, DeleteRow, TypeOK
<1>6. TypeOK'
  BY <1>3, <1>5 DEF TypeOK, CommitCleanup
<1> QED  BY <1>1, <1>2, <1>3, <1>6

LEMMA RequestResetType ==
    ASSUME TypeOK, RequestReset
    PROVE  TypeOK' /\ base'.exists /\ base.exists
<1> DEFINE n == base.epoch + 1
<1>1. n \in Nat
  BY DEF TypeOK, BaseRow
<1>2. base' = [base EXCEPT !.reset = TRUE, !.epoch = n]
  BY DEF RequestReset
<1> HIDE DEF n
<1>3. base' \in BaseRow /\ base'.exists = base.exists
  BY <1>1, <1>2, Zenon DEF TypeOK, BaseRow
<1>4. resets' \in 0..setting'.maxResets
  BY SettingType DEF TypeOK, RequestReset
<1> QED  BY <1>3, <1>4 DEF TypeOK, RequestReset

\* Types are kept.
LEMMA TypeStep ==
    ASSUME TypeOK, Ids, [Next]_vars
    PROVE  TypeOK'
<1>1. ASSUME NEW c \in setting.clients, NEW kind \in {"create", "update", "delete"},
             NEW o \in setting.objs, NEW v \in setting.vals \cup {Absent},
             BeginWrite(c, kind, o, v)
      PROVE  TypeOK'
  BY <1>1, BeginWriteType
<1>2. ASSUME NEW c \in setting.clients, CommitWrite(c)
      PROVE  TypeOK'
  BY <1>2, CommitWriteType
<1>3. ASSUME NEW c \in setting.clients, AbortWrite(c)
      PROVE  TypeOK'
  BY <1>3, AbortWriteType
<1>4. ASSUME NEW a \in setting.agents, BeginCatchUp(a)
      PROVE  TypeOK'
  BY <1>4, BeginCatchUpType
<1>5. ASSUME NEW a \in setting.agents, CommitCatchUp(a)
      PROVE  TypeOK'
  BY <1>5, CommitCatchUpType
<1>6. ASSUME NEW a \in setting.agents, AbortCatchUp(a)
      PROVE  TypeOK'
  BY <1>6, AbortCatchUpType
<1>7. ASSUME NEW a \in setting.agents, BeginCleanup(a)
      PROVE  TypeOK'
  BY <1>7, BeginCleanupType
<1>8. ASSUME NEW a \in setting.agents, CommitCleanup(a)
      PROVE  TypeOK'
  BY <1>8, CommitCleanupType
<1>9. ASSUME RequestReset
      PROVE  TypeOK'
  BY <1>9, RequestResetType
<1>10. CASE UNCHANGED vars
  BY <1>10 DEF vars, TypeOK
<1> QED
  BY <1>1, <1>2, <1>3, <1>4, <1>5, <1>6, <1>7, <1>8, <1>9, <1>10
     DEF Next, ClientStep, AgentStep, CatchUpStep

\* Ids are given once.
LEMMA IdsStep ==
    ASSUME TypeOK, Ids, [Next]_vars
    PROVE  Ids'
<1>1. ASSUME NEW c \in setting.clients, NEW kind \in {"create", "update", "delete"},
             NEW o \in setting.objs, NEW v \in setting.vals \cup {Absent},
             BeginWrite(c, kind, o, v)
      PROVE  Ids'
  BY <1>1 DEF BeginWrite, Ids
<1>2. ASSUME NEW c \in setting.clients, CommitWrite(c)
      PROVE  Ids'
  <2>1. ctx[c] \in WriteTx /\ LogOf(ctx[c]) \subseteq LogEntry
    BY <1>2, CommitWriteType
  <2>2. \A l \in LogOf(ctx[c]) : l.id = nextId
    BY DEF LogOf
  <2>3. \A l, m \in LogOf(ctx[c]) : l = m
    BY DEF LogOf
  <2>4. \A l \in log : l.id \in Nat
    BY DEF TypeOK, LogEntry
  <2>5. nextId \in Nat /\ nextId' = nextId + 1 /\ log' = log \cup LogOf(ctx[c])
    BY <1>2 DEF CommitWrite, TypeOK
  <2>6. (\A l \in log' : l.id < nextId') /\ (\A l, m \in log' : l.id = m.id => l = m)
    BY <2>2, <2>3, <2>4, <2>5 DEF Ids
  <2>7. \A b \in Agents : atx[b].kind = "catchup" => \A l \in atx[b].log : l.id \in Nat
    BY CatchUpType DEF CatchUpTx, LogEntry
  <2>8. \A b \in Agents : atx'[b].kind = "catchup" => \A l \in atx'[b].log : l.id < nextId'
    BY <1>2, <2>5, <2>7 DEF CommitWrite, Ids
  <2> QED  BY <2>6, <2>8 DEF Ids
<1>3. ASSUME NEW c \in setting.clients, AbortWrite(c)
      PROVE  Ids'
  BY <1>3 DEF AbortWrite, Ids
<1>4. ASSUME NEW a \in setting.agents, BeginCatchUp(a)
      PROVE  Ids'
  BY <1>4, BeginCatchUpType DEF BeginCatchUp, Ids
<1>5. ASSUME NEW a \in setting.agents, CommitCatchUp(a)
      PROVE  Ids'
  BY <1>5, CommitCatchUpType DEF CommitCatchUp, Ids, Idle
<1>6. ASSUME NEW a \in setting.agents, AbortCatchUp(a)
      PROVE  Ids'
  BY <1>6, AbortCatchUpType DEF AbortCatchUp, Ids, Idle
<1>7. ASSUME NEW a \in setting.agents, BeginCleanup(a)
      PROVE  Ids'
  BY <1>7, BeginCleanupType DEF BeginCleanup, Ids
<1>8. ASSUME NEW a \in setting.agents, CommitCleanup(a)
      PROVE  Ids'
  BY <1>8, CommitCleanupType DEF CommitCleanup, Ids, Idle
<1>9. ASSUME RequestReset
      PROVE  Ids'
  BY <1>9 DEF RequestReset, Ids
<1>10. CASE UNCHANGED vars
  BY <1>10 DEF vars, Ids
<1> QED
  BY <1>1, <1>2, <1>3, <1>4, <1>5, <1>6, <1>7, <1>8, <1>9, <1>10
     DEF Next, ClientStep, AgentStep, CatchUpStep

\* The start.
LEMMA InitType == Init => TypeOK /\ Ids
<1> SUFFICES ASSUME Init PROVE TypeOK /\ Ids
  OBVIOUS
<1>1. setting \in Settings /\ setting.maxWrites \in Nat /\ setting.maxResets \in Nat
  BY ListenerAssumption DEF Init, Setting
<1>2. NoBase \in BaseRow /\ NoTyped \in TypedRow /\ NoRow \in Row
  BY DEF NoBase, NoTyped, NoRow, BaseRow, TypedRow, Row, Content, EmptyContent
<1>3. /\ [NoBase EXCEPT !.exists = TRUE, !.epoch = 1] \in BaseRow
      /\ [NoTyped EXCEPT !.exists = TRUE, !.epoch = 1] \in TypedRow
  BY <1>2 DEF NoBase, NoTyped, BaseRow, TypedRow
<1>4. base \in BaseRow /\ typed \in TypedRow
  BY <1>2, <1>3 DEF Init
<1>5. db \in [Objs -> Row] /\ log \subseteq LogEntry /\ nextId \in Nat
      /\ ctx \in [Clients -> ClientTx] /\ atx \in [Agents -> AgentTx]
  BY <1>2 DEF Init, ClientTx, AgentTx
<1>6. writes \in 0..setting.maxWrites /\ resets \in 0..setting.maxResets
      /\ missed \subseteq Objs
  BY <1>1 DEF Init
<1>7. TypeOK
  BY <1>1, <1>4, <1>5, <1>6 DEF TypeOK
<1>8. Ids
  BY DEF Ids, Init, Idle
<1> QED  BY <1>7, <1>8

\* The rows, the logs and the snapshots of all transactions keep their types
\* whatever clients and agents do.
THEOREM TypeCorrect == Spec => []TypeOK
<1>1. TypeOK /\ Ids /\ [Next]_vars => TypeOK' /\ Ids'
  BY TypeStep, IdsStep
<1> QED  BY InitType, <1>1, PTL DEF Spec

-----------------------------------------------------------------------------
(* Facts that need nothing else.                                            *)

\* Nobody else writes.
LEMMA ScopeStep ==
    ASSUME TypeOK, Ids, Scope, [Next]_vars
    PROVE  Scope'
<1>1. ASSUME NEW c \in setting.clients, NEW kind \in {"create", "update", "delete"},
             NEW o \in setting.objs, NEW v \in setting.vals \cup {Absent},
             BeginWrite(c, kind, o, v)
      PROVE  Scope'
  <2>1. kind = "delete" <=> v = Absent
    BY <1>1, ListenerAssumption, SettingType DEF BeginWrite
  <2>2. /\ c \in Clients /\ ctx'[c].kind = kind /\ ctx'[c].obj = o /\ ctx'[c].val = v
        /\ \A d \in Clients \ {c} : ctx'[d] = ctx[d]
    BY <1>1, BeginWriteType
  <2>3. \A d \in Clients : ctx'[d] # Idle =>
            /\ d \in setting.clients
            /\ ctx'[d].obj \in setting.objs
            /\ ctx'[d].kind = "delete" <=> ctx'[d].val = Absent
    BY <1>1, <2>1, <2>2 DEF Scope
  <2> QED  BY <1>1, <2>3 DEF BeginWrite, Scope
<1>2. ASSUME NEW c \in setting.clients, CommitWrite(c)
      PROVE  Scope'
  <2>1. /\ c \in Clients /\ ctx'[c] = Idle
        /\ \A d \in Clients \ {c} : ctx'[d] = ctx[d]
    BY <1>2, CommitWriteType
  <2>2. \A l \in LogOf(ctx[c]) : l.obj = ctx[c].obj
    BY DEF LogOf
  <2>3. ctx[c].obj \in setting.objs
    BY <1>2, <2>1 DEF CommitWrite, Scope
  <2>4. \A l \in log' : l.obj \in setting'.objs
    BY <1>2, <2>2, <2>3 DEF CommitWrite, Scope
  <2>5. \A d \in Clients : ctx'[d] # Idle =>
            /\ d \in setting.clients
            /\ ctx'[d].obj \in setting.objs
            /\ ctx'[d].kind = "delete" <=> ctx'[d].val = Absent
    BY <2>1 DEF Scope
  <2> QED  BY <1>2, <2>4, <2>5 DEF CommitWrite, Scope
<1>3. ASSUME NEW c \in setting.clients, AbortWrite(c)
      PROVE  Scope'
  BY <1>3, AbortWriteType DEF AbortWrite, Scope
<1>4. ASSUME NEW a \in setting.agents, BeginCatchUp(a)
      PROVE  Scope'
  BY <1>4, BeginCatchUpType DEF BeginCatchUp, Scope
<1>5. ASSUME NEW a \in setting.agents, CommitCatchUp(a)
      PROVE  Scope'
  BY <1>5, CommitCatchUpType DEF CommitCatchUp, Scope, Idle
<1>6. ASSUME NEW a \in setting.agents, AbortCatchUp(a)
      PROVE  Scope'
  BY <1>6, AbortCatchUpType DEF AbortCatchUp, Scope, Idle
<1>7. ASSUME NEW a \in setting.agents, BeginCleanup(a)
      PROVE  Scope'
  BY <1>7, BeginCleanupType DEF BeginCleanup, Scope, Idle
<1>8. ASSUME NEW a \in setting.agents, CommitCleanup(a)
      PROVE  Scope'
  BY <1>8, CommitCleanupType DEF CommitCleanup, Scope, Idle
<1>9. ASSUME RequestReset
      PROVE  Scope'
  BY <1>9 DEF RequestReset, Scope
<1>10. CASE UNCHANGED vars
  BY <1>10 DEF vars, Scope
<1> QED
  BY <1>1, <1>2, <1>3, <1>4, <1>5, <1>6, <1>7, <1>8, <1>9, <1>10
     DEF Next, ClientStep, AgentStep, CatchUpStep

\* Rules are created with epoch 1 and never leave it.
LEMMA RuleRowsStep ==
    ASSUME TypeOK, Ids, RuleRows, [Next]_vars
    PROVE  RuleRows'
<1>1. ASSUME NEW c \in setting.clients, NEW kind \in {"create", "update", "delete"},
             NEW o \in setting.objs, NEW v \in setting.vals \cup {Absent},
             BeginWrite(c, kind, o, v)
      PROVE  RuleRows'
  <2>1. /\ c \in Clients /\ ctx'[c].kind = kind /\ ctx'[c].obj = o
        /\ ctx'[c].epoch = db[o].epoch
        /\ \A d \in Clients \ {c} : ctx'[d] = ctx[d]
    BY <1>1, BeginWriteType
  <2>2. kind = "delete" => db[o].val # Absent
    BY <1>1 DEF BeginWrite
  <2> QED  BY <1>1, <2>1, <2>2 DEF BeginWrite, RuleRows
<1>2. ASSUME NEW c \in setting.clients, CommitWrite(c)
      PROVE  RuleRows'
  <2>1. /\ c \in Clients /\ ctx[c] \in WriteTx /\ ctx'[c] = Idle
        /\ \A d \in Clients \ {c} : ctx'[d] = ctx[d]
        /\ db'[ctx[c].obj] = RowAfter(ctx[c])
        /\ \A o \in Objs \ {ctx[c].obj} : db'[o] = db[o]
    BY <1>2, CommitWriteType
  <2>2. ctx[c].kind \in {"create", "update", "delete"} /\ ctx[c].obj \in Objs
    BY <2>1 DEF WriteTx
  <2>3. db[ctx[c].obj] \in Row /\ ~WriteConflict(ctx[c])
    BY <1>2, <2>2 DEF TypeOK, CommitWrite
  <2>4. ASSUME ctx[c].obj \in SGRules, RowAfter(ctx[c]).val # Absent
        PROVE  RowAfter(ctx[c]).epoch = 1
    <3>1. CASE ctx[c].kind = "create"
      BY <3>1 DEF RowAfter
    <3>2. CASE ctx[c].kind = "update"
      <4>1. RowAfter(ctx[c]) = [db[ctx[c].obj] EXCEPT !.val = ctx[c].val]
        BY <3>2, <2>4 DEF RowAfter
      <4>2. db[ctx[c].obj].val # Absent
        BY <3>2, <2>3 DEF WriteConflict
      <4> QED  BY <4>1, <4>2, <2>3, <2>4 DEF RuleRows, Row
    <3>3. CASE ctx[c].kind = "delete"
      BY <3>3, <2>4 DEF RowAfter, NoRow, RuleRows
    <3> QED  BY <2>2, <3>1, <3>2, <3>3
  <2>5. \A o \in SGRules : db'[o].val # Absent => db'[o].epoch = 1
    BY <2>1, <2>4, ListenerAssumption DEF RuleRows
  <2> QED  BY <2>1, <2>5 DEF RuleRows
<1>3. ASSUME NEW c \in setting.clients, AbortWrite(c)
      PROVE  RuleRows'
  BY <1>3, AbortWriteType DEF AbortWrite, RuleRows
<1>4. ASSUME NEW a \in setting.agents, BeginCatchUp(a)
      PROVE  RuleRows'
  BY <1>4 DEF BeginCatchUp, RuleRows
<1>5. ASSUME NEW a \in setting.agents, CommitCatchUp(a)
      PROVE  RuleRows'
  BY <1>5 DEF CommitCatchUp, RuleRows
<1>6. ASSUME NEW a \in setting.agents, AbortCatchUp(a)
      PROVE  RuleRows'
  BY <1>6 DEF AbortCatchUp, RuleRows
<1>7. ASSUME NEW a \in setting.agents, BeginCleanup(a)
      PROVE  RuleRows'
  BY <1>7 DEF BeginCleanup, RuleRows
<1>8. ASSUME NEW a \in setting.agents, CommitCleanup(a)
      PROVE  RuleRows'
  BY <1>8 DEF CommitCleanup, RuleRows
<1>9. ASSUME RequestReset
      PROVE  RuleRows'
  BY <1>9 DEF RequestReset, RuleRows
<1>10. CASE UNCHANGED vars
  BY <1>10 DEF vars, RuleRows
<1> QED
  BY <1>1, <1>2, <1>3, <1>4, <1>5, <1>6, <1>7, <1>8, <1>9, <1>10
     DEF Next, ClientStep, AgentStep, CatchUpStep

\* Trees are written with their rows.
LEMMA RootlessStep ==
    ASSUME TypeOK, Ids, Rootless, [Next]_vars
    PROVE  Rootless'
<1>1. ASSUME NEW c \in setting.clients, NEW kind \in {"create", "update", "delete"},
             NEW o \in setting.objs, NEW v \in setting.vals \cup {Absent},
             BeginWrite(c, kind, o, v)
      PROVE  Rootless'
  BY <1>1 DEF BeginWrite, Rootless
<1>2. ASSUME NEW c \in setting.clients, CommitWrite(c)
      PROVE  Rootless'
  BY <1>2 DEF CommitWrite, Rootless
<1>3. ASSUME NEW c \in setting.clients, AbortWrite(c)
      PROVE  Rootless'
  BY <1>3 DEF AbortWrite, Rootless
<1>4. ASSUME NEW a \in setting.agents, BeginCatchUp(a)
      PROVE  Rootless'
  BY <1>4, BeginCatchUpType DEF BeginCatchUp, Rootless
<1>5. ASSUME NEW a \in setting.agents, CommitCatchUp(a)
      PROVE  Rootless'
  <2>1. /\ a \in Agents /\ atx[a] \in CatchUpTx /\ atx'[a] = Idle
        /\ \A b \in Agents \ {a} : atx'[b] = atx[b]
    BY <1>5, CommitCatchUpType
  <2>2. atx[a].typed \in TypedRow
    BY <2>1 DEF CatchUpTx
  <2>3. TypedWrite(atx[a]) # Keep => TypedWrite(atx[a]).exists
    BY <2>2 DEF TypedWrite, TypedRow
  <2>4. typed'.exists \/ typed'.content = EmptyContent
    BY <1>5, <2>3 DEF CommitCatchUp, Rootless
  <2> QED  BY <2>1, <2>4 DEF Rootless, Idle
<1>6. ASSUME NEW a \in setting.agents, AbortCatchUp(a)
      PROVE  Rootless'
  BY <1>6, AbortCatchUpType DEF AbortCatchUp, Rootless, Idle
<1>7. ASSUME NEW a \in setting.agents, BeginCleanup(a)
      PROVE  Rootless'
  BY <1>7, BeginCleanupType DEF BeginCleanup, Rootless
<1>8. ASSUME NEW a \in setting.agents, CommitCleanup(a)
      PROVE  Rootless'
  BY <1>8, CommitCleanupType DEF CommitCleanup, DeleteRow, NoTyped, Rootless, Idle
<1>9. ASSUME RequestReset
      PROVE  Rootless'
  BY <1>9 DEF RequestReset, Rootless
<1>10. CASE UNCHANGED vars
  BY <1>10 DEF vars, Rootless
<1> QED
  BY <1>1, <1>2, <1>3, <1>4, <1>5, <1>6, <1>7, <1>8, <1>9, <1>10
     DEF Next, ClientStep, AgentStep, CatchUpStep

-----------------------------------------------------------------------------
(* Counting.                                                               *)

\* The open transactions are finitely many.
LEMMA Finite ==
    ASSUME TypeOK
    PROVE  IsFiniteSet(Open) /\ Cardinality(Open) \in Nat
BY SettingType, FS_CardinalityType, FS_Subset DEF Open

LEMMA BeginWriteOpens ==
    ASSUME TypeOK, NEW c \in setting.clients, NEW kind \in {"create", "update", "delete"},
           NEW o \in setting.objs, NEW v \in setting.vals \cup {Absent},
           BeginWrite(c, kind, o, v)
    PROVE  c \notin Open /\ Open' = Open \cup {c}
<1>1. setting' = setting /\ ctx[c] = Idle
  BY DEF BeginWrite
<1>2. /\ c \in Clients /\ ctx'[c] # Idle
      /\ \A d \in Clients \ {c} : ctx'[d] = ctx[d]
  BY BeginWriteType
<1>3. setting.clients \subseteq Clients
  BY SettingType
<1> QED  BY <1>1, <1>2, <1>3 DEF Open

LEMMA EndWriteCloses ==
    ASSUME TypeOK, NEW c \in setting.clients, CommitWrite(c) \/ AbortWrite(c)
    PROVE  c \in Open /\ Open' = Open \ {c}
<1>1. setting' = setting /\ ctx[c] # Idle
  BY DEF CommitWrite, AbortWrite
<1>2. c \in Clients /\ ctx'[c] = Idle /\ \A d \in Clients \ {c} : ctx'[d] = ctx[d]
  BY CommitWriteType, AbortWriteType
<1>3. setting.clients \subseteq Clients
  BY SettingType
<1> QED  BY <1>1, <1>2, <1>3 DEF Open

\* A write of one object adds one log at most.
LEMMA OneLog ==
    ASSUME TypeOK, IsFiniteSet(log), NEW c \in setting.clients, CommitWrite(c)
    PROVE  /\ IsFiniteSet(log')
           /\ Cardinality(log) \in Nat /\ Cardinality(log') \in Nat
           /\ Cardinality(log') <= Cardinality(log) + 1
<1>1. log' = log \cup LogOf(ctx[c])
  BY DEF CommitWrite
<1>2. CASE ctx[c].resetting
  BY <1>1, <1>2, FS_CardinalityType DEF LogOf
<1>3. CASE ~ctx[c].resetting
  <2>1. PICK l : LogOf(ctx[c]) = {l}
    BY <1>3 DEF LogOf
  <2>2. log' = log \cup {l}
    BY <1>1, <2>1
  <2>3. /\ IsFiniteSet(log \cup {l})
        /\ Cardinality(log \cup {l}) = IF l \in log THEN Cardinality(log)
                                                   ELSE Cardinality(log) + 1
    BY FS_AddElement
  <2> QED  BY <2>2, <2>3, FS_CardinalityType
<1> QED  BY <1>2, <1>3

\* Agents only delete logs.
LEMMA FewerLogs ==
    ASSUME IsFiniteSet(log), log' \subseteq log
    PROVE  /\ IsFiniteSet(log')
           /\ Cardinality(log) \in Nat /\ Cardinality(log') \in Nat
           /\ Cardinality(log') <= Cardinality(log)
BY FS_Subset, FS_CardinalityType

LEMMA LogsFiniteStep ==
    ASSUME TypeOK, IsFiniteSet(log), [Next]_vars
    PROVE  IsFiniteSet(log')
<1>1. ASSUME NEW c \in setting.clients, CommitWrite(c) PROVE IsFiniteSet(log')
  BY <1>1, OneLog
<1>2. CASE log' \subseteq log
  BY <1>2, FewerLogs
<1> QED
  BY <1>1, <1>2
     DEF Next, ClientStep, AgentStep, CatchUpStep, BeginWrite, AbortWrite, BeginCatchUp,
         CommitCatchUp, AbortCatchUp, RequestReset, BeginCleanup, CommitCleanup, vars

\* Below the threshold there are fewer logs than transactions so far.
LEMMA QuietStep ==
    ASSUME TypeOK, Ids, IsFiniteSet(log), Quiet, NeverFull, [Next]_vars
    PROVE  Quiet'
<1>1. ASSUME NEW c \in setting.clients, NEW kind \in {"create", "update", "delete"},
             NEW o \in setting.objs, NEW v \in setting.vals \cup {Absent},
             BeginWrite(c, kind, o, v)
      PROVE  Quiet'
  <2>1. Open' = Open \cup {c} /\ c \notin Open
    BY <1>1, BeginWriteOpens
  <2>2. IsFiniteSet(Open) /\ Cardinality(Open) \in Nat
    BY Finite
  <2>3. Cardinality(Open') = Cardinality(Open) + 1
    BY <2>1, <2>2, FS_AddElement
  <2>4. /\ Cardinality(log) \in Nat /\ nextId \in Nat /\ writes \in Nat
        /\ setting.maxWrites \in Nat /\ setting.maxEvents \in Nat
    BY SettingType, FS_CardinalityType DEF TypeOK
  <2>5. writes < setting.maxWrites /\ writes' = writes + 1
        /\ log' = log /\ nextId' = nextId /\ setting' = setting
    BY <1>1 DEF BeginWrite
  <2>6. ~(Cardinality(log) >= setting.maxEvents)
    BY <2>2, <2>4, <2>5 DEF Quiet, NeverFull
  <2>7. /\ ctx'[c].resetting = Resetting(log)
        /\ ctx'[c].full = (Cardinality(log) >= setting.maxEvents)
        /\ \A d \in Clients \ {c} : ctx'[d] = ctx[d]
    BY <1>1, BeginWriteType
  <2>8. \A d \in Clients : ctx'[d] # Idle => ~ctx'[d].resetting /\ ~ctx'[d].full
    BY <2>6, <2>7 DEF Quiet
  <2>9. nextId' + Cardinality(Open') <= writes' + 1
    BY <2>2, <2>3, <2>4, <2>5 DEF Quiet
  <2> QED  BY <2>5, <2>8, <2>9 DEF Quiet, Resetting
<1>2. ASSUME NEW c \in setting.clients, CommitWrite(c)
      PROVE  Quiet'
  <2>1. Open' = Open \ {c} /\ c \in Open
    BY <1>2, EndWriteCloses
  <2>2. IsFiniteSet(Open) /\ Cardinality(Open) \in Nat
    BY Finite
  <2>3. Cardinality(Open') = Cardinality(Open) - 1
    BY <2>1, <2>2, FS_RemoveElement
  <2>4. /\ Cardinality(log) \in Nat /\ Cardinality(log') \in Nat
        /\ Cardinality(log') <= Cardinality(log) + 1
    BY <1>2, OneLog
  <2>5. nextId' = nextId + 1 /\ writes' = writes /\ nextId \in Nat /\ writes \in Nat
    BY <1>2 DEF CommitWrite, TypeOK
  <2>6. /\ Cardinality(log') < nextId'
        /\ nextId' + Cardinality(Open') <= writes' + 1
    BY <2>2, <2>3, <2>4, <2>5 DEF Quiet
  <2>7. /\ c \in Clients /\ ctx'[c] = Idle
        /\ \A d \in Clients \ {c} : ctx'[d] = ctx[d]
    BY <1>2, CommitWriteType
  <2>8. ~ctx[c].full
    BY <1>2, <2>7 DEF Quiet, CommitWrite
  <2>9. \A l \in LogOf(ctx[c]) : l.action # "reset"
    BY <2>8 DEF LogOf
  <2>10. ~Resetting(log')
    BY <1>2, <2>9 DEF CommitWrite, Resetting, Quiet
  <2>11. \A d \in Clients : ctx'[d] # Idle => ~ctx'[d].resetting /\ ~ctx'[d].full
    BY <2>7 DEF Quiet
  <2> QED  BY <2>6, <2>10, <2>11 DEF Quiet, Resetting
<1>3. ASSUME NEW c \in setting.clients, AbortWrite(c)
      PROVE  Quiet'
  <2>1. Open' = Open \ {c} /\ c \in Open
    BY <1>3, EndWriteCloses
  <2>2. IsFiniteSet(Open) /\ Cardinality(Open) \in Nat
    BY Finite
  <2>3. Cardinality(Open') = Cardinality(Open) - 1
    BY <2>1, <2>2, FS_RemoveElement
  <2>4. nextId' = nextId /\ writes' = writes /\ nextId \in Nat /\ writes \in Nat /\ log' = log
    BY <1>3 DEF AbortWrite, TypeOK
  <2>5. nextId' + Cardinality(Open') <= writes' + 1
    BY <2>2, <2>3, <2>4 DEF Quiet
  <2>6. \A d \in Clients : ctx'[d] # Idle => ~ctx'[d].resetting /\ ~ctx'[d].full
    BY <1>3, AbortWriteType DEF Quiet
  <2> QED  BY <2>4, <2>5, <2>6 DEF Quiet, Resetting
<1>4. ASSUME NEW a \in setting.agents, BeginCatchUp(a)
      PROVE  Quiet'
  BY <1>4 DEF BeginCatchUp, Quiet, Open, Resetting
<1>5. ASSUME NEW a \in setting.agents, CommitCatchUp(a)
      PROVE  Quiet'
  <2>1. log' \subseteq log
    BY <1>5 DEF CommitCatchUp
  <2>2. Cardinality(log') < nextId
    BY <2>1, FewerLogs DEF Quiet, TypeOK
  <2>3. UNCHANGED <<ctx, nextId, writes, Open>>
    BY <1>5 DEF CommitCatchUp, Open
  <2> QED  BY <2>1, <2>2, <2>3 DEF Quiet, Resetting
<1>6. ASSUME NEW a \in setting.agents, AbortCatchUp(a)
      PROVE  Quiet'
  BY <1>6 DEF AbortCatchUp, Quiet, Open, Resetting
<1>7. ASSUME NEW a \in setting.agents, BeginCleanup(a)
      PROVE  Quiet'
  BY <1>7 DEF BeginCleanup, Quiet, Open, Resetting
<1>8. ASSUME NEW a \in setting.agents, CommitCleanup(a)
      PROVE  Quiet'
  BY <1>8 DEF CommitCleanup, Quiet, Open, Resetting
<1>9. ASSUME RequestReset
      PROVE  Quiet'
  BY <1>9 DEF RequestReset, Quiet, Open, Resetting
<1>10. CASE UNCHANGED vars
  BY <1>10 DEF vars, Quiet, Open, Resetting
<1> QED
  BY <1>1, <1>2, <1>3, <1>4, <1>5, <1>6, <1>7, <1>8, <1>9, <1>10
     DEF Next, ClientStep, AgentStep, CatchUpStep

-----------------------------------------------------------------------------
(* One agent.                                                              *)

\* A row that is written is not Keep, and it exists.
LEMMA WrittenRows ==
    ASSUME NEW s \in CatchUpTx
    PROVE  /\ Resets(s) => BaseWrite(s) # Keep
           /\ ~Resets(s) /\ Creates(s) /\ ~s.base.exists => BaseWrite(s) # Keep
           /\ BaseWrite(s) # Keep => BaseWrite(s).exists
           /\ TypedWrite(s) # Keep <=> s.typed.exists \/ Creates(s)
           /\ TypedWrite(s) # Keep =>
                 /\ TypedWrite(s).exists /\ TypedWrite(s).content = NewContent(s)
                 /\ TypedWrite(s).epoch = IF s.typed.exists THEN s.typed.epoch + 1 ELSE 1
<1>1. /\ s.base \in [exists : BOOLEAN, reset : BOOLEAN, epoch : Nat]
      /\ s.typed \in [exists : BOOLEAN, content : Content, epoch : Nat]
  BY DEF CatchUpTx, BaseRow, TypedRow
<1> DEFINE b1 == [s.base EXCEPT !.reset = FALSE, !.epoch = @ + 1]
           b2 == [exists |-> TRUE, reset |-> FALSE, epoch |-> 1]
           t1 == [s.typed EXCEPT !.content = NewContent(s), !.epoch = @ + 1]
           t2 == [exists |-> TRUE, content |-> NewContent(s), epoch |-> 1]
<1>2. DOMAIN Keep = {"kind"}
  BY DEF Keep
<1>3. "exists" \in DOMAIN b1 /\ b1.exists = s.base.exists
  BY <1>1
<1>4. "exists" \in DOMAIN b2 /\ b2.exists
  OBVIOUS
<1>5. /\ "exists" \in DOMAIN t1 /\ t1.exists = s.typed.exists
      /\ t1.content = NewContent(s) /\ t1.epoch = s.typed.epoch + 1
  BY <1>1
<1>6. "exists" \in DOMAIN t2 /\ t2.exists /\ t2.content = NewContent(s) /\ t2.epoch = 1
  OBVIOUS
<1>7. BaseWrite(s) = IF Resets(s) THEN b1
                     ELSE IF Creates(s) /\ ~s.base.exists THEN b2 ELSE Keep
  BY DEF BaseWrite
<1>8. TypedWrite(s) = IF s.typed.exists THEN t1 ELSE IF Creates(s) THEN t2 ELSE Keep
  BY DEF TypedWrite
<1>9. Resets(s) => s.base.exists
  BY DEF Resets
<1> HIDE DEF b1, b2, t1, t2
<1>10. b1 # Keep /\ b2 # Keep /\ t1 # Keep /\ t2 # Keep
  BY <1>2, <1>3, <1>4, <1>5, <1>6
<1> QED  BY <1>3, <1>4, <1>5, <1>6, <1>7, <1>8, <1>9, <1>10

\* A single agent is not disturbed: only a reset touches the base tree.
LEMMA SameStep ==
    ASSUME TypeOK, Ids, Scope, Same, Alone, [Next]_vars
    PROVE  Same'
<1>1. ASSUME NEW c \in setting.clients, NEW kind \in {"create", "update", "delete"},
             NEW o \in setting.objs, NEW v \in setting.vals \cup {Absent},
             BeginWrite(c, kind, o, v)
      PROVE  Same'
  BY <1>1 DEF BeginWrite, Same
<1>2. ASSUME NEW c \in setting.clients, CommitWrite(c)
      PROVE  Same'
  BY <1>2 DEF CommitWrite, Same
<1>3. ASSUME NEW c \in setting.clients, AbortWrite(c)
      PROVE  Same'
  BY <1>3 DEF AbortWrite, Same
<1>4. ASSUME NEW a \in setting.agents, BeginCatchUp(a)
      PROVE  Same'
  BY <1>4, BeginCatchUpType DEF BeginCatchUp, Same
<1>5. ASSUME NEW a \in setting.agents, CommitCatchUp(a)
      PROVE  Same'
  <2> DEFINE s == atx[a]
  <2>1. /\ a \in Agents /\ s \in CatchUpTx /\ atx'[a] = Idle
        /\ \A b \in Agents \ {a} : atx'[b] = atx[b]
    BY <1>5, CommitCatchUpType
  <2>2. \A b \in Agents : atx'[b] = Idle
    BY <2>1 DEF Scope, Alone
  <2>3. s.typed = typed /\ s.base.exists = base.exists
    BY <1>5, <2>1 DEF Same, CommitCatchUp, Idle
  <2>4. /\ base' = IF BaseWrite(s) = Keep THEN base ELSE BaseWrite(s)
        /\ typed' = IF TypedWrite(s) = Keep THEN typed ELSE TypedWrite(s)
    BY <1>5 DEF CommitCatchUp
  <2> HIDE DEF s
  <2>5. base.exists => base'.exists
    BY <2>1, <2>4, WrittenRows
  <2>6. typed'.exists => base'.exists
    BY <2>1, <2>3, <2>4, <2>5, WrittenRows DEF Same
  <2> QED  BY <2>2, <2>6 DEF Same
<1>6. ASSUME NEW a \in setting.agents, AbortCatchUp(a)
      PROVE  Same'
  BY <1>6, AbortCatchUpType DEF AbortCatchUp, Same
<1>7. ASSUME NEW a \in setting.agents, BeginCleanup(a)
      PROVE  Same'
  BY <1>7, BeginCleanupType DEF BeginCleanup, Same
<1>8. ASSUME NEW a \in setting.agents, CommitCleanup(a)
      PROVE  Same'
  <2>1. /\ a \in Agents /\ atx'[a] = Idle
        /\ \A b \in Agents \ {a} : atx'[b] = atx[b]
    BY <1>8, CommitCleanupType
  <2>2. \A b \in Agents : atx'[b] = Idle
    BY <2>1 DEF Scope, Alone
  <2>3. atx[a].typed = typed /\ atx[a].base.exists = base.exists
    BY <1>8, <2>1 DEF Same, CommitCleanup, Idle
  <2>4. ~typed'.exists
    BY <1>8, <2>3 DEF CommitCleanup, DeleteRow, NoTyped
  <2> QED  BY <2>2, <2>4 DEF Same
<1>9. ASSUME RequestReset
      PROVE  Same'
  BY <1>9, RequestResetType DEF RequestReset, Same
<1>10. CASE UNCHANGED vars
  BY <1>10 DEF vars, Same
<1> QED
  BY <1>1, <1>2, <1>3, <1>4, <1>5, <1>6, <1>7, <1>8, <1>9, <1>10
     DEF Next, ClientStep, AgentStep, CatchUpStep

-----------------------------------------------------------------------------
(* Nothing is lost.                                                        *)

\* The newest usable log of an object is the one that build() ends with.
LEMMA SettledReplay ==
    ASSUME NEW o \in Objs, NEW content, NEW L \in SUBSET LogEntry, NEW rows,
           TypeOK, NamesDiffer,
           \A l \in L : l.obj \in setting.objs,
           \A l, m \in L : l.id = m.id => l = m,
           Settles(o, content, L, rows)
    PROVE  Replay(content, L, rows)[o] = TreeVal(rows[o].val)
<1> DEFINE mine == {l \in Effective(L, rows) : l.obj = o}
           last == CHOOSE l \in mine : \A m \in mine : m.id <= l.id
<1>1. Replay(content, L, rows)[o] = IF mine = {} THEN content[o] ELSE Built(last, rows)
  BY DEF Replay
<1>2. mine \subseteq Pending(o, L, rows)
  BY DEF Effective, Pending
<1>3. CASE Pending(o, L, rows) = {}
  BY <1>1, <1>2, <1>3 DEF Settles
<1>4. CASE Pending(o, L, rows) # {}
  <2>1. PICK l \in Pending(o, L, rows) :
            /\ \A m \in Pending(o, L, rows) : m.id <= l.id
            /\ Built(l, rows) = TreeVal(rows[o].val)
    BY <1>4 DEF Settles
  <2>2. l \in L /\ l.obj = o /\ Usable(l, rows)
    BY DEF Pending
  <2>3. ~Superseded(l, L, rows)
    <3> SUFFICES ASSUME l.obj \in SGRules, NEW m \in L, m.obj \in SGRules,
                        NameOf[m.obj] = NameOf[l.obj], Usable(m, rows), m.id > l.id
                 PROVE  FALSE
      BY DEF Superseded
    <3>1. m.obj = o
      BY <2>2 DEF NamesDiffer
    <3>2. m.id <= l.id
      BY <2>1, <3>1 DEF Pending
    <3> QED  BY <2>2, <3>2 DEF LogEntry
  <2>4. l \in mine
    BY <2>2, <2>3 DEF Effective
  <2>5. last \in mine /\ \A m \in mine : m.id <= last.id
    BY <1>2, <2>1, <2>4
  <2>6. last \in L /\ last.id = l.id
    <3>1. last.id <= l.id /\ l.id <= last.id /\ last \in L
      BY <1>2, <2>1, <2>4, <2>5 DEF Pending
    <3> QED  BY <2>2, <3>1 DEF LogEntry
  <2>7. last = l
    BY <2>2, <2>6
  <2> QED  BY <1>1, <2>1, <2>4, <2>7
<1> QED  BY <1>3, <1>4

\* Which logs are usable depends on the rows of their objects.
LEMMA PendingSame ==
    ASSUME NEW o, NEW L, NEW rows, NEW rows2, rows2[o].val = rows[o].val
    PROVE  /\ Pending(o, L, rows2) = Pending(o, L, rows)
           /\ \A l \in Pending(o, L, rows) : Built(l, rows2) = Built(l, rows)
BY DEF Pending, Usable, Built

\* A catch-up from a fresh snapshot loses nothing, whether it replays the logs
\* that it deletes or recreates the trees and leaves the logs alone.
LEMMA CatchUpSettles ==
    ASSUME NEW o \in Objs, NEW s \in CatchUpTx, NEW L \in SUBSET LogEntry,
           NEW rows, TypeOK, NamesDiffer,
           \A l \in L : l.obj \in setting.objs,
           \A l, m \in L : l.id = m.id => l = m,
           Fresh(s, L, rows), Settles(o, s.typed.content, L, rows)
    PROVE  /\ Settles(o, Replay(s.typed.content, s.log, s.db), L \ s.log, rows)
           /\ Settles(o, Recreate(s.db), L, rows)
<1> DEFINE content == s.typed.content
           new == Pending(o, L \ s.log, rows)
<1>1. s.log \subseteq L
  BY DEF Fresh
<1>2. new \subseteq Pending(o, L, rows)
  BY DEF Pending
<1>3. Pending(o, L, rows) # {} =>
        \E l \in Pending(o, L, rows) :
            /\ \A m \in Pending(o, L, rows) : m.id <= l.id
            /\ Built(l, rows) = TreeVal(rows[o].val)
  BY DEF Settles
<1>4. CASE new # {}
  <2>1. PICK l \in Pending(o, L, rows) :
            /\ \A m \in Pending(o, L, rows) : m.id <= l.id
            /\ Built(l, rows) = TreeVal(rows[o].val)
    BY <1>2, <1>3, <1>4
  <2>2. PICK m \in new : TRUE
    BY <1>4
  <2>3. m \in L \ s.log /\ l \in L /\ m.id <= l.id
    BY <1>2, <2>1, <2>2 DEF Pending
  <2>4. l \notin s.log
    <3> SUFFICES ASSUME l \in s.log PROVE FALSE
      OBVIOUS
    <3>1. l.id < m.id
      BY <2>3 DEF Fresh
    <3> QED  BY <2>3, <3>1 DEF LogEntry
  <2>5. l \in new
    BY <2>1, <2>4 DEF Pending
  <2> QED  BY <1>2, <2>1, <2>5 DEF Settles
<1>5. CASE new = {}
  <2>1. rows[o].val = s.db[o].val
    BY <1>5 DEF Fresh
  <2>2. Pending(o, L, rows) = Pending(o, s.log, rows)
    BY <1>1, <1>5 DEF Pending
  <2>3. /\ Pending(o, s.log, rows) = Pending(o, s.log, s.db)
        /\ \A l \in Pending(o, s.log, s.db) : Built(l, rows) = Built(l, s.db)
    BY <2>1, PendingSame
  <2>4. Settles(o, content, s.log, s.db)
    BY <2>1, <2>2, <2>3 DEF Settles
  <2>5. s.log \in SUBSET LogEntry
    BY DEF CatchUpTx
  <2>6. Replay(content, s.log, s.db)[o] = TreeVal(s.db[o].val)
    BY <1>1, <2>4, <2>5, SettledReplay
  <2>7. Recreate(s.db)[o] = TreeVal(s.db[o].val)
    BY DEF Recreate
  <2>8. Settles(o, Replay(content, s.log, s.db), L \ s.log, rows)
    BY <1>5, <2>1, <2>6 DEF Settles
  <2>9. Settles(o, Recreate(s.db), L, rows)
    BY <1>3, <2>1, <2>7 DEF Settles
  <2> QED  BY <2>8, <2>9
<1> QED  BY <1>4, <1>5

\* Trees that get nothing are not stored: they would be empty.
LEMMA NothingAdded ==
    ASSUME NEW L \in SUBSET LogEntry, NEW n \in Nat, \A l \in L : l.id < n,
           NEW rows, ~Adds(L, rows), NEW o \in Objs
    PROVE  Replay(EmptyContent, L, rows)[o] = EmptyContent[o]
<1> DEFINE mine == {l \in Effective(L, rows) : l.obj = o}
           last == CHOOSE l \in mine : \A m \in mine : m.id <= l.id
<1>1. Replay(EmptyContent, L, rows)[o]
          = IF mine = {} THEN EmptyContent[o] ELSE Built(last, rows)
  BY DEF Replay
<1>2. CASE mine # {}
  <2>1. \A l \in mine : l.id \in Nat /\ l.id < n
    BY DEF Effective, LogEntry
  <2>2. \E l \in mine : \A m \in mine : m.id <= l.id
    BY <1>2, <2>1, NewestExists
  <2>3. last \in Effective(L, rows)
    BY <2>2
  <2>4. Built(last, rows) = Absent
    BY <2>3 DEF Adds
  <2> QED  BY <1>1, <1>2, <2>4 DEF EmptyContent
<1> QED  BY <1>1, <1>2

\* The log of a commit is usable, and gives the object the value of its row.
LEMMA NewLog ==
    ASSUME TypeOK, Ids, Scope, RuleRows, NEW c \in setting.clients, CommitWrite(c),
           ~ctx[c].resetting, ~ctx[c].full
    PROVE  \E l \in LogEntry :
              /\ LogOf(ctx[c]) = {l} /\ l.id = nextId /\ l.obj = ctx[c].obj
              /\ Usable(l, db')
              /\ ~MissesRow(ctx[c]) => Built(l, db') = TreeVal(db'[l.obj].val)
<1> DEFINE t == ctx[c]
           act == IF t.kind = "delete" \/ (t.val \in Hidden /\ t.obj \notin SGRules)
                  THEN "delete" ELSE "create"
           l == [id |-> nextId, action |-> act, obj |-> t.obj, val |-> t.val]
<1>1. /\ c \in Clients /\ t \in WriteTx /\ t.obj \in Objs
      /\ LogOf(t) \subseteq LogEntry
      /\ db'[t.obj] = RowAfter(t)
  BY CommitWriteType
<1>2. LogOf(t) = {l}
  BY DEF LogOf
<1>3. l.id = nextId /\ l.action = act /\ l.obj = t.obj /\ l.val = t.val
  OBVIOUS
<1>4. t.kind \in {"create", "update", "delete"} /\ (t.kind = "delete" <=> t.val = Absent)
  BY <1>1 DEF WriteTx, Scope, CommitWrite
<1>5. db[t.obj] \in Row /\ ~WriteConflict(t)
  BY <1>1 DEF TypeOK, CommitWrite
<1>6. t.obj \in SGRules /\ t.kind = "delete" => t.epoch = 1
  BY <1>1 DEF RuleRows, CommitWrite
<1>7. t.obj \in SGRules /\ db[t.obj].val # Absent => db[t.obj].epoch = 1
  BY DEF RuleRows
<1>8. Absent \notin Hidden
  BY ListenerAssumption
<1> HIDE DEF t, l
<1>9. ASSUME t.kind # "delete" PROVE db'[t.obj].val = t.val /\ t.val # Absent
  <2>1. [db[t.obj] EXCEPT !.val = t.val].val = t.val
    BY <1>5 DEF Row
  <2> QED  BY <1>1, <1>4, <1>9, <2>1 DEF RowAfter
<1>10. ASSUME t.kind = "delete", t.obj \in SGRules PROVE db'[t.obj].val = Absent
  BY <1>1, <1>6, <1>7, <1>10 DEF RowAfter, NoRow
<1>11. ASSUME t.kind = "delete", ~MissesRow(t) PROVE db'[t.obj].val = Absent
  BY <1>1, <1>11 DEF MissesRow
<1>12. Usable(l, db')
  BY <1>3, <1>4, <1>9, <1>10 DEF Usable
<1>13. ASSUME ~MissesRow(t) PROVE Built(l, db') = TreeVal(db'[l.obj].val)
  <2>1. CASE t.kind = "delete"
    BY <1>3, <1>8, <1>11, <1>13, <2>1 DEF Built, TreeVal
  <2>2. CASE t.kind # "delete" /\ t.obj \in SGRules
    BY <1>3, <2>2 DEF Built
  <2>3. CASE t.kind # "delete" /\ t.obj \notin SGRules
    BY <1>3, <1>9, <2>3 DEF Built, TreeVal
  <2> QED  BY <2>1, <2>2, <2>3
<1> QED  BY <1>1, <1>2, <1>3, <1>12, <1>13 DEF t

\* A new log keeps the snapshots fresh.
LEMMA FreshAppend ==
    ASSUME NEW s, NEW L, NEW rows, Fresh(s, L, rows),
           NEW rows2, NEW new, new \notin L, Usable(new, rows2),
           \A l \in s.log : l.id < new.id,
           \A o \in Objs \ {new.obj} : rows2[o] = rows[o]
    PROVE  Fresh(s, L \cup {new}, rows2)
<1>1. s.log \subseteq L \cup {new}
      /\ \A l \in s.log, m \in (L \cup {new}) \ s.log : l.id < m.id
  BY DEF Fresh
<1>2. ASSUME NEW o \in Objs, Pending(o, (L \cup {new}) \ s.log, rows2) = {}
      PROVE  rows2[o].val = s.db[o].val
  <2>1. new \in (L \cup {new}) \ s.log
    BY DEF Fresh
  <2>2. o # new.obj
    BY <1>2, <2>1 DEF Pending
  <2>3. rows2[o] = rows[o]
    BY <2>2
  <2>4. Pending(o, L \ s.log, rows2) = {}
    BY <1>2 DEF Pending
  <2>5. Pending(o, L \ s.log, rows) = {}
    BY <2>3, <2>4, PendingSame
  <2> QED  BY <2>3, <2>5 DEF Fresh
<1> QED  BY <1>1, <1>2 DEF Fresh

\* A snapshot that nobody has written over since is fresh.
LEMMA FreshNow ==
    ASSUME NEW s, NEW L, NEW rows, s.log = L, s.db = rows
    PROVE  Fresh(s, L, rows)
BY DEF Fresh

\* A snapshot stays fresh until the trees are written.
LEMMA CurrentStep ==
    ASSUME TypeOK, Ids, Scope, RuleRows, Quiet, Current, NeverFull, [Next]_vars
    PROVE  Current'
<1>1. ASSUME NEW c \in setting.clients, NEW kind \in {"create", "update", "delete"},
             NEW o \in setting.objs, NEW v \in setting.vals \cup {Absent},
             BeginWrite(c, kind, o, v)
      PROVE  Current'
  BY <1>1 DEF BeginWrite, Current, Alone, Steady
<1>2. ASSUME NEW c \in setting.clients, CommitWrite(c)
      PROVE  Current'
  <2>1. ~ctx[c].resetting /\ ~ctx[c].full
    BY <1>2, CommitWriteType DEF Quiet, CommitWrite
  <2>2. PICK l \in LogEntry :
            /\ LogOf(ctx[c]) = {l} /\ l.id = nextId /\ l.obj = ctx[c].obj
            /\ Usable(l, db')
    BY <1>2, <2>1, NewLog
  <2>3. log' = log \cup {l} /\ UNCHANGED <<setting, typed, atx>>
    BY <1>2, <2>2 DEF CommitWrite
  <2>4. l \notin log
    BY <2>2 DEF Ids, TypeOK, LogEntry
  <2>5. \A o \in Objs \ {l.obj} : db'[o] = db[o]
    BY <1>2, <2>2, CommitWriteType
  <2>6. ASSUME NEW b \in Agents, atx[b].kind = "catchup", Fresh(atx[b], log, db)
        PROVE  Fresh(atx[b], log', db')
    <3>1. \A m \in atx[b].log : m.id < l.id
      BY <2>2, <2>6 DEF Ids
    <3>2. Fresh(atx[b], log \cup {l}, db')
      BY <2>2, <2>4, <2>5, <2>6, <3>1, FreshAppend
    <3> QED  BY <2>3, <3>2
  <2> QED  BY <2>3, <2>6 DEF Current, Alone, Steady
<1>3. ASSUME NEW c \in setting.clients, AbortWrite(c)
      PROVE  Current'
  BY <1>3 DEF AbortWrite, Current, Alone, Steady
<1>4. ASSUME NEW a \in setting.agents, BeginCatchUp(a)
      PROVE  Current'
  <2>1. /\ a \in Agents /\ atx'[a].log = log /\ atx'[a].db = db /\ atx'[a].typed = typed
        /\ \A b \in Agents \ {a} : atx'[b] = atx[b]
    BY <1>4, BeginCatchUpType
  <2>2. Fresh(atx'[a], log, db)
    BY <2>1, FreshNow
  <2>3. UNCHANGED <<setting, typed, log, db>> /\ typed.epoch \in Nat
    BY <1>4 DEF BeginCatchUp, TypeOK, TypedRow
  <2> QED  BY <2>1, <2>2, <2>3 DEF Current, Alone, Steady
<1>5. ASSUME NEW a \in setting.agents, CommitCatchUp(a)
      PROVE  Current'
  <2> DEFINE s == atx[a]
  <2>1. /\ a \in Agents /\ s \in CatchUpTx /\ atx'[a] = Idle
        /\ \A b \in Agents \ {a} : atx'[b] = atx[b]
    BY <1>5, CommitCatchUpType
  <2>2. setting' = setting /\ s.kind = "catchup"
    BY <1>5 DEF CommitCatchUp
  <2>3. ASSUME Alone PROVE \A b \in Agents : atx'[b] = Idle
    BY <2>1, <2>3 DEF Scope, Alone
  <2>4. ASSUME Steady, NEW b \in Agents, atx'[b].kind = "catchup"
        PROVE  /\ typed'.exists /\ atx'[b].typed.exists
               /\ atx'[b].typed.epoch < typed'.epoch /\ atx'[b].typed.epoch \in Nat
               /\ typed'.epoch \in Nat
    <3>1. b # a /\ atx'[b] = atx[b]
      BY <2>1, <2>4 DEF Idle
    <3>2. s.typed.exists /\ TypedWrite(s) # Keep /\ typed' = TypedWrite(s)
      BY <1>5, <2>1, <2>2, <2>4, WrittenRows DEF Current, CommitCatchUp
    <3>3. typed.epoch = s.typed.epoch
      BY <1>5, <3>2 DEF CommitCatchUp, CatchUpConflict, StaleWrite
    <3>4. typed'.exists /\ typed'.epoch = s.typed.epoch + 1
      BY <2>1, <3>2, WrittenRows
    <3>5. atx[b].typed.exists /\ atx[b].typed.epoch <= typed.epoch
      BY <2>4, <3>1 DEF Current
    <3>6. atx[b].typed.epoch \in Nat /\ typed.epoch \in Nat
      BY <2>4, <3>1, CatchUpType DEF CatchUpTx, TypedRow, TypeOK
    <3> QED  BY <3>1, <3>3, <3>4, <3>5, <3>6
  <2>5. ASSUME Steady PROVE typed'.exists
    BY <1>5, <2>1, <2>2, <2>5, WrittenRows DEF Current, CommitCatchUp
  <2>6. Alone' => \A b \in Agents : atx'[b].kind = "catchup" => Fresh(atx'[b], log', db')
    BY <2>2, <2>3 DEF Alone, Idle
  <2>7. ASSUME Steady, NEW b \in Agents, atx'[b].kind = "catchup"
        PROVE  /\ atx'[b].typed.exists
               /\ atx'[b].typed.epoch <= typed'.epoch
               /\ atx'[b].typed.epoch # typed'.epoch
    BY <2>4, <2>7
  <2> QED  BY <2>2, <2>5, <2>6, <2>7 DEF Current, Steady
<1>6. ASSUME NEW a \in setting.agents, AbortCatchUp(a)
      PROVE  Current'
  BY <1>6, AbortCatchUpType DEF AbortCatchUp, Current, Alone, Steady, Idle
<1>7. ASSUME NEW a \in setting.agents, BeginCleanup(a)
      PROVE  Current'
  BY <1>7, BeginCleanupType DEF BeginCleanup, Current, Alone, Steady
<1>8. ASSUME NEW a \in setting.agents, CommitCleanup(a)
      PROVE  Current'
  <2>1. /\ a \in Agents /\ atx'[a] = Idle
        /\ \A b \in Agents \ {a} : atx'[b] = atx[b]
    BY <1>8, CommitCleanupType
  <2>2. setting' = setting /\ a \in setting.cleaners
    BY <1>8, <2>1 DEF CommitCleanup, Scope
  <2>3. ~Steady'
    BY <2>2 DEF Steady
  <2>4. Alone' => \A b \in Agents : atx'[b] = Idle
    BY <2>1, <2>2 DEF Scope, Alone
  <2> QED  BY <2>3, <2>4 DEF Current, Idle
<1>9. ASSUME RequestReset
      PROVE  Current'
  BY <1>9 DEF RequestReset, Current, Alone, Steady
<1>10. CASE UNCHANGED vars
  BY <1>10 DEF vars, Current, Alone, Steady
<1> QED
  BY <1>1, <1>2, <1>3, <1>4, <1>5, <1>6, <1>7, <1>8, <1>9, <1>10
     DEF Next, ClientStep, AgentStep, CatchUpStep

\* What a committed write leaves behind.
LEMMA CommitSettles ==
    ASSUME TypeOK, Ids, Scope, RuleRows, Quiet, AllSettle, Sheltered,
           NEW c \in setting.clients, CommitWrite(c), NEW o \in Objs \ missed'
    PROVE  Settles(o, typed.content, log', db')
<1>1. /\ c \in Clients /\ ctx[c].obj \in Objs
      /\ \A p \in Objs \ {ctx[c].obj} : db'[p] = db[p]
  BY CommitWriteType
<1>2. ~ctx[c].resetting /\ ~ctx[c].full
  BY <1>1 DEF Quiet, CommitWrite, Sheltered
<1>3. PICK l \in LogEntry :
          /\ LogOf(ctx[c]) = {l} /\ l.id = nextId /\ l.obj = ctx[c].obj
          /\ Usable(l, db')
          /\ ~MissesRow(ctx[c]) => Built(l, db') = TreeVal(db'[l.obj].val)
  BY <1>2, NewLog
<1>4. log' = log \cup {l}
  BY <1>3 DEF CommitWrite
<1>5. CASE o = ctx[c].obj
  <2>1. ~MissesRow(ctx[c])
    BY <1>5 DEF CommitWrite
  <2>2. l \in Pending(o, log', db')
    BY <1>3, <1>4, <1>5 DEF Pending
  <2>3. \A m \in log' : m.id <= l.id
    BY <1>3, <1>4 DEF Ids, TypeOK, LogEntry
  <2>4. \A m \in Pending(o, log', db') : m.id <= l.id
    BY <2>3 DEF Pending
  <2> QED  BY <1>3, <1>5, <2>1, <2>2, <2>4 DEF Settles
<1>6. CASE o # ctx[c].obj
  <2>1. db'[o] = db[o] /\ o \notin missed
    BY <1>1, <1>6 DEF CommitWrite
  <2>2. Pending(o, log', db') = Pending(o, log, db')
    BY <1>3, <1>4, <1>6 DEF Pending
  <2>3. /\ Pending(o, log, db') = Pending(o, log, db)
        /\ \A m \in Pending(o, log, db) : Built(m, db') = Built(m, db)
    BY <2>1, PendingSame
  <2>4. Settles(o, typed.content, log, db)
    BY <2>1 DEF AllSettle
  <2> QED  BY <2>1, <2>2, <2>3, <2>4 DEF Settles
<1> QED  BY <1>5, <1>6

\* A catch-up that commits has a fresh snapshot.
LEMMA CommitIsFresh ==
    ASSUME TypeOK, Ids, Scope, Quiet, Same, Current, Sheltered,
           NEW a \in setting.agents, CommitCatchUp(a)
    PROVE  atx[a].typed = typed /\ Fresh(atx[a], log, db)
<1>1. a \in Agents /\ atx[a] \in CatchUpTx /\ atx[a].kind = "catchup" /\ NeverFull
  BY CommitCatchUpType DEF CommitCatchUp, Sheltered
<1>2. CASE Alone
  BY <1>1, <1>2 DEF Same, Current, Idle
<1>3. CASE Steady
  <2>1. atx[a].typed.exists
    BY <1>1, <1>3 DEF Current
  <2>2. typed.epoch = atx[a].typed.epoch
    BY <1>1, <2>1, WrittenRows DEF CommitCatchUp, CatchUpConflict, StaleWrite
  <2> QED  BY <1>1, <1>3, <2>2 DEF Current
<1> QED  BY <1>2, <1>3 DEF Sheltered

LEMMA CommitCatchUpSettles ==
    ASSUME TypeOK, Ids, Scope, Rootless, Quiet, Same, Current, AllSettle, Sheltered,
           NEW a \in setting.agents, CommitCatchUp(a), NEW o \in Objs \ missed
    PROVE  Settles(o, typed'.content, log', db)
<1> DEFINE s == atx[a]
<1>1. /\ a \in Agents /\ s \in CatchUpTx /\ s.typed = typed /\ Fresh(s, log, db)
      /\ s.log \in SUBSET LogEntry /\ \A l \in s.log : l.id < nextId
  BY CommitCatchUpType, CommitIsFresh DEF CatchUpTx, Ids, CommitCatchUp
<1>2. /\ typed' = IF TypedWrite(s) = Keep THEN typed ELSE TypedWrite(s)
      /\ log' = log \ Dropped(s)
  BY DEF CommitCatchUp
<1> HIDE DEF s
<1>3. ~Resetting(s.log)
  BY <1>1 DEF Fresh, Quiet, Sheltered, Resetting
<1>4. Settles(o, typed.content, log, db)
  BY DEF AllSettle
<1>5. /\ Settles(o, Replay(typed.content, s.log, s.db), log \ s.log, db)
      /\ Settles(o, Recreate(s.db), log, db)
  BY <1>1, <1>4, CatchUpSettles DEF Sheltered, TypeOK, Scope, Ids
<1>6. CASE Resets(s)
  <2>1. log' = log
    BY <1>2, <1>3, <1>6 DEF Dropped
  <2>2. NewContent(s) = Recreate(s.db)
    BY <1>6 DEF NewContent
  <2> QED  BY <1>1, <1>2, <1>4, <1>5, <2>1, <2>2, WrittenRows
<1>7. CASE ~Resets(s)
  <2>1. log' = log \ s.log
    BY <1>2, <1>7 DEF Dropped
  <2>2. NewContent(s) = Replay(typed.content, s.log, s.db)
    BY <1>1, <1>3, <1>7 DEF NewContent, Replayed
  <2>3. CASE TypedWrite(s) # Keep
    BY <1>1, <1>2, <1>5, <2>1, <2>2, <2>3, WrittenRows
  <2>4. CASE TypedWrite(s) = Keep
    <3>1. ~typed.exists /\ ~Creates(s)
      BY <1>1, <2>4, WrittenRows
    <3>2. typed.content = EmptyContent /\ ~Adds(s.log, s.db)
      BY <1>1, <1>3, <1>7, <3>1 DEF Rootless, Creates, Replayed
    <3>3. Replay(EmptyContent, s.log, s.db)[o] = EmptyContent[o]
      BY <1>1, <3>2, NothingAdded DEF TypeOK
    <3>4. Settles(o, EmptyContent, log \ s.log, db)
      BY <1>5, <3>2, <3>3 DEF Settles
    <3> QED  BY <1>2, <2>1, <2>4, <3>2, <3>4
  <2> QED  BY <2>3, <2>4
<1> QED  BY <1>6, <1>7

\* Trees and logs give the objects after every step.
LEMMA AllSettleStep ==
    ASSUME TypeOK, Ids, Scope, RuleRows, Rootless, Quiet, Same, Current,
           AllSettle, Sheltered, [Next]_vars
    PROVE  AllSettle'
<1>1. ASSUME NEW c \in setting.clients, NEW kind \in {"create", "update", "delete"},
             NEW o \in setting.objs, NEW v \in setting.vals \cup {Absent},
             BeginWrite(c, kind, o, v)
      PROVE  AllSettle'
  BY <1>1 DEF BeginWrite, AllSettle
<1>2. ASSUME NEW c \in setting.clients, CommitWrite(c)
      PROVE  AllSettle'
  BY <1>2, CommitSettles DEF CommitWrite, AllSettle
<1>3. ASSUME NEW c \in setting.clients, AbortWrite(c)
      PROVE  AllSettle'
  BY <1>3 DEF AbortWrite, AllSettle
<1>4. ASSUME NEW a \in setting.agents, BeginCatchUp(a)
      PROVE  AllSettle'
  BY <1>4 DEF BeginCatchUp, AllSettle
<1>5. ASSUME NEW a \in setting.agents, CommitCatchUp(a)
      PROVE  AllSettle'
  BY <1>5, CommitCatchUpSettles DEF CommitCatchUp, AllSettle
<1>6. ASSUME NEW a \in setting.agents, AbortCatchUp(a)
      PROVE  AllSettle'
  BY <1>6 DEF AbortCatchUp, AllSettle
<1>7. ASSUME NEW a \in setting.agents, BeginCleanup(a)
      PROVE  AllSettle'
  BY <1>7 DEF BeginCleanup, AllSettle
<1>8. ASSUME NEW a \in setting.agents, CommitCleanup(a)
      PROVE  AllSettle'
  <2>1. a \in Agents /\ atx[a].kind = "cleanup"
    BY <1>8, CommitCleanupType DEF CommitCleanup
  <2>2. Alone
    BY <2>1 DEF Scope, Steady, Sheltered
  <2>3. atx[a].typed = typed /\ typed.content = EmptyContent
    BY <2>1, <2>2 DEF Same, Rootless, Idle
  <2>4. typed'.content = typed.content
    BY <1>8, <2>3 DEF CommitCleanup, DeleteRow, NoTyped
  <2> QED  BY <1>8, <2>4 DEF CommitCleanup, AllSettle
<1>9. ASSUME RequestReset
      PROVE  AllSettle'
  BY <1>9 DEF RequestReset, AllSettle
<1>10. CASE UNCHANGED vars
  BY <1>10 DEF vars, AllSettle
<1> QED
  BY <1>1, <1>2, <1>3, <1>4, <1>5, <1>6, <1>7, <1>8, <1>9, <1>10
     DEF Next, ClientStep, AgentStep, CatchUpStep

-----------------------------------------------------------------------------
(* Theorems.                                                               *)

LEMMA SettingKept ==
    ASSUME [Next]_vars
    PROVE  /\ setting' = setting
           /\ NeverFull' = NeverFull /\ Alone' = Alone /\ Sheltered' = Sheltered
<1>1. setting' = setting
  BY DEF Next, ClientStep, AgentStep, CatchUpStep, BeginWrite, CommitWrite, AbortWrite,
         BeginCatchUp, CommitCatchUp, AbortCatchUp, RequestReset, BeginCleanup,
         CommitCleanup, vars
<1> QED  BY <1>1 DEF NeverFull, Alone, Sheltered, NamesDiffer, Steady

LEMMA Inductive == IInv /\ [Next]_vars => IInv'
<1> SUFFICES ASSUME IInv, [Next]_vars PROVE IInv'
  OBVIOUS
<1> USE DEF IInv
<1>1. TypeOK' /\ Ids' /\ Scope' /\ RuleRows' /\ Rootless' /\ IsFiniteSet(log)'
  BY TypeStep, IdsStep, ScopeStep, RuleRowsStep, RootlessStep, LogsFiniteStep
<1>2. Quiet'
  <2>1. CASE NeverFull
    BY <2>1, QuietStep
  <2>2. CASE ~NeverFull
    BY <2>2, SettingKept DEF Quiet
  <2> QED  BY <2>1, <2>2
<1>3. Same'
  <2>1. CASE Alone
    BY <2>1, SameStep
  <2>2. CASE ~Alone
    BY <2>2, SettingKept DEF Same
  <2> QED  BY <2>1, <2>2
<1>4. Current'
  <2>1. CASE NeverFull
    BY <2>1, CurrentStep
  <2>2. CASE ~NeverFull
    BY <2>2, SettingKept DEF Current
  <2> QED  BY <2>1, <2>2
<1>5. AllSettle'
  <2>1. CASE Sheltered
    BY <2>1, AllSettleStep
  <2>2. CASE ~Sheltered
    BY <2>2, SettingKept DEF AllSettle
  <2> QED  BY <2>1, <2>2
<1> QED  BY <1>1, <1>2, <1>3, <1>4, <1>5

LEMMA Initially == Init => IInv
<1> SUFFICES ASSUME Init PROVE IInv
  OBVIOUS
<1>1. TypeOK /\ Ids
  BY InitType
<1>2. Scope /\ RuleRows /\ Rootless
  BY ListenerAssumption DEF Init, Scope, RuleRows, Rootless, NoRow, NoTyped, Idle
<1>3. Open = {} /\ log = {}
  BY <1>1, SettingType DEF Init, Open
<1>4. IsFiniteSet({}) /\ Cardinality({}) = 0
  BY FS_EmptySet
<1>5. Quiet
  BY <1>3, <1>4 DEF Init, Quiet, Resetting
<1>6. IsFiniteSet(log)
  BY <1>3, <1>4
<1>7. Same
  BY DEF Init, Same, NoTyped, NoBase
<1>8. Current
  BY DEF Init, Current, Steady, NoTyped, Idle
<1>9. AllSettle
  <2> SUFFICES ASSUME NEW o \in Objs
               PROVE  Settles(o, typed.content, log, db)
    BY DEF AllSettle
  <2>1. typed.content = EmptyContent /\ db[o].val = Absent /\ Absent \notin Hidden
    BY ListenerAssumption DEF Init, NoTyped, NoRow
  <2>2. Pending(o, log, db) = {}
    BY <1>3 DEF Pending
  <2> QED  BY <2>1, <2>2 DEF Settles, TreeVal, EmptyContent
<1> QED  BY <1>1, <1>2, <1>5, <1>6, <1>7, <1>8, <1>9 DEF IInv

\* No change of an object is lost between the objects, the logs and the stored
\* trees (on_commit, catch_up_with_action_log), however the transactions of any
\* number of clients and agents overlap, as long as the epochs of the tree rows
\* tell their versions apart or one agent serves the root.
THEOREM NothingIsLost == Spec => []ReplayConverges
<1>1. IInv => ReplayConverges
  <2> SUFFICES ASSUME IInv, Sheltered, NEW o \in Objs \ missed
               PROVE  Replay(typed.content, log, db)[o] = Recreate(db)[o]
    BY DEF ReplayConverges
  <2>1. Settles(o, typed.content, log, db)
    BY DEF IInv, AllSettle
  <2>2. Replay(typed.content, log, db)[o] = TreeVal(db[o].val)
    BY <2>1, SettledReplay DEF IInv, TypeOK, Scope, Ids, Sheltered
  <2> QED  BY <2>2 DEF Recreate
<1> QED  BY Initially, Inductive, <1>1, PTL DEF Spec

\* While one agent serves the root, no trees are left behind without the base
\* tree that lists their root (cleanup_state, update_bulk).
THEOREM NoTreesAreLeft == Spec => []NoLeftovers
<1>1. IInv => NoLeftovers
  BY DEF IInv, NoLeftovers, NoOrphanTrees, Same, Rootless
<1> QED  BY Initially, Inductive, <1>1, PTL DEF Spec

-----------------------------------------------------------------------------
(* How many logs pile up.                                                  *)

\* The logs of a session, committed or not, and what bounds them: just below the
\* threshold there is room for one flush of changes.
Mine(c) == {l \in table \cup tx[c].own : l.by = c}
Room == IF MaxEvents = 0 THEN 0 ELSE MaxEvents - 1 + MaxFlush
Bounded(S) ==
    /\ IsFiniteSet(S)
    /\ Cardinality({l \in S : ~l.reset}) <= Room
    /\ Cardinality({l \in S : l.reset}) <= MaxFlush

\* An open transaction sees all of its session's logs that are still there.
LogsSeen ==
    \A c \in Sessions :
        /\ IsFiniteSet(tx[c].seen) /\ IsFiniteSet(tx[c].own)
        /\ \A l \in tx[c].own : l.by = c
        /\ IF tx[c].open THEN Standing(c) \subseteq tx[c].seen ELSE tx[c].own = {}

LogIInv ==
    /\ LogTypeOK
    /\ IsFiniteSet(table)
    /\ LogsSeen
    /\ \A c \in Sessions : Bounded(Mine(c))

\* A flush adds no more logs than it has objects.
LEMMA NewLogsFew ==
    ASSUME NEW c \in Sessions, NEW n \in 1..MaxFlush, NEW reset \in BOOLEAN, lastId \in Nat
    PROVE  LET new == NewLogs(c, n, reset)
           IN  /\ IsFiniteSet(new)
               /\ Cardinality(new) \in Nat /\ Cardinality(new) <= MaxFlush
               /\ \A l \in new : l.by = c /\ l.reset = reset
<1> DEFINE f == [i \in 1..n |-> [id |-> lastId + i, by |-> c, reset |-> reset]]
           new == NewLogs(c, n, reset)
<1>1. f \in Surjection(1..n, new)
  BY DEF NewLogs, Surjection
<1>2. n \in Nat /\ n <= MaxFlush /\ MaxFlush \in Nat
  BY ActionLogsAssumption
<1>3. IsFiniteSet(1..n) /\ Cardinality(1..n) = n
  BY <1>2, FS_Interval
<1>4. IsFiniteSet(new) /\ Cardinality(new) <= n
  BY <1>1, <1>3, FS_Surjection
<1>5. Cardinality(new) \in Nat
  BY <1>4, FS_CardinalityType
<1>6. \A l \in new : l.by = c /\ l.reset = reset
  BY DEF NewLogs
<1> HIDE DEF new
<1> QED  BY <1>2, <1>4, <1>5, <1>6 DEF new

\* Types are kept.
LEMMA LogTypeStep ==
    ASSUME LogTypeOK, [LogNext]_logVars
    PROVE  LogTypeOK'
<1> USE DEF LogTypeOK
<1>1. ASSUME NEW c \in Sessions, BeginTx(c) PROVE LogTypeOK'
  BY <1>1 DEF BeginTx, Tx
<1>2. ASSUME NEW c \in Sessions, NEW n \in 1..MaxFlush, Flush(c, n) PROVE LogTypeOK'
  <2>1. OnCommit(c, n) \in SUBSET LogRow
    <3> DEFINE full == Cardinality(Visible(tx[c])) >= MaxEvents
    <3>1. full \in BOOLEAN
      OBVIOUS
    <3> HIDE DEF full
    <3>2. \A i \in 1..n : lastId + i \in Nat
      BY ActionLogsAssumption
    <3>3. NewLogs(c, n, full) \in SUBSET LogRow
      BY <3>1, <3>2 DEF NewLogs, LogRow
    <3> QED  BY <3>3 DEF OnCommit, full
  <2>2. Cardinality(OnCommit(c, n)) \in Nat
    <3> DEFINE full == Cardinality(Visible(tx[c])) >= MaxEvents
    <3>1. full \in BOOLEAN
      OBVIOUS
    <3> HIDE DEF full
    <3>2. Cardinality(NewLogs(c, n, full)) \in Nat
      BY <3>1, NewLogsFew
    <3> QED  BY <3>2, FS_EmptySet DEF OnCommit, full
  <2> QED  BY <1>2, <2>1, <2>2 DEF Flush, Tx
<1>3. ASSUME NEW c \in Sessions, CommitTx(c) PROVE LogTypeOK'
  BY <1>3 DEF CommitTx, Tx, NoTx
<1>4. ASSUME NEW c \in Sessions, RollbackTx(c) PROVE LogTypeOK'
  BY <1>4 DEF RollbackTx, Tx, NoTx
<1>5. ASSUME NEW s \in Servers, Fetch(s) \/ DeleteLogs(s) \/ KeepLogs(s) PROVE LogTypeOK'
  BY <1>5 DEF Fetch, DeleteLogs, KeepLogs
<1>6. CASE UNCHANGED logVars
  BY <1>6 DEF logVars
<1> QED  BY <1>1, <1>2, <1>3, <1>4, <1>5, <1>6 DEF LogNext

LEMMA BoundedSubset ==
    ASSUME NEW S, Bounded(S), NEW T \in SUBSET S
    PROVE  Bounded(T)
<1> DEFINE Changes(X) == {l \in X : ~l.reset}
           Asked(X) == {l \in X : l.reset}
<1>1. IsFiniteSet(S) /\ IsFiniteSet(T)
  BY FS_Subset DEF Bounded
<1>2. Changes(T) \in SUBSET Changes(S) /\ Asked(T) \in SUBSET Asked(S)
  OBVIOUS
<1>3. IsFiniteSet(Changes(S)) /\ IsFiniteSet(Asked(S))
  BY <1>1, FS_Subset
<1>4. Cardinality(Changes(T)) <= Cardinality(Changes(S))
  BY <1>2, <1>3, FS_Subset
<1>5. Cardinality(Asked(T)) <= Cardinality(Asked(S))
  BY <1>2, <1>3, FS_Subset
<1>6. IsFiniteSet(Changes(T)) /\ IsFiniteSet(Asked(T))
  BY <1>2, <1>3, FS_Subset
<1>7. /\ Cardinality(Changes(T)) \in Nat /\ Cardinality(Changes(S)) \in Nat
      /\ Cardinality(Asked(T)) \in Nat /\ Cardinality(Asked(S)) \in Nat
      /\ Room \in Int /\ MaxFlush \in Int
  BY <1>3, <1>6, FS_CardinalityType, ActionLogsAssumption DEF Room
<1>8. Cardinality(Changes(S)) <= Room /\ Cardinality(Asked(S)) <= MaxFlush
  BY DEF Bounded
<1> HIDE DEF Changes, Asked
<1>9. Cardinality(Changes(T)) <= Room /\ Cardinality(Asked(T)) <= MaxFlush
  BY <1>4, <1>5, <1>7, <1>8
<1> QED  BY <1>1, <1>9 DEF Bounded, Changes, Asked

\* What a flush adds stays within the bounds, since its session's logs are among those
\* that it counts.
LEMMA FlushBounded ==
    ASSUME NEW c \in Sessions, NEW n \in 1..MaxFlush, lastId \in Nat,
           NEW V, IsFiniteSet(V), \A l \in V : ~l.reset,
           NEW S \in SUBSET V, Bounded(S)
    PROVE  Bounded(S \cup NewLogs(c, n, Cardinality(V) >= MaxEvents))
<1> DEFINE full == Cardinality(V) >= MaxEvents
           new == NewLogs(c, n, full)
           T == S \cup new
<1>1. full \in BOOLEAN
  OBVIOUS
<1>2. /\ IsFiniteSet(new)
      /\ Cardinality(new) \in Nat /\ Cardinality(new) <= MaxFlush
      /\ \A l \in new : l.reset = full
  <2> HIDE DEF full
  <2> QED  BY <1>1, NewLogsFew
<1>3. /\ IsFiniteSet(S) /\ Cardinality(S) \in Nat /\ Cardinality(V) \in Nat
      /\ Cardinality(S) <= Cardinality(V)
  BY FS_Subset, FS_CardinalityType
<1>4. MaxEvents \in Nat /\ MaxFlush \in Nat /\ MaxFlush > 0
  BY ActionLogsAssumption
<1>5. \A l \in S : ~l.reset
  OBVIOUS
<1> HIDE DEF new
<1>6. /\ IsFiniteSet(T)
      /\ Cardinality(T) = Cardinality(S) + Cardinality(new) - Cardinality(S \cap new)
  BY <1>2, <1>3, FS_Union
<1>7. IsFiniteSet(S \cap new) /\ Cardinality(S \cap new) \in Nat
  BY <1>3, FS_Subset, FS_CardinalityType
<1>8. CASE full
  <2>1. {l \in T : l.reset} = new /\ {l \in T : ~l.reset} = {l \in S : ~l.reset}
    BY <1>2, <1>5, <1>8
  <2> HIDE DEF T, full
  <2>2. Cardinality({l \in T : ~l.reset}) <= Room
    BY <2>1 DEF Bounded
  <2>3. Cardinality({l \in T : l.reset}) <= MaxFlush
    BY <2>1, <1>2
  <2>4. Bounded(T)
    BY <1>6, <2>2, <2>3 DEF Bounded
  <2> QED  BY <2>4 DEF T, new, full
<1>9. CASE ~full
  <2>1. {l \in T : l.reset} = {} /\ {l \in T : ~l.reset} = T
    BY <1>2, <1>5, <1>9
  <2>2. Cardinality(S) < MaxEvents
    BY <1>3, <1>4, <1>9
  <2>3. Cardinality(T) <= Cardinality(S) + Cardinality(new) /\ Cardinality(T) \in Nat
    <3> HIDE DEF T
    <3> QED  BY <1>2, <1>3, <1>6, <1>7, FS_CardinalityType
  <2> HIDE DEF T, full
  <2>4. Cardinality(T) <= Room
    BY <1>2, <1>3, <1>4, <2>2, <2>3 DEF Room
  <2>5. Cardinality({l \in T : l.reset}) <= MaxFlush
    BY <1>4, <2>1, FS_EmptySet
  <2>6. Bounded(T)
    BY <1>6, <2>1, <2>4, <2>5 DEF Bounded
  <2> QED  BY <2>6 DEF T, new, full
<1> QED  BY <1>8, <1>9

\* Sessions that have nothing to do with a step keep their invariant.
LEMMA LogsStep ==
    ASSUME LogIInv, [LogNext]_logVars
    PROVE  LogIInv'
<1> USE DEF LogIInv
<1>t. LogTypeOK'
  BY LogTypeStep
<1>1. ASSUME NEW c \in Sessions, BeginTx(c) PROVE LogIInv'
  <2>1. /\ tx' = [tx EXCEPT ![c] = [open |-> TRUE, seen |-> table, own |-> {}]]
        /\ table' = table /\ lastId' = lastId
    BY <1>1 DEF BeginTx
  <2>2. LogsSeen'
    BY <2>1, FS_EmptySet DEF LogsSeen, Standing, LogTypeOK
  <2>3. \A d \in Sessions : Mine(d)' \subseteq Mine(d)
    BY <2>1 DEF Mine
  <2>4. \A d \in Sessions : Bounded(Mine(d)')
    BY <2>3, BoundedSubset
  <2> QED  BY <1>t, <2>1, <2>2, <2>4
<1>2. ASSUME NEW c \in Sessions, NEW n \in 1..MaxFlush, Flush(c, n) PROVE LogIInv'
  <2> DEFINE new == OnCommit(c, n)
             full == Cardinality(Visible(tx[c])) >= MaxEvents
  <2>1. /\ tx[c].open
        /\ tx' = [tx EXCEPT ![c].own = @ \cup new]
        /\ table' = table /\ lastId' = lastId + Cardinality(new)
    BY <1>2 DEF Flush
  <2>2. /\ IsFiniteSet(new) /\ Cardinality(new) \in Nat /\ \A l \in new : l.by = c
    <3>1. full \in BOOLEAN
      OBVIOUS
    <3> HIDE DEF full
    <3>2. CASE ResetPending(tx[c])
      BY <3>2, FS_EmptySet DEF OnCommit
    <3>3. CASE ~ResetPending(tx[c])
      <4>1. new = NewLogs(c, n, full)
        BY <3>3 DEF OnCommit, full
      <4> HIDE DEF new
      <4> QED  BY <3>1, <4>1, NewLogsFew DEF LogTypeOK
    <3> QED  BY <3>2, <3>3
  <2>3. IsFiniteSet(Visible(tx[c]))
    BY FS_Union DEF Visible, LogsSeen
  <2>4. Mine(c) \in SUBSET Visible(tx[c])
    BY <2>1 DEF Mine, Visible, LogsSeen, Standing
  <2>5. Bounded(Mine(c) \cup new)
    <3>1. CASE ResetPending(tx[c])
      <4>1. Mine(c) \cup new = Mine(c)
        BY <3>1 DEF OnCommit
      <4> QED  BY <4>1
    <3>2. CASE ~ResetPending(tx[c])
      <4>1. \A l \in Visible(tx[c]) : ~l.reset
        BY <3>2 DEF ResetPending
      <4>2. new = NewLogs(c, n, full)
        BY <3>2 DEF OnCommit
      <4> QED  BY <2>3, <2>4, <4>1, <4>2, FlushBounded DEF LogTypeOK
    <3> QED  BY <3>1, <3>2
  <2> HIDE DEF new, full
  <2>6. /\ tx'[c].own = tx[c].own \cup new /\ tx'[c].seen = tx[c].seen /\ tx'[c].open = tx[c].open
        /\ \A d \in Sessions \ {c} : tx'[d] = tx[d]
    BY <2>1 DEF LogTypeOK, Tx
  <2>7. LogsSeen'
    <3>1. IsFiniteSet(tx'[c].own)
      <4>1. IsFiniteSet(tx[c].own \cup new)
        BY <2>2, FS_Union DEF LogsSeen
      <4> QED  BY <2>6, <4>1
    <3>2. /\ IsFiniteSet(tx'[c].seen) /\ \A l \in tx'[c].own : l.by = c
          /\ tx'[c].open /\ Standing(c)' \subseteq tx'[c].seen
      BY <2>1, <2>2, <2>6 DEF LogsSeen, Standing
    <3>3. \A d \in Sessions \ {c} :
             /\ IsFiniteSet(tx'[d].seen) /\ IsFiniteSet(tx'[d].own)
             /\ \A l \in tx'[d].own : l.by = d
             /\ IF tx'[d].open THEN Standing(d)' \subseteq tx'[d].seen ELSE tx'[d].own = {}
      BY <2>1, <2>6 DEF LogsSeen, Standing
    <3> QED  BY <3>1, <3>2, <3>3 DEF LogsSeen
  <2>8. \A d \in Sessions : Bounded(Mine(d)')
    <3>1. Mine(c)' = Mine(c) \cup new
      BY <2>1, <2>2, <2>6 DEF Mine
    <3>2. \A d \in Sessions \ {c} : Mine(d)' = Mine(d)
      BY <2>1, <2>6 DEF Mine
    <3> QED  BY <2>5, <3>1, <3>2
  <2>9. IsFiniteSet(table')
    BY <2>1
  <2> QED  BY <1>t, <2>7, <2>8, <2>9
<1>3. ASSUME NEW c \in Sessions, CommitTx(c) PROVE LogIInv'
  <2>1. /\ tx[c].open /\ table' = table \cup tx[c].own
        /\ tx' = [tx EXCEPT ![c] = NoTx] /\ lastId' = lastId
    BY <1>3 DEF CommitTx
  <2>2. IsFiniteSet(table')
    BY <2>1, FS_Union DEF LogsSeen
  <2>3. tx'[c] = NoTx /\ \A d \in Sessions \ {c} : tx'[d] = tx[d]
    BY <2>1 DEF LogTypeOK
  <2>4. \A d \in Sessions \ {c} : Standing(d)' = Standing(d)
    BY <2>1 DEF Standing, LogsSeen
  <2>5. LogsSeen'
    <3>1. /\ IsFiniteSet(tx'[c].seen) /\ IsFiniteSet(tx'[c].own)
          /\ ~tx'[c].open /\ tx'[c].own = {}
      BY <2>3, FS_EmptySet DEF NoTx
    <3>2. \A d \in Sessions \ {c} :
             /\ IsFiniteSet(tx'[d].seen) /\ IsFiniteSet(tx'[d].own)
             /\ \A l \in tx'[d].own : l.by = d
             /\ IF tx'[d].open THEN Standing(d)' \subseteq tx'[d].seen ELSE tx'[d].own = {}
      BY <2>3, <2>4 DEF LogsSeen
    <3> QED  BY <3>1, <3>2 DEF LogsSeen
  <2>6. \A d \in Sessions : Mine(d)' \in SUBSET Mine(d)
    BY <2>1, <2>3 DEF Mine, NoTx, LogsSeen
  <2>7. \A d \in Sessions : Bounded(Mine(d)')
    BY <2>6, BoundedSubset
  <2> QED  BY <1>t, <2>1, <2>2, <2>5, <2>7
<1>4. ASSUME NEW c \in Sessions, RollbackTx(c) PROVE LogIInv'
  <2>1. /\ table' = table /\ tx' = [tx EXCEPT ![c] = NoTx] /\ lastId' = lastId
    BY <1>4 DEF RollbackTx
  <2>2. LogsSeen'
    BY <2>1, FS_EmptySet DEF LogsSeen, NoTx, Standing, LogTypeOK
  <2>3. \A d \in Sessions : Mine(d)' \in SUBSET Mine(d)
    BY <2>1 DEF Mine, NoTx
  <2>4. \A d \in Sessions : Bounded(Mine(d)')
    BY <2>3, BoundedSubset
  <2> QED  BY <1>t, <2>1, <2>2, <2>4
<1>5. ASSUME NEW s \in Servers, Fetch(s) \/ DeleteLogs(s) \/ KeepLogs(s) PROVE LogIInv'
  <2>1. table' \in SUBSET table /\ tx' = tx /\ lastId' = lastId
    BY <1>5 DEF Fetch, DeleteLogs, KeepLogs
  <2>2. IsFiniteSet(table')
    BY <2>1, FS_Subset
  <2>3. LogsSeen'
    BY <2>1 DEF LogsSeen, Standing
  <2>4. \A d \in Sessions : Mine(d)' \in SUBSET Mine(d)
    BY <2>1 DEF Mine
  <2>5. \A d \in Sessions : Bounded(Mine(d)')
    BY <2>4, BoundedSubset
  <2> QED  BY <1>t, <2>1, <2>2, <2>3, <2>5
<1>6. CASE UNCHANGED logVars
  <2>1. table' = table /\ tx' = tx /\ lastId' = lastId
    BY <1>6 DEF logVars
  <2>2. \A d \in Sessions : Mine(d)' = Mine(d)
    BY <2>1 DEF Mine
  <2> QED  BY <1>t, <2>1, <2>2 DEF LogsSeen, Standing
<1> QED  BY <1>1, <1>2, <1>3, <1>4, <1>5, <1>6 DEF LogNext

\* Whatever sessions flush and servers delete, logs and transactions keep their types.
THEOREM LogTypeCorrect == LogSpec => []LogTypeOK
<1>1. LogInit => LogTypeOK
  BY DEF LogInit, LogTypeOK, NoTx, Tx
<1> QED  BY <1>1, LogTypeStep, PTL DEF LogSpec

\* Whatever sessions flush before they commit, in whatever order they do, the logs of
\* one session stay below MAX_EVENTS_PER_ROOT plus two flushes (on_commit).
THEOREM LogsAreBounded == LogSpec => []LogBounded
<1>1. LogInit => LogIInv
  <2> SUFFICES ASSUME LogInit PROVE LogIInv
    OBVIOUS
  <2>1. table = {} /\ tx = [c \in Sessions |-> NoTx] /\ lastId = 0
    BY DEF LogInit
  <2>2. IsFiniteSet({}) /\ Cardinality({}) = 0
    BY FS_EmptySet
  <2>3. \A c \in Sessions : Mine(c) = {}
    BY <2>1 DEF Mine, NoTx
  <2>4. Bounded({})
    BY <2>2, ActionLogsAssumption DEF Bounded, Room
  <2>5. LogsSeen
    BY <2>1, <2>2 DEF LogsSeen, NoTx
  <2>6. LogTypeOK
    BY DEF LogInit, LogTypeOK, NoTx, Tx
  <2> QED  BY <2>1, <2>2, <2>3, <2>4, <2>5, <2>6 DEF LogIInv
<1>2. LogIInv => LogBounded
  <2> SUFFICES ASSUME LogIInv, NEW c \in Sessions
               PROVE  Cardinality(Standing(c)) < MaxEvents + 2 * MaxFlush
    BY DEF LogBounded
  <2> DEFINE S == Standing(c)
             Changes == {l \in S : ~l.reset}
             Asked == {l \in S : l.reset}
  <2>1. Bounded(S)
    <3>1. S \in SUBSET Mine(c)
      BY DEF Mine, Standing
    <3> QED  BY <3>1, BoundedSubset DEF LogIInv
  <2> HIDE DEF S
  <2>2. IsFiniteSet(Changes) /\ IsFiniteSet(Asked)
    BY <2>1, FS_Subset DEF Bounded
  <2>3. S = Changes \cup Asked
    OBVIOUS
  <2>4. Cardinality(Changes) <= Room /\ Cardinality(Asked) <= MaxFlush
    BY <2>1 DEF Bounded
  <2> HIDE DEF Changes, Asked
  <2>5. Cardinality(S) = Cardinality(Changes) + Cardinality(Asked) - Cardinality(Changes \cap Asked)
    BY <2>2, <2>3, FS_Union
  <2>6. IsFiniteSet(Changes \cap Asked)
    BY <2>2, FS_Subset
  <2>7. /\ Cardinality(Changes) \in Nat /\ Cardinality(Asked) \in Nat
        /\ Cardinality(Changes \cap Asked) \in Nat
    BY <2>2, <2>6, FS_CardinalityType
  <2>8. Cardinality(S) < MaxEvents + 2 * MaxFlush
    BY <2>4, <2>5, <2>7, ActionLogsAssumption DEF Room
  <2> QED  BY <2>8 DEF S
<1> QED  BY <1>1, LogsStep, <1>2, PTL DEF LogSpec

=============================================================================
