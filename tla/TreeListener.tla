---------------------------- MODULE TreeListener ----------------------------
(***************************************************************************)
(* How the hash trees stored in the AIM database follow the AIM objects of *)
(* a root: aim/db/hashtree_db_listener.py, with the parts of aim_manager,  *)
(* aim_store, tree_manager and aim_universe that it works with.            *)
(*                                                                         *)
(*  - A client of the AIM manager writes an object in a transaction; the   *)
(*    pre-commit hook (on_commit) adds an action log to the transaction.   *)
(*  - Every agent, in observe(), reads the logs of a root, replays them on *)
(*    the stored trees and deletes them, in a transaction.                 *)
(*  - Too many logs are replaced by one RESET log: the trees are recreated *)
(*    from the objects.  A universe can ask for the same with needs_reset. *)
(*  - cleanup_state() deletes the trees of a root that is empty everywhere.*)
(*                                                                         *)
(* One root is modelled: transactions of distinct roots share no row.  A   *)
(* transaction reads a snapshot (begin) and writes at its end (commit with *)
(* the flush before it); rows are protected by the compare & swap on their *)
(* epoch, which an UPDATE checks (StaleDataError) and a DELETE does not,   *)
(* because the mappers set confirm_deleted_rows to False: it deletes no    *)
(* row.                                                                    *)
(*                                                                         *)
(* A transaction of a client writes one object: on_commit does the same    *)
(* for each object of a flush, and the logs of an object are replayed      *)
(* apart from those of the others.  How many logs there can be then is a   *)
(* question for ActionLogs.  ActionLog.id is given at the flush: two       *)
(* overlapping writes of an object can have their ids and their commits in *)
(* distinct orders.  One of them fails then, or is a DELETE that misses    *)
(* its row, whose log may then win over a write that commits later; rules  *)
(* are rebuilt from their rows, whatever the order.                        *)
(*                                                                         *)
(* The typed trees (config, monitored, operational) are written together   *)
(* and deleted together: they are one row here, whose content says of each *)
(* object the value that the tree has for it.                              *)
(***************************************************************************)
EXTENDS Naturals, FiniteSets

CONSTANTS Objs,      \* AIM objects of the root
          SGRules,   \* those that are security group rules
          NameOf,    \* NameOf[o]: the name attribute of a security group rule
          Vals,      \* attribute values of an object
          Hidden,    \* values that keep the object out of the trees: sync=False, or
                     \* for a security group rule one that blocks all traffic
          Absent,    \* no row, or no node in the tree
          Clients,   \* sessions that write AIM objects
          Agents,    \* AID processes
          Settings   \* the settings in which the root is looked at

\* A setting: who writes which objects and values, which agents serve the root
\* (more than one while its assignment changes), which of them may take the root
\* for deleted, whether the root has its trees at the start, MAX_EVENTS_PER_ROOT,
\* and two bounds: on the transactions of the clients and on the calls of
\* AimDbUniverse.reset.
Setting ==
    [clients : SUBSET Clients, objs : SUBSET Objs, vals : SUBSET Vals,
     agents : SUBSET Agents, cleaners : SUBSET Agents, trees : BOOLEAN,
     maxEvents : Nat \ {0}, maxWrites : Nat, maxResets : Nat]

ASSUME ListenerAssumption ==
    /\ SGRules \subseteq Objs /\ Hidden \subseteq Vals
    /\ Absent \notin Vals
    /\ \A s \in Settings : /\ s \in Setting
                           /\ s.cleaners \subseteq s.agents
                           /\ IsFiniteSet(s.clients)

VARIABLES setting, \* one of Settings; it never changes
          db,     \* db[o]: the row of an object, [val, epoch]
          log,    \* the action logs of the root
          nextId, \* ActionLog.id of the next log
          base,   \* the row of the base tree, with needs_reset
          typed,  \* the row of the typed trees
          ctx,    \* ctx[c]: open transaction of a client
          atx,    \* atx[a]: open transaction of an agent
          writes, \* client transactions so far
          resets, \* reset requests so far
          missed  \* history: objects whose last committed write is a DELETE that
                  \* matched no row although there is one

vars ==
    <<setting, db, log, nextId, base, typed, ctx, atx, writes, resets, missed>>

Idle == [kind |-> "idle"]

Row == [val : Vals \cup {Absent}, epoch : Nat]
NoRow == [val |-> Absent, epoch |-> 0]

Content == [Objs -> Vals \cup {Absent}]
EmptyContent == [o \in Objs |-> Absent]

Actions == {"create", "delete", "reset"}
LogEntry == [id : Nat, action : Actions, obj : Objs, val : Vals \cup {Absent}]

BaseRow == [exists : BOOLEAN, reset : BOOLEAN, epoch : Nat]
TypedRow == [exists : BOOLEAN, content : Content, epoch : Nat]
NoBase == [exists |-> FALSE, reset |-> FALSE, epoch |-> 0]
NoTyped == [exists |-> FALSE, content |-> EmptyContent, epoch |-> 0]

WriteTx ==
    [kind : {"create", "update", "delete"}, obj : Objs,
     val : Vals \cup {Absent}, epoch : Nat, resetting : BOOLEAN, full : BOOLEAN]
CatchUpTx ==
    [kind : {"catchup"}, log : SUBSET LogEntry, db : [Objs -> Row],
     base : BaseRow, typed : TypedRow]
CleanupTx == [kind : {"cleanup"}, base : BaseRow, typed : TypedRow]

ClientTx == {Idle} \cup WriteTx
AgentTx == {Idle} \cup CatchUpTx \cup CleanupTx

Init ==
    /\ setting \in Settings
    /\ db = [o \in Objs |-> NoRow]
    /\ log = {}
    /\ nextId = 1
    /\ base = IF setting.trees THEN [NoBase EXCEPT !.exists = TRUE, !.epoch = 1]
                               ELSE NoBase
    /\ typed = IF setting.trees THEN [NoTyped EXCEPT !.exists = TRUE, !.epoch = 1]
                                ELSE NoTyped
    /\ ctx = [c \in Clients |-> Idle]
    /\ atx = [a \in Agents |-> Idle]
    /\ writes = 0
    /\ resets = 0
    /\ missed = {}

-----------------------------------------------------------------------------
(* Clients of the AIM manager.                                             *)

Resetting(L) == \E l \in L : l.action = "reset"

\* create, update and delete read the row of the object; on_commit, later in the
\* same snapshot, counts the logs of the root and its RESET logs.
BeginWrite(c, kind, o, v) ==
    /\ ctx[c] = Idle
    /\ writes < setting.maxWrites
    /\ \/ kind = "create" /\ db[o].val = Absent /\ v \in Vals
       \/ kind = "update" /\ db[o].val # Absent /\ v \in Vals \ {db[o].val}
       \/ kind = "delete" /\ db[o].val # Absent /\ v = Absent
    /\ writes' = writes + 1
    /\ ctx' = [ctx EXCEPT ![c] =
                  [kind |-> kind, obj |-> o, val |-> v, epoch |-> db[o].epoch,
                   resetting |-> Resetting(log),
                   full |-> Cardinality(log) >= setting.maxEvents]]
    /\ UNCHANGED <<setting, db, log, nextId, base, typed, atx, resets, missed>>

\* The row at the end of the transaction.  The list attributes of a security
\* group rule are written without touching the epoch of the rule.
RowAfter(t) ==
    LET row == db[t.obj]
    IN  CASE t.kind = "create" -> [val |-> t.val, epoch |-> 1]
          [] t.kind = "update" /\ t.obj \in SGRules -> [row EXCEPT !.val = t.val]
          [] t.kind = "update" /\ t.obj \notin SGRules ->
                 [val |-> t.val, epoch |-> t.epoch + 1]
          [] t.kind = "delete" -> IF row.epoch = t.epoch THEN NoRow ELSE row

\* Integrity errors of the database and StaleDataError: the transaction is rolled
\* back.  A DELETE never fails.
WriteConflict(t) ==
    LET row == db[t.obj]
    IN  \/ t.kind = "create" /\ row.val # Absent
        \/ t.kind = "update" /\ row.val = Absent
        \/ t.kind = "update" /\ t.obj \notin SGRules /\ row.epoch # t.epoch

\* on_commit, for a transaction that writes one object: nothing while a reset is
\* pending, a RESET when there are too many.
LogOf(t) ==
    IF t.resetting THEN {}
    ELSE {[id |-> nextId,
           action |-> IF t.full THEN "reset"
                      ELSE IF \/ t.kind = "delete"
                              \/ t.val \in Hidden /\ t.obj \notin SGRules
                           THEN "delete" ELSE "create",
           obj |-> t.obj, val |-> t.val]}

\* The DELETE of a row that another client has changed since.
MissesRow(t) == t.kind = "delete" /\ RowAfter(t).val # Absent

CommitWrite(c) ==
    /\ ctx[c] # Idle
    /\ ~WriteConflict(ctx[c])
    /\ db' = [db EXCEPT ![ctx[c].obj] = RowAfter(ctx[c])]
    /\ log' = log \cup LogOf(ctx[c])
    /\ nextId' = nextId + 1
    /\ ctx' = [ctx EXCEPT ![c] = Idle]
    /\ missed' = IF MissesRow(ctx[c]) THEN missed \cup {ctx[c].obj}
                                      ELSE missed \ {ctx[c].obj}
    /\ UNCHANGED <<setting, base, typed, atx, writes, resets>>

AbortWrite(c) ==
    /\ ctx[c] # Idle
    /\ WriteConflict(ctx[c])
    /\ ctx' = [ctx EXCEPT ![c] = Idle]
    /\ UNCHANGED <<setting, db, log, nextId, base, typed, atx, writes, resets, missed>>

-----------------------------------------------------------------------------
(* What an agent computes from its snapshot.                               *)

\* The value that the trees have for an object with the given row.
TreeVal(v) == IF v \in Hidden THEN Absent ELSE v

\* _recreate_trees: the trees built from the objects alone.
Recreate(rows) == [o \in Objs |-> TreeVal(rows[o].val)]

\* _preprocess_logs marks as SKIP the logs of a security group rule that the
\* rows contradict.
Usable(l, rows) ==
    \/ l.obj \notin SGRules
    \/ l.action = "create" /\ rows[l.obj].val # Absent
    \/ l.action = "delete" /\ rows[l.obj].val = Absent

\* ... and those of a rule that are followed by a log of a rule with the same
\* name.
Superseded(l, L, rows) ==
    /\ l.obj \in SGRules
    /\ \E m \in L : /\ m.obj \in SGRules
                    /\ NameOf[m.obj] = NameOf[l.obj]
                    /\ Usable(m, rows)
                    /\ m.id > l.id

\* The logs that build() gets to see.
Effective(L, rows) ==
    {l \in L : Usable(l, rows) /\ ~Superseded(l, L, rows)}

\* What build() puts in the tree: the object of the log, the row for a rule.
Built(l, rows) ==
    IF l.action = "delete" THEN Absent
    ELSE IF l.obj \in SGRules THEN TreeVal(rows[l.obj].val) ELSE l.val

\* build() applied to the logs in the order of their ids: the last one that is
\* about an object decides.
Replay(content, L, rows) ==
    [o \in Objs |->
        LET mine == {l \in Effective(L, rows) : l.obj = o}
        IN  IF mine = {} THEN content[o]
            ELSE Built(CHOOSE l \in mine : \A m \in mine : m.id <= l.id, rows)]

\* The trees of a root without rows get a root key, and are stored, only when
\* build() has added something to them.
Adds(L, rows) ==
    \E l \in Effective(L, rows) : Built(l, rows) # Absent

-----------------------------------------------------------------------------
(* Agents.                                                                 *)

\* Fault for the mutants: a root is only looked at once it has a base tree.
BeginCatchUpServed(a) ==
    /\ atx[a] = Idle
    /\ log # {} /\ base.exists
    /\ atx' = [atx EXCEPT ![a] = [kind |-> "catchup", log |-> log, db |-> db,
                                  base |-> base, typed |-> typed]]
    /\ UNCHANGED <<setting, db, log, nextId, base, typed, ctx, writes, resets, missed>>

BeginCatchUp(a) ==
    /\ atx[a] = Idle
    /\ log # {}
    /\ atx' = [atx EXCEPT ![a] = [kind |-> "catchup", log |-> log, db |-> db,
                                  base |-> base, typed |-> typed]]
    /\ UNCHANGED <<setting, db, log, nextId, base, typed, ctx, writes, resets, missed>>

\* The rest of catch_up_with_action_log, for a snapshot s.
\*
\* The trees are recreated when the base tree has needs_reset, which
\* _cleanup_resetting_roots sets for a RESET log, if there is a base tree.
Resets(s) == s.base.exists /\ (s.base.reset \/ Resetting(s.log))

\* _cleanup_resetting_roots leaves no log to replay.
Replayed(s) == IF Resetting(s.log) THEN {} ELSE s.log

\* What _push_changes_to_trees, or reset(), puts in the trees.
NewContent(s) ==
    IF Resets(s) THEN Recreate(s.db)
    ELSE Replay(s.typed.content, Replayed(s), s.db)

\* update_bulk creates the rows of a tree that has none; a tree without rows is
\* only stored if something was added to it.
Creates(s) ==
    /\ ~s.typed.exists
    /\ IF Resets(s) THEN NewContent(s) # EmptyContent
       ELSE Adds(Replayed(s), s.db)

Keep == [kind |-> "keep"]   \* a row that the transaction does not write

\* Fault for the mutants: update_bulk does not create the base tree.
BaseWriteNoCreate(s) ==
    IF Resets(s) THEN [s.base EXCEPT !.reset = FALSE, !.epoch = @ + 1] ELSE Keep

\* clean_by_root_rn clears needs_reset; update_bulk creates the base tree.
BaseWrite(s) ==
    IF Resets(s) THEN [s.base EXCEPT !.reset = FALSE, !.epoch = @ + 1]
    ELSE IF Creates(s) /\ ~s.base.exists
         THEN [exists |-> TRUE, reset |-> FALSE, epoch |-> 1]
    ELSE Keep

TypedWrite(s) ==
    IF s.typed.exists
    THEN [s.typed EXCEPT !.content = NewContent(s), !.epoch = @ + 1]
    ELSE IF Creates(s)
         THEN [exists |-> TRUE, content |-> NewContent(s), epoch |-> 1]
    ELSE Keep

\* The logs are deleted, but by a reset that no RESET log asked for.
Dropped(s) == IF Resets(s) /\ ~Resetting(s.log) THEN {} ELSE s.log

\* Fault for the mutants: no compare & swap.
StaleWriteNever(new, old, row) == FALSE

\* An INSERT fails on a row that exists, an UPDATE on a row whose epoch is not
\* the one of the snapshot.
StaleWrite(new, old, row) ==
    /\ new # Keep
    /\ IF old.exists THEN ~row.exists \/ row.epoch # old.epoch ELSE row.exists

CatchUpConflict(s) ==
    \/ StaleWrite(BaseWrite(s), s.base, base)
    \/ StaleWrite(TypedWrite(s), s.typed, typed)

CommitCatchUp(a) ==
    /\ atx[a].kind = "catchup"
    /\ ~CatchUpConflict(atx[a])
    /\ LET newBase  == BaseWrite(atx[a])
           newTyped == TypedWrite(atx[a])
       IN  /\ base' = IF newBase = Keep THEN base ELSE newBase
           /\ typed' = IF newTyped = Keep THEN typed ELSE newTyped
    /\ log' = log \ Dropped(atx[a])
    /\ atx' = [atx EXCEPT ![a] = Idle]
    /\ UNCHANGED <<setting, db, nextId, ctx, writes, resets, missed>>

\* The exception is logged and everything is rolled back: the logs are still
\* there for the next observe().
AbortCatchUp(a) ==
    /\ atx[a].kind = "catchup"
    /\ CatchUpConflict(atx[a])
    /\ atx' = [atx EXCEPT ![a] = Idle]
    /\ UNCHANGED <<setting, db, log, nextId, base, typed, ctx, writes, resets, missed>>

\* AimDbUniverse.reset: set_needs_reset_by_root_rn, in a transaction of its own.
RequestReset ==
    /\ resets < setting.maxResets
    /\ base.exists
    /\ base' = [base EXCEPT !.reset = TRUE, !.epoch = @ + 1]
    /\ resets' = resets + 1
    /\ UNCHANGED <<setting, db, log, nextId, typed, ctx, atx, writes, missed>>

\* cleanup_state: delete_by_root_rn(if_empty=True) gives up when a typed tree has
\* a root.
BeginCleanup(a) ==
    /\ a \in setting.cleaners
    /\ atx[a] = Idle
    /\ base.exists \/ typed.exists
    /\ typed.content = EmptyContent
    /\ atx' = [atx EXCEPT ![a] = [kind |-> "cleanup", base |-> base,
                                  typed |-> typed]]
    /\ UNCHANGED <<setting, db, log, nextId, base, typed, ctx, writes, resets, missed>>

\* The DELETE of a row whose epoch has changed deletes nothing and is no error.
DeleteRow(row, old, none) ==
    IF old.exists /\ row.exists /\ row.epoch = old.epoch THEN none ELSE row

CommitCleanup(a) ==
    /\ atx[a].kind = "cleanup"
    /\ base' = DeleteRow(base, atx[a].base, NoBase)
    /\ typed' = DeleteRow(typed, atx[a].typed, NoTyped)
    /\ atx' = [atx EXCEPT ![a] = Idle]
    /\ UNCHANGED <<setting, db, log, nextId, ctx, writes, resets, missed>>

-----------------------------------------------------------------------------
ClientStep(c) ==
    \/ \E kind \in {"create", "update", "delete"}, o \in setting.objs,
          v \in setting.vals \cup {Absent} : BeginWrite(c, kind, o, v)
    \/ CommitWrite(c)
    \/ AbortWrite(c)

CatchUpStep(a) == BeginCatchUp(a) \/ CommitCatchUp(a) \/ AbortCatchUp(a)

AgentStep(a) == CatchUpStep(a) \/ BeginCleanup(a) \/ CommitCleanup(a)

Next ==
    \/ \E c \in setting.clients : ClientStep(c)
    \/ \E a \in setting.agents : AgentStep(a)
    \/ RequestReset

Spec == Init /\ [][Next]_vars

\* The daemon loop of a live agent keeps calling observe(); a transaction that
\* is open ends.
Fairness ==
    /\ \A a \in Agents : /\ WF_vars(a \in setting.agents /\ CatchUpStep(a))
                         /\ WF_vars(CommitCleanup(a))
    /\ \A c \in Clients : WF_vars(CommitWrite(c) \/ AbortWrite(c))

FairSpec == Spec /\ Fairness

-----------------------------------------------------------------------------
(* Properties.                                                             *)

\* The rows, logs and transactions have their types.
TypeOK ==
    /\ setting \in Settings
    /\ db \in [Objs -> Row]
    /\ log \subseteq LogEntry
    /\ nextId \in Nat
    /\ base \in BaseRow
    /\ typed \in TypedRow
    /\ ctx \in [Clients -> ClientTx]
    /\ atx \in [Agents -> AgentTx]
    /\ writes \in 0..setting.maxWrites
    /\ resets \in 0..setting.maxResets
    /\ missed \subseteq Objs

\* The logs of the root stay below the threshold: no RESET log is written.
NeverFull == setting.maxWrites < setting.maxEvents

\* _preprocess_logs keys the logs of rules by name: no rule hides another one.
NamesDiffer ==
    \A o, p \in setting.objs \cap SGRules : NameOf[o] = NameOf[p] => o = p

\* One agent serves the root.
Alone == \A a, b \in setting.agents : a = b

\* The root has its trees and nobody takes it for deleted.
Steady == setting.trees /\ setting.cleaners = {}

\* When nothing may be lost: the rows of the trees are only replaced, so that
\* their epoch tells all versions apart, or there is one agent.
Sheltered == NeverFull /\ NamesDiffer /\ (Steady \/ Alone)

\* Nothing is lost between the objects and the trees: the stored trees and the
\* pending logs give together, at any time, the trees that _recreate_trees builds
\* from the objects (what _validate_config_trees compares), whatever transactions
\* of agents overlap with each other, with those of clients and with a reset that
\* a universe asks for; but for an object whose DELETE matched no row.
ReplayConverges ==
    Sheltered => \A o \in Objs \ missed :
                     Replay(typed.content, log, db)[o] = Recreate(db)[o]

\* Trees with something in them have the base tree of their root.
NoOrphanTrees == typed.content # EmptyContent => base.exists

\* While one agent serves the root, a root that has a tree with something in it
\* has its base tree: it is listed by get_roots() and some agent is assigned to
\* it (aim_universe.py:116, "Never remove a tenant if there are leftovers").
NoLeftovers == Alone => NoOrphanTrees

\* The agents get to the end of the logs, however their transactions collide, and
\* the trees end up being those of the objects.
EventuallyCaughtUp ==
    Sheltered ~> [](/\ log = {}
                    /\ \A o \in Objs \ missed : typed.content[o] = Recreate(db)[o])

\* With the logs consumed, the stored trees are those of the objects: the
\* comparison of _validate_config_trees (hashtree_db_listener.py:377), which also
\* has to hold "through full reset" (test_agent.py:1460).
ConfigTreeValid == log = {} => typed.content = Recreate(db)
=============================================================================
