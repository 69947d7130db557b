# Verification of the ACI Integration Module

TLA+ models of `aim/` (the AIM library, its database and the agent AID, the "ACI
inconsistency detector"), checked with TLC on small instances, with theorems
about them proved by TLAPS for every value of the constants.

## The system

AIM stores a desired configuration of a Cisco ACI fabric in a database. One or
more AID processes compare it with what the APIC controllers report and push the
differences. The comparison is made on hash trees, one per *root* (an ACI tenant
or another top-level object), in three pairs of *universes*:

| pair        | desired               | current                 |
|-------------|-----------------------|-------------------------|
| config      | AIM database          | APIC                    |
| operational | APIC (faults)         | AIM database            |
| monitored   | APIC (foreign objects)| AIM database            |

### Inventory

| Component (source under `src/aim/`) | State | Operations | Hard behaviour | Correct when |
|---|---|---|---|---|
| Structured hash tree (`common/hashtree/`) | nodes with a partial hash, a *stored* full hash, dummy and error marks | `add`, `include`, `pop`, `clear`, `diff` | hashes recomputed along one path only; dummies pruned along one path only; pruning of `diff` on stored hashes | hashes are those of the subtrees, no barren dummies, `diff` exact |
| Tree listener, tree manager (`db/hashtree_db_listener.py`, `tree_manager.py`) | action logs, base tree with `needs_reset`, typed trees | `on_commit`, `catch_up_with_action_log`, `reset`, `delete_by_root_rn` | transactions of clients and agents that overlap, resets, log limit, roots without trees | trees plus logs always give the trees of the objects; logs are consumed; logs are bounded |
| AIM manager and store (`aim_manager.py`, `aim_store.py`, `db/`) | rows with an epoch, status rows | `create`, `update`, `delete`, status calls, pre- and post-commit hooks | compare & swap on the epoch, hooks inside a transaction | no update is lost |
| Agent daemon, sharding (`agent/aid/service.py`, `common/hashring.py`) | agent rows with heartbeat, served roots | `_daemon_loop`, `_reconciliation_cycle`, `_heartbeat_loop`, `_calculate_tenants`, `assign_key` | agents that stop, late heartbeats, assignments computed at different times | every root has one live server in the end |
| Universes (`agent/aid/universes/base_universe.py`, `aim_universe.py`) | served roots, trees, counters of failed operations | `serve`, `observe`, `reconcile`, `vote_deletion_candidates`, `finalize_deletion_candidates`, `cleanup_state`, `reset`, `push` | retries, resets and purges over many cycles; deletion agreed by several universes | the universes converge; a root is removed only when it is empty everywhere |
| ACI universe, APIC lease (`universes/aci/aci_universe.py`, `api/infra.py`) | one thread per served tenant, websocket, lease on an APIC | `serve`, `observe`, `reset`, login and reconnect | threads, lease expiry, failover | one agent per APIC lease, served tenants have a thread |
| Tenant manager (`universes/aci/tenant.py`) | trees built from events, backlog, ownership tags | event loop, `push_aim_resources`, `_push` | events out of order, backlog drained by another thread | the tree follows the events, nothing pushed is dropped |
| Status and errors (`universes/aci/error.py`, `api/status.py`) | sync status per resource | pending, synced, error, recover | late success after error, retries | an error is retried or stays visible |
| Event services (`agent/aid/event_handler.py`, `event_services/`) | queue, sender threads | `serve`, `reconcile`, `get_event` | squashing, full queue | no request is lost |
| Configuration (`config.py`) | subscriptions, callbacks | `register_callback`, polling | concurrent change of the subscriptions | callbacks follow the database |
| Kubernetes watcher (`universes/k8s/k8s_watcher.py`) | queue, versions, trees | watch threads, persistence thread | reconnects, stale versions | trees follow the objects |
| NAT strategies (`aim_lib/nat_strategy.py`) | AIM objects of an external network | create, connect, disconnect, delete | shared objects, order of calls | what was created for a VRF goes with it |
| Resource classes and database models (`api/`, `db/models.py`) | identity, parents and owner of each class; tables, constraints and association rows | `from_attr`, `to_attr`, `root`, `dn` | some seventy classes kept consistent by hand | a class has the parent, identity and constraint that its children rely on |
| Converters (`universes/aci/converter.py`, `converters/`) | none | both directions of the conversion, squashing | objects in any order, parts of resources, lists of parts | the conversions are inverse to each other |
| Migrations, CLI, server | none of their own | | | |

Components interact through the database (rows, action logs, trees, agents),
through calls of the daemon loop on the universes, and through queues between
threads (event handler, tenant managers, push backlog).

## Modules

| Module | Models |
|---|---|
| `HashTree` | `StructuredHashTree`: the operations, the stored hashes and `diff` |
| `DiffRounds` | the cycles that carry out what `diff` lists, operation by operation |
| `HashTree_proofs` | the theorems about `HashTree` and `DiffRounds` |
| `MCHashTree` | instances of them |
| `TreeListener` | the trees in the database: clients, agents, logs, resets, cleanup |
| `ActionLogs` | how many logs transactions of any size can add |
| `TreeListener_proofs` | the theorems about both |
| `MCTreeListener`, `MCListener` | instances of them |
| `HashRing`, `MCHashRing` | several instances of `ConsistentHashRing`, one for each agent |
| `TenantSharding` | which agent serves which root: agent rows, heartbeats, watchdog, serving cycles |
| `TenantSharding_proofs` | the theorems about it and about `HashRing` |
| `MCTenantSharding` | instances of it, whose assignment of roots is that of `HashRing` |
| `RootDeletion` | the life of one root in the reconciliation cycle: votes, waiting, pushes, cleanup, and the thread of the tenant |
| `RootDeletion_proofs` | the theorems about it |
| `TenantPush`, `MCTenantPush` | the objects of one tenant: comparison, counters of failed operations, backlog, pushes, errors and recovery |
| `AciTenant_proofs` | the theorems about it and about `Converter` |
| `ApicLease`, `MCApicLease` | which agent talks to which host of the APIC cluster: leases, backups, recovery, monitor |
| `ApicLease_proofs` | the theorems about it |
| `Schema` | every resource class: parent, identity, ownership |
| `ResourceTree`, `MCResourceTree` | objects of any class of `Schema` with their status: cascades, propagation, recovery, zombies |
| `Tables` | every database table: unique constraint, how its lists are stored |
| `RowStore`, `MCRowStore` | concurrent transactions on the table of any class of `Tables` |
| `AimStore_proofs` | the theorems about `RowStore` and `ResourceTree` |
| `NatStrategy`, `MCNatStrategy` | the three NAT strategies of `aim_lib` |
| `NatStrategy_proofs` | the theorems about it |
| `ConversionRules`, `Converter`, `MCConverter` | the resource maps, and both converters |

### `HashTree`

The variable `tree` maps the name of a tree to a function from keys to nodes. A
key is an element of `Keys`; `Anc[k]` stands for its prefixes (the code's keys
are tuples and the algorithms use nothing else of them). The hash of a node is
taken to be free of collisions, so the partial hash is what is hashed and a full
hash is the set of pairs that are folded into it. It is a *field of the node*:
`Recalculate` changes it only for the nodes of the stack, from the stored hashes
of the children off the stack, as `_recalculate_parents_stack` does. Actions:
`Add`, `Pop`, `Clear` and `Include` (an `include()` whose second node is refused
and whose first one is rolled back; an `include()` that succeeds is a sequence of
`Add`). `diff` is the pair of `DiffAdd` and `DiffRemove`.

Left out: metadata, which do not enter hashes, and the JSON form.

### `DiffRounds`

Extends `HashTree` with what its `diff` is for. `sync` is the root that is being
reconciled: the desired and the current tree, and the keys of the diff that are still to
be carried out. Each of them is carried out by the operation of `HashTree` that
`AimHashTreeMaker` uses for it, so that every step of `DiffRounds` is a step of `HashTree`
or leaves the trees alone (`RoundsImplement`).

| Action | Code |
|---|---|
| `Change` | any operation of `HashTree` while nothing is reconciled |
| `Reconcile`, `ReconcileAgain` | `diff` in `BaseUniverse._reconcile`, in one cycle and in the next |
| `DeleteOne` | `AimHashTreeMaker.delete`, which clears the node |
| `CreateOne` | `AimHashTreeMaker.update`, which adds the node; the resource may be in error |
| `Settled` | the end of the cycle |

The order is free: requests are answered in any order. The two trees do not change for
other reasons between the two cycles. If they do, the next diff starts afresh, which is
the state after `Settled` and `Change`.

### `TreeListener`

One root. `db` holds the rows of its objects with their epochs, `log` the action
logs, `base` the row of the base tree with `needs_reset`, `typed` the row of the
typed trees, `ctx` and `atx` the open transactions of clients and agents.

Isolation: a transaction reads one snapshot (MySQL/InnoDB's default, REPEATABLE
READ) at its begin action and writes at its commit action; an UPDATE of a row
whose epoch has moved fails (`StaleDataError`, the whole transaction is rolled
back), an INSERT of an existing row fails, and a DELETE of a row whose epoch has
moved deletes nothing, without an error, because of `confirm_deleted_rows: False`
in `db/model_base.py`. `lock_update` does not lock in this store: it is only a
hint that the query does not use for trees.

A transaction of a client writes one object. `on_commit` treats each object of a flush
alike, and the logs of an object are replayed apart from those of the others; but larger
transactions add more logs, and how many there can be is the question of `ActionLogs`. The
flush and the commit are one step, and the id of the log is given there; the code gives it
at the flush. Where writes of one object overlap, one of them fails or is a DELETE that
misses its row; the log of such a DELETE may have a larger id than that of a write which
commits after it, and takes the object out of the trees for longer than `missed` says
(below). Security group rules are rebuilt from their rows whatever the order.

The three typed trees are written together, deleted together and are one row; an
object that is not in them (`sync=False`, or a rule that blocks all traffic) has
a value in `Hidden`. The updates of security group rules modelled are those of
their list attributes, the ones that the code exempts from the epoch.

| Action | Code |
|---|---|
| `BeginWrite`, `CommitWrite`, `AbortWrite` | `AimManager.create/update/delete` of an object, `_before_session_commit`, `on_commit` |
| `BeginCatchUp`, `CommitCatchUp`, `AbortCatchUp` | `catch_up_with_action_log` of one root, its exception handler |
| `RequestReset` | `AimDbUniverse.reset` |
| `BeginCleanup`, `CommitCleanup` | `AimDbUniverse.cleanup_state` |

`setting` is a constant of each behaviour: the clients, agents, objects and limits that
it has. The history variable `missed` holds the objects whose last committed write is a
DELETE that matched no row; its log takes the object out of the trees although the row
is still there, and the next write of the object puts it back. `ReplayConverges` and
`EventuallyCaughtUp` except these objects, and are about the settings that are
`Sheltered`:

- `NeverFull`: at the log limit a RESET log is written, with the race of
  `listener_reset_race`;
- `NamesDiffer`: rules of the same name hide each other (`MCTreeListener_rule_names.cfg`);
- `Steady` or `Alone`: either the rows of the trees are only ever replaced, so that their
  epoch tells all versions apart, or one agent serves the root. Several agents of which
  one deletes the trees let the epoch start again from the beginning, so that an old
  snapshot passes the compare and swap; several agents on a root without trees let the
  INSERT of one succeed with the contents of an older snapshot. `TenantSharding` shows
  that a root has one server once the agents have settled.

### `ActionLogs`

The logs of one root as rows that count: `table` has the committed ones, `tx` the open
transaction of each session (`seen`, the logs of its snapshot, and `own`, those it has
flushed), `reading` what a server works through, `lastId` the last `ActionLog.id`.

| Action | Code |
|---|---|
| `BeginTx`, `CommitTx`, `RollbackTx` | the transaction of a session |
| `Flush(c, n)` | `_before_session_commit` with `on_commit` for the `n` objects of the flush |
| `Fetch`, `DeleteLogs`, `KeepLogs` | `catch_up_with_action_log`, which commits or not |

A transaction has any number of flushes. `on_commit` counts anew for each object, but
inside a flush its queries do not flush, so that all objects of one flush see the same
logs: a flush that meets `MAX_EVENTS_PER_ROOT - 1` logs still adds one for each object, and
the next one, of that or another session, as many RESETs. Sessions do not see each other's
logs before they commit, so that each of them can do this: `LogBounded` is about the logs
of one session, and several sessions pass the threshold by as much each.

### `HashRing`

Every agent builds a ring of its own, hence `Instances`; `nodes[i]` has the weights of an
instance and `ring[i]` its stars. The code keeps a list of stars sorted by hash, with those
of equal hash in the order in which they came; here that is a function from the hashes
that have stars to the sequence of their nodes. `bisect.insort` puts a star after its
equals (`WithNode` appends), `remove` takes the first star that is equal, whatever its
node (`WithoutNode` takes the head): that is what matters when stars collide. `add_nodes`
of a dictionary is a sequence of `AddNode`. In `AssignKey` a turn of the recursive
function `given` stands for the turns of the loop up to the next node that is added:
`Sooner` is the order in which `index - x` meets the stars.

MD5 is a table (`StarHash`, `KeyHash`): an instance chooses how the stars interleave and
whether they collide. That the stars of distinct nodes do not is `StarsApart`. It is a
hypothesis of the theorems about assignments and holds in the run; the code does not
ensure it (see the observations below).

### `TenantSharding`

A row per agent (`known`, `age` of the heartbeat, `admin`, `version`, `stored`
for `hash_trees`) and a process per agent (`running`, `served`, `idle` since
`daemon_loop_time`). `Owner[S][r]` is what a ring with the members `S` returns; in
the runs it is the one of `HashRing` (`RingOwnerAssumption`, evaluated by TLC),
in the proofs any function that gives a root to a member.

| Action | Code |
|---|---|
| `Start` | `AID.__init__`: the row is created or overwritten, which also sets `admin_state_up` again |
| `Heartbeat` | `_heartbeat_loop`: the row is touched; if the daemon loop has not ended a cycle for `agent_deadlock_time` the process exits |
| `Serve`, `Suicide` | the serving part of `_reconciliation_cycle` with `_calculate_tenants` and `_tenant_assignation_algorithm` |
| `Crash`, `Hang`, `Slow`, `Recover` | process failure, a daemon loop that is stuck, a database that delays heartbeats |
| `Administer`, `ChangeRoots` | changes of the rows by others |
| `Tick` | time; it waits for the loops that are due |

`heartbeat_timestamp` is written by every UPDATE of the row (`onupdate`), so that
a serving cycle that changes `hash_trees`, or an operator, also revives an agent:
the model has this. `down_time` is `timedelta.seconds`, which starts again from 0
after a day: `DownFor` is `age % Day`, with a short day in the runs so that the
case happens. Assumed: `recovery_restart` is on (the default), the processes are
started again by their supervisor, and major versions have one digit (the code
takes the maximum of the version *strings* and then compares majors).

### `RootDeletion`

One root, one agent, and everything that happens between a user who empties (or
fills again) a tenant and the removal of its trees. A tree is the set of the
*kinds* of nodes that it has: `own` (configured by AIM), `fault`, `tenant` (the
tenant itself when it is not AIM's) and `foreign` (other objects that are not
AIM's). The config pair compares `own`, the operational pair `fault`, the
monitored pair `tenant` and `foreign`. `db`, `log`, `tree` and `exists` are the
database; `served`, `aim`, `aci`, `count` (`_deleting_roots`), `candidate` and
`phase` the daemon loop; `apic` the fabric; `seen`, `mgr` and `backlog` the tenant
manager.

| Action | Code |
|---|---|
| `Serve` | the serving part of the cycle, `serve()` of the AIM and ACI universes (threads are killed, replaced when dead, started) |
| `Observe(p)` | `observe()` of both universes of a pair; that of AIM replays the logs |
| `Reconcile(how)` | votes and vetoes, `reconcile()` of the three pairs with masks and counts, `push_resources`, `reset`, final votes |
| `Cleanup` | `cleanup_state` of the universes |
| `Subscribe`, `Events`, `Push`, `Lose`, `Die` | the tenant manager's thread: subscription, events, the backlog, a lost connection or scheduled reset, the end of the thread |
| `Configure`, `ChangeApic` | users of AIM, and others in the fabric |

`Reconcile` is one action because all that it reads are the states that were
observed; the thread and the users interleave with it only through the backlog,
which is written once, and the database, whose logs are read by the next
`Observe`. What `_track_universe_actions` decides from its counters is a choice:
`how[p]` is `push`, `skip`, `reset` or `error`, any of them only when there are
differences. Left out: `needs_reset` of the AIM trees (a rebuilt tree equals the
objects, as a replayed one does in this model; `TreeListener` has the difference)
and several agents (`TenantSharding`). `aci` and `seen` are forgotten where the
code keeps values that it does not read again. The counters are in `TenantPush`.

### `TenantPush`

Between the comparison and the fabric: `aim` and `apic` are what is wanted and what
there is, `seen` the tree of the tenant manager, `backlog` and `doing` what the thread
has to push and is pushing, `track` the `_sync_log` of the root, `failed` the objects in
error. `RootDeletion` leaves to chance what `_track_universe_actions` decides; here it is
computed. `_sync_log` is keyed by resources with their attributes: when a user changes the
value of an object its count starts anew (`Repeated`).

| Action | Code |
|---|---|
| `Cycle(soon)` | `_reconcile` of the config pair with `_track_universe_actions`: too soon, push, reset of the root, error; then `push_aim_resources` |
| `BeginPush`, `PushCreate`, `PushDelete` | `_push_aim_resources` under the lock of the backlog; a request is answered, lost, or carried out with its answer lost |
| `Subscribe`, `Events`, `Lose`, `Die` | the thread of the manager |
| `Serve`, `Recover`, `Crash` | `AciUniverse.serve`, `recover_root_errors`, the end of the process |
| `Configure`, `ChangeApic` | users of AIM and of the APIC |

`observe()` copies the states that a cycle compares; what happens after the copy is, for
the cycle, as if it happened after the cycle, so that both are one action. An event brings
the value that the object has when it is applied. Every object is AIM's own, and none is
the parent of another, but the name of one may be a prefix of the name of the other's
parent (`Covers`), which is what `_push_aim_resources` tests. Pacing: `InTime` is an
assumption. The back-off doubles up to ten minutes, so that after `Quick` retries the
thread has taken up what is in the backlog before the object is retried.

### `ApicLease`

`row[h]` is the `ApicAssignment` of a host, `ctx[a]` the `ApicClientsContext` of an
agent. Time is reduced to whether a row is younger than `apic_available_time` (600 s); a
leader refreshes it every `websocket_monitor_sleep` (10 s), so that it does not `Expire`
while there is one.

| Action | Code |
|---|---|
| `Boot`, `SessionLost`, `Reconnect`, `Recovery` | the calls of `establish_sessions`: the constructor, the monitor that finds dead threads, a failed subscription or new configuration, `need_recovery` |
| `Read`, `Claim`, `NoClaim` | one url: the row is read and judged, the login, `_update_apic_assign_db` in a transaction of its own |
| `Backup`, `Harakiri`, `GiveUp` | the end of the list |
| `BeginRenew`, `Renew` | the monitor takes `apic_assign_obj`, refreshes its row, and assigns the result |
| `Expire`, `Crash`, `HostDown`, `HostUp` | time and faults |

`establish_sessions` holds a lock that others do not wait for, hence one scan per agent
at a time; the monitor's refresh is outside of it. The history variables `lapsed` and
`overtaken` delimit the two races of the code (see below). Assumed: host names are not
substrings of each other (`self.session.ipaddr in url`).

### `Schema` and `ResourceTree`

`Schema` lists the classes with `_tree_parent`, identity attributes and the attribute
`monitored`, as `api/resource.py`, `api/service_graph.py` and `api/infra.py` declare
them. `ResourceTree` takes a family of objects, and runs `AimManager` on it: `create`,
`update` (change of owner), `delete` and `delete_all` with their refusals, `get_status`,
`set_resource_sync_synced/pending/error` with the propagation through the tree, and
`recover_root_errors` with `cleanup_zombie_status_objects`. A transaction is one step,
except for the insertion of a status row (`NewStatus`, `InsertStatus`), which takes no
lock on the object. `Recreated` is what `_recreate_trees` would read.

The families are a parameter, any objects of the schema. `MCResourceTree` takes every class
as leaf, with its parent and the parent of that or with its parent and a twin, and for two
classes all four.

`set_resource_sync_pending` calls itself for the parent and for each object under it. Such
a walk is one transaction; `SyncPending` says what it does as a whole: it climbs over the
failed ancestors (`Climb`), visits what is under each of them (`Visited`), creates the
statuses that are missing and sets the failed ones. `SyncError` is alike. `MCResourceTree`
has the recursive calls as the code makes them (`WalkPending`, `WalkError`), and the
invariant `SpreadAsWalked` compares the two from every object in every reachable state.

`SchemaAssumption` says what is relied on in the classes: they are a forest, and an identity
is never longer in a parent than in its child. TLC evaluates it on all of them.

### `Tables` and `RowStore`

`Tables` has of every database table the columns of its unique constraint, and how
`from_attr` and `to_attr` store attributes that are lists. `RowStore` picks a table and
two identities that differ in one column and lets clients `create`, `update` and
`delete`: `Begin...` reads, `Commit...` flushes with the compare and swap on `epoch`. The
database is external: unique constraints, primary and foreign keys are checked at the
flush. One class stands for each way of storing lists (`Related`).

The compare and swap does not see everything. A DELETE that lost its race matches no row
and raises no epoch, but the deletion of the association rows that it had read is
committed with it. A transaction that is open on the object meanwhile has read rows that
are no longer there and passes its own compare and swap; the rows that it keeps are not
written again. The history variable `torn` holds the clients to which this has happened
(`Tears`); `ReadsBack` is about the others, and `MCRowStore_torn.cfg` shows the behaviour.
It takes an update of an object that is at epoch 2 already, which is why the run goes up to
epoch 3 for all classes but one.

What the specification relies on in the tables is stated as `TablesAssumption`: the unique
constraint of a class contains its identity, and no attribute is stored in two ways. TLC
evaluates it on all of `Tables` and `Schema`.

### `NatStrategy`

L3Outs, external networks, subnets, contracts, bridge domains, VRFs and clones, for
`NoNat` on one side and `DistributedNat`/`EdgeNat` on the other (they differ in the
clones). Every operation of the strategies that changes objects is an action; one that
raises is rolled back and is no step. Callers are as the API documents them: they pass
CIDRs for monitored networks only, and delete what they have created. They also keep
apart the names that the code derives from theirs (`NamesAssumption`): the code joins the
names of an L3Out and of a VRF with a dash, prefixes others with `EXT-`, and checks
neither. The loops over the networks of an L3Out and over its clones are set operations:
what one turn does is independent of the others, except that a clone goes with its last
network.

### `ConversionRules` and `Converter`

`ConversionRules` is the resource map as data: for every class the objects it becomes,
which attributes each carries, and when. `Converter` turns a batch of resources into
objects (with the nodes and connections that service graphs generate, pre-existing and
monitored resources included) and reads the objects back one by one in every order,
squashing. Spelling of single values is left out.

Three named assumptions say what the converters rely on in the resource maps; TLC evaluates
them on the maps as they are in the source, over every set of attributes of every class.

| Assumption | Says of the maps |
|---|---|
| `RulesAssumption` | the schema of a DN tells the rule, up to the system's security groups; attributes that are not sent are in no rule; lists have rules of their own, one list each but for the two pairs of domain lists |
| `MapsAssumption` | complete: of a coherent resource every attribute that is sent is carried by an object; stable: what is carried of any set of attributes makes the same rules apply again; every part of a dictionary has a rule |
| `ChainAssumption` | a chain has at most three nodes, and its names are distinct once nameless nodes are dropped |

A resource is *coherent* when no attribute needs another one that is missing, as the second
address of an interface needs the first (`CoherentSet`). The converters of the code drop
what is not coherent.

## Runs

| Run | Checks | Bounds |
|---|---|---|
| `hashtree` | `RoundTypeOK`, `TreesWellFormed`, `NoBarrenDummies`, `DiffExact`, `DiffConverges` | a chain of three keys and a key of another root; 2 attribute values so that nodes can differ; two trees, any of which is reconciled with the other, two cycles, in every order of the operations |
| `listener` | `ReplayConverges`, `NoLeftovers`, `LogBounded`, `EventuallyCaughtUp` | four settings, each with an object and a rule: 1 client, 3 transactions, 2 agents, a hidden value, 1 reset; 1 agent that also cleans up, a root without trees at first, 4 transactions; 2 clients that race below the threshold, 4 transactions; 2 clients, 5 transactions, threshold 1; and `ActionLogs` with 2 sessions and a server, threshold 1, flushes of up to 2 objects, any number of flushes, 6 logs: the bound is reached, TLC refutes the one below it |
| `listener_reset_race` | violation of `ConfigTreeValid` | 1 client, 1 agent, threshold 1 |
| `hashring` | `Reproducible`, `EnoughReplicas`, `FewKeysMove` | 2 instances, 4 nodes, weights 1 and 3, stars interleaved, a key in each kind of gap, 2 replicas; all sequences of additions, changes of weight and removals |
| `sharding` | `SettledInTime`, `EventuallySettled` | 2 agents, 2 roots, 2 versions, 2 faults; heartbeat 1, down 2, suicide 3, deadlock 3, day 5, serving period 1 |
| `deletion_cycle` | `NothingForgotten`, `WantedIsPushed`, `EmptiedIsRemoved` | `Wait` 1, 2 changes by users, 1 fault |
| `tenant` | `BacklogBounded`, `EventuallyInSync`, `Surrenders` | 2 objects, one with a name that covers the other; a value that the APIC takes, one that it refuses for a while, one that it refuses critically; limits 2 and 4 (10 and 20 in the code), 2 changes, 1 fault |
| `lease` | `LeaderOnItsHost`, `NotShared`, `Takeover` | 2 hosts; 3 agents with 1 fault, or 2 agents with 2 |
| `resources` | `SpreadAsWalked`, `CascadeExact`, `ErrorCovers`, `RetrySpreads`, `ZombiesGone` | every class as leaf of a family of up to 3 objects, two classes with 4 |
| `rows` | `ReadsBack`, `NoOrphans`, `IdentityIsUnique`, `OthersKept` | every table for the identities; lists for one class of each kind; 2 symmetric clients, 2 rows, epoch up to 3 (2 for endpoint groups, which have the most attributes), 1 attribute per update |
| `nat` | `NothingLeft`, `Complete`, `ShadowsInUse`, `ShadowsAgree` | 2 L3Outs of one tenant, one of them monitored; 2 VRFs; all sequences of calls |
| `converter` | `NothingInvented`, `Stable`, `RoundTrip`, `ChainConnected` | every class of the maps; up to 3 attributes set, chains of up to 3 nodes, batches of two resources, but for the two classes of `MCConverter_squash.cfg`; up to 8 objects in every order |

Every module has a type invariant: `TypeOK`, for `DiffRounds` `RoundTypeOK`, for `HashRing`
`RingTypeOK`, for `ActionLogs` `LogTypeOK`, for `Converter` `ConversionTypeOK` and for
`ResourceTree` `ResourceTypeOK`.
It is proved for all of them.

The bound on the clients' transactions (`maxWrites`) makes the logs finite and is
larger than the length of every counterexample found; `maxEvents` is 9 (out of
reach) where resets by the limit are not the question and 1 where they are. In
`ActionLogs` six logs are enough for one session to fill the table as far as it can
while the other has written some. `MCListener` puts the two specifications into one state
space, as settings of one run: `ActionLogs` moves in a setting of its own (`RowsOnly`), where
nobody writes in `TreeListener`.
`CHECK_DEADLOCK FALSE` in the runs of the listener, `tenant`, `rows` and `converter`:
once the clients have used up their transactions, rows and changes and everything is
consumed, the system is at rest, and a batch that is converted is done.

`TenantPush`: with limits 2 and 4 every stage (retry, reset, retry, error, raised limit)
is passed by one object while the other is at any other stage. `ApicLease`: with three
agents for two hosts one waits on a backup when the fault strikes, with two faults two
agents change places. `resources`, `rows` and `converter` do not need many objects: they
go through all classes, and what matters in a class shows with two or three objects.

`RootDeletion`: the code waits for 3 cycles, the runs for 1, which keeps the three
stages (count, allow the next pair, finish) apart; the theorem holds for every
`Wait`. Two changes are enough to empty a root and to fill it again during its
deletion, and each of them may happen at any point of any cycle.

Fairness.

- `TreeListener`: the daemon loop of a live agent keeps calling `observe` (weak
  fairness of `CatchUpStep`), and a transaction that is open ends. Clients are not
  required to start anything and nobody has to ask for a reset.
- `TenantSharding`: time passes, the heartbeat thread and a daemon loop that does
  not hang go on (`retry_loop`), processes are started again and a slow database
  answers in the end. A hung daemon loop is *not* assumed to recover: the watchdog
  has to get it out. Faults are bounded (`MaxFaults`), so that there is an end to
  them; `EventuallySettled` is about what follows.
- `RootDeletion`: the daemon loop goes on (`retry_loop`); it is asked to serve
  again and again (`SF` of `Serve(TRUE)`: the polling event service sends
  `serve` every `service_polling_interval`); differences are not put off for ever
  (`SF` of `Reconcile(AllPush)`: the back-off of `_track_universe_actions` ends);
  the tenant's thread runs, and the APIC accepts a request that is repeated (`SF`
  of `Push(TRUE)`). Nothing is assumed of the users, and threads may be lost.
- `TenantPush`: the thread, `serve` and the recovery go on (`WF`; `observe()` schedules
  the next recovery each time). Strong fairness of the events, of a cycle that does not
  put off a given object, of one that gets it into the backlog, and of the thread taking
  it from there: the back-off is random (`get_backoff_time` multiplies by
  `random.random()`), so that it does not always make a retry coincide with a locked
  backlog or with a reset caused by another object. Requests are lost at most `MaxFaults`
  times.
- `ApicLease`: the scan and the refresh of an agent go on, its process is started again,
  and time passes. Nothing makes an agent begin a refresh, and a host that is down need
  not come back.
- `ResourceTree`: the recovery of a served root is scheduled again after each one.

### What the runs show

Hold: the stored hashes are right, `diff` is exact and settles after one round
(two when a dummy still carries an error mark). Below the log limit the trees and logs
never lose a change, however many clients write and however many agents replay the logs
at once, but for the deletion that lost its race. The agents, which only meet in the database, settle on exactly one server for each
root one serving period after the rows stop changing, and after any faults the
rows do stop changing. The deletion of a root forgets nothing that a user
configures meanwhile, what stays configured reaches the APIC, and a root that
stays empty is removed although three pairs wait for each other.

Whatever requests, answers, connections and agents are lost, what the APIC accepts is in
the end as AIM wants it, also beside an object that it keeps refusing, and such an object
is reported after each recovery. Agents take over the hosts of agents that have crashed.
Cascades, errors and retries reach exactly the objects they should for every class of the
schema, failed objects are retried, status rows without object are removed. Every table
keeps identities apart by its constraint, and lists that overlapping transactions write
are those of one of them, unless one is a deletion that lost its race. The logs of a session
stay below the limit plus two flushes. Whatever was done with an L3Out, the networks and
the NAT objects that a strategy created for it go with it, but for what `NothingLeft` leaves
out: the application profile, which other L3Outs may share, the subnets of EPGs, which are
the caller's, and subnets of shadows that lack the network. Clones and networks stay
consistent. The two conversions are inverse to each other for every class.

Does not hold, with the line of the repository that says otherwise (the finding of
`PROJECT.json`):

- `ConfigTreeValid` (`listener_reset_race`): a change committed while a reset is
  carried out is lost, because `on_commit` still sees the RESET log and writes none.

Because of `listener_reset_race`, `ReplayConverges` is about the settings without the log
limit (`NeverFull`); because of the lost delete below, it excepts the objects in `missed`.

### Further configurations

Each of these checks one property that TLC finds violated. They can be run with `tlc
-config` and the module of their name; they are kept apart from the runs above because
they show behaviours that do not change the picture. The hazards that they show are not
covered by the runs: `NoLeftovers` is about one agent, `ReplayConverges` and `ReadsBack`
leave out the victims of a lost deletion (`missed`, `torn`), `NotShared` and
`LeaderOnItsHost` those of the two races about a host (`lapsed`, `overtaken`).

| Configuration | Property | What happens |
|---|---|---|
| `MCTreeListener_leftovers.cfg` | `NoOrphanTrees` | `delete_by_root_rn` deletes the base tree of a root while a catch-up fills its typed trees; `aim_universe.py:116` says "Never remove a tenant if there are leftovers." |
| `MCTreeListener_rule_names.cfg` | `ConfigTreeValid` | `_preprocess_logs` keys the logs of security group rules by name alone (`hashtree_db_listener.py:277`): rules of distinct groups hide each other |
| `RootDeletion_agreed.cfg` | `AllAgreed` | a root may be removed before the operational and monitored pairs have waited, because a pair that does not have the root does not object; `base_universe.py:438` says "Once all universes have allowed the vote to go through". Nothing is lost by it (`NothingForgotten`) |
| `MCResourceTree_recreate.cfg` | `RecreateComplete` | a reset of the root `infra` raises: `Infra` has no identity and `infraInfra` is not in `ROOTLESS_TYPES` (`hashtree_db_listener.py:35`) |
| `MCRowStore_delete.cfg` | `GoneAfterDelete` | a delete that races an update matches no row and reports no error (`confirm_deleted_rows: False`, `db/model_base.py:109`); "Delete AIM resource from the database." |
| `MCRowStore_torn.cfg` | `WrittenIsRead` | the same delete has removed the association rows that it had read, and a third session that is updating the object does not notice, the epoch being what it was; "Persist AIM resource to the database." (`aim_manager.py:159`), but its list is not what is read |
| `MCConverter_squash.cfg` | `NothingInvented` | `_squash` finds entries of lists of dictionaries without the identity of their resource (`converter.py:1599`): two redirect policies with one destination ip share it |
| `MCApicLease_race.cfg` | `TakenOnlyWhenAvailable` | two agents read a row that has run out; the second claim takes the host from the first, which has just claimed it, does not notice and goes on refreshing the row: two leaders. The help text of `apic_available_time` says "Seconds to consider that this APIC can be assigned to another aim-aid since its last update time" |
| `MCApicLease_overtaken.cfg` | `MappingTracked` | a thread reconnects and claims another host between the monitor's read of `apic_assign_obj` and its assignment (`aci_universe.py:446`): the new lease is overwritten, and the agent refreshes the row of a host it does not talk to |

### Further observations

Behaviours met while modelling that no run is spent on; the models have them.

- The children of a node in error are compared and reported, although the comment
  at `structured_tree.py:37` says "When True, skip to compare children".
- A RESET log of a root without base tree is dropped: there is no row on which
  `needs_reset` could be set.
- `needs_reset` is only looked at when the root has a log, so that a reset waits for
  the next change of an object.
- A node's name and the number of a star are concatenated before they are hashed:
  `'n' + '10'` is `'n1' + '0'`. With such names stars collide, and the order of the
  insertions decides which node a key gets. The identifiers of agents end in the name of
  their host or an ordinal, and a node has 40 stars by default: `aid-node1` and
  `aid-node11` are such names. This is
  what `StarsApart` excludes; names of equal length satisfy it.
- A request or an event that is delayed for longer than the pairs wait can leave an
  object in the APIC after its root is gone; nobody compares it until the root is
  used again. `push_aim_resources` says that losing messages is harmless because
  "we should always be able to get back in sync".
- While somebody else's objects remain in the APIC, a tenant may be removed, have its
  trees recreated by the logs of the monitored pair, and be removed again, until it
  is no longer served. `EmptiedIsRemoved` is therefore `[]<>~exists`.
- Errors found in the cycle that resets the root are dropped while their limits have been
  raised: of two refused objects one may stay unreported for another round.
- The error of a request made from an old version of an object marks the new version,
  which is then left out until the next recovery (an hour by default).
- `_push_aim_resources` tests with `startswith` whether a deleted object covers the next
  one: the deletion of an unrelated object with a longer name is skipped, and comes back.
- `need_recovery` is cleared when `establish_sessions` begins, so that a monitor may
  meet no `apic_assign_obj` ("This should never happen"), or refresh a row that belongs
  to another agent by now.
- The monitor of the session looks at the threads it found when it was started: after a
  reconnection it watches those of the old session, reconnects again at every turn, and
  ends the process after as many turns as there are hosts.
- `update_external_cidrs` creates subnets in clones that lack the network; they stay.
  `NothingLeft` therefore asks of the L3Outs themselves only that subnets belong to a
  network. Disconnecting one
  network with `NoNat` takes the L3Out from the bridge domains although another network
  is still connected. Names of clones (`'%s-%s'`) may coincide for names with dashes.
- The constraints declared in `db/models.py` and those of the migrations differ for
  injected container groups, redirect policies and contracts of external networks.
- `OutOfBandContractSubject` has filters and graphs that no converter sends, and two
  relations of `InfraAccPortGroup` are not decoded under its base class.

## Proofs

The provers have no induction over data, and the library's induction theorems cannot be
instantiated. What is proved of loops below either is stated step by step, as an invariant
of a specification whose actions are the turns (`DiffRounds`), or goes by the least
counterexample: `Least` (a set of natural numbers has a least member, from `WFMin` of the
library) needs no operator parameter.

`HashTree_proofs` proves, for every `Keys`, `Anc`, `Attrs` and `Trees` that
satisfy the assumptions of `HashTree` (`Anc` is the prefix order of finite
tuples, dummies hash differently from nodes):

| Theorem | Statement |
|---|---|
| `TypeCorrect` | `Spec => []TypeOK` |
| `HashesCorrect` | `Spec => []TreesWellFormed` |
| `DummiesCorrect` | `Spec => []NoBarrenDummies` |
| `DiffIsExact` | `Spec => []DiffExact` |
| `RoundsImplement` | `RoundSpec => Spec` |
| `RoundTypeCorrect` | `RoundSpec => []RoundTypeOK` |
| `DiffDoesConverge` | `RoundSpec => []DiffConverges` |

The inductive invariant (`AllGood`) says of every tree that it is typed, well
formed and without barren dummies. None of the parts is inductive alone: that
`Recalculate` gives the right hash of a node on the stack needs the hashes of the
children off it to be right already; that `Settle` removes all dummies that
became barren needs that there was none before; and both need the tree to be
closed under prefixes. `RecalculateCorrect` and `SettleCorrect` are the lemmas on
the two helpers; `AddCorrect`, `PopCorrect` and `ClearCorrect` lift them to the
operations. `DiffCorrect` then needs `DifferenceReached`: when two versions of a
node differ below `k`, their full hashes differ at every common ancestor.

`RoundsImplement` is a refinement with the identity on `tree`: the theorems on `HashTree`
hold half way through a reconciliation as well. `DiffConverges` says nothing of a cycle
that is half done, where the next diff is what remains to be done and perhaps more.
`RoundOK` bounds it: what has to be removed is still in `clear`, what has to be added is
still in `add`, and no key of `add` has been lost from the desired tree. The second part
fails in the first cycle when a dummy of the current tree is in error: `diff` skips a node
in error, and when the last child of the dummy goes, the dummy goes with its mark
(`Cleared`, `Trimmed`). Therefore `RoundOK` claims it only if there was no such dummy or
in the second cycle, in which nothing is cleared any more (`y.round = 2 => y.clear = {}`,
itself a consequence of the first part). `RoundStarts`, `RoundClears` and `RoundAdds` are
the lemmas for a new cycle and for the two operations, which use of the hashes only that
`diff` is exact.

`TenantSharding_proofs` proves `TypeCorrect` and `SettledAlways` (`Spec =>
[]SettledInTime`) for any sets of agents, roots and versions, any `Owner` that
gives a root to a member of the ring and any times with `DownTime < Day` and
`ServePeriod <= Deadlock` (an agent is not killed between two serving cycles on
time). The inductive invariant `IInv` adds `UpToDate`: a running agent that does
not hang and whose last serving cycle is not older than the last change of what
the agents would read serves exactly what it would compute now. `SettledInTime`
alone says nothing of an agent before the period is over. Every action that may
change what is read resets `calm`, every action of another agent leaves the rest
alone (`WatchedStep`), and `Tick` waits for the serving cycles that are due;
`RingDecides` then concludes from `Owner` being a function.

That `Owner` is a function of the members, and gives a root to one of them, is what the
second half of the module proves of `HashRing`, for any instances, nodes, weights, vnodes,
replicas and hashes in range:

| Theorem | Statement |
|---|---|
| `RingTypeCorrect` | `RingSpec => []RingTypeOK` |
| `RingsAgree` | `StarsApart /\ RingSpec => []Reproducible` |
| `ReplicasAreEnough` | `StarsApart /\ RingSpec => []EnoughReplicas` |
| `KeysStay` | `StarsApart /\ RingSpec => FewKeysMove` |

The inductive invariant `RingInv` says of each instance that its ring has the stars of its
nodes, with the weights they have now, and no other (`OwnStars`; `RingGrows`,
`RingShrinks`). Two rings with `OwnStars` of the same nodes are equal (`OneRing`), whatever
their histories: that is `RingsAgree`. It is where collisions would hurt, since `remove`
takes a star of another node. `Iterates` shows that the recursive function of `AssignKey`
exists, and `Collected` is the invariant of its loop: distinct members, one more per turn
until there are no others (`LongerFacts`, for which there has to be a star that is met
first, `FirstMet`). `KeysStay` compares the rings before and after a step: the stars that
follow a key in both are the same one unless one of their nodes has come, gone or changed
its weight (`PositionFirst`, `SameServer`).

`RootDeletion_proofs` proves `NothingIsForgotten` (`Spec => []NothingForgotten`) for
every `Wait` and every bound. `NothingForgotten` is not inductive: it says nothing
of a root that has trees and logs, and a cleanup that deletes the trees of such a
root must leave a log that recreates them. The inductive invariant `Covered` adds
that, trees or not, the trees lack objects only while there is an `add` log.
`WritesAreLogged` and `ObserveCovers` are the lemmas for the two kinds of steps that
matter, `CoveredStep` has one case per action. `TypeCorrect` (`Spec => []TypeOK`) is
proved from `IType`, which strengthens the type of the backlog: it holds each request at
most once, whatever is pushed, dropped and queued again (`TailBacklog`, `QueuedBacklog`).

`TreeListener_proofs` proves, for any clients, agents, objects and limits:

| Theorem | Statement |
|---|---|
| `TypeCorrect` | `Spec => []TypeOK` |
| `NothingIsLost` | `Spec => []ReplayConverges` |
| `NoTreesAreLeft` | `Spec => []NoLeftovers` |
| `LogTypeCorrect` | `LogSpec => []LogTypeOK`, of `ActionLogs` |
| `LogsAreBounded` | `LogSpec => []LogBounded`, of `ActionLogs` |

The inductive invariant `IInv` has ten parts. For `NothingIsLost`, `AllSettle` says of each
object that either no log about it is usable and the stored tree has its value, or the
newest usable log has it (`Settles`); `SettledReplay` is that this is what a replay
gives. A catch-up that commits must not undo it, so `Current` says that a
snapshot that can still pass its compare and swap is `Fresh`: what has happened since it
was taken is in logs that were written since, which the catch-up leaves in place. With one
agent every snapshot is fresh (`Same`); with several, one whose epoch is still that of the
row. `Ids` orders the logs, `RuleRows` covers the updates of rules that leave the epoch
alone, `Quiet` that below the limit nobody ever asks for a reset. `NoTreesAreLeft` follows
from `Same` and `Rootless`.

For `LogsAreBounded` the number of all logs is of no help, since each session decides on
what its own snapshot counts. The number of its own logs is: `LogsSeen` says that an open
transaction sees all logs of its session that are still in the table, since nobody else
writes any and the servers only delete. So a flush that does not meet the threshold meets
fewer logs of its session than that, and one that meets a RESET adds none: `Bounded` allows
the logs of a session, flushed or committed (`Mine`), one flush of changes above what is
below the threshold, and one flush of RESETs. `FlushBounded` is the step; the theorem holds
for any number of sessions, servers, flushes and objects.

`ApicLease_proofs` proves `TypeCorrect`, `LeadersAreOnTheirHosts` (`Spec =>
[]LeaderOnItsHost`) and `HostsAreNotShared` (`Spec => []NotShared`) for any agents and any
list of distinct hosts. `NotShared` compares two leaders and says nothing of the agents
that have read a row and are about to claim it. `Held` does: a row that has never run out
belongs to the only agent that leads its host, refreshes it, or has read it and may write
it. `Scan` and `Settled` relate the position in the list of urls, the session and the lease
of one agent.

`AciTenant_proofs` proves of `TenantPush` `TypeCorrect` and `BacklogStaysBounded` (`Spec =>
[]BacklogBounded`) for any objects, values and limits. The invariant is the conjunction
of both; `ReplacedIsQueue` and `QueuedIsQueue` are the lemmas on what
`push_aim_resources` makes of the backlog when a cycle repeats requests that are waiting.

The rest of the module is about `Converter`, for any classes of the resource maps, any
attributes that are set (`MaxSet`), any order of the list of objects (`MaxShuffled`) and
chains of up to three nodes. `TwinsApart` excludes batches in which two resources have lists
of dictionaries or belong to the system's security group: without it `NothingInvented` is
violated (run `squash`).

| Theorem | Statement |
|---|---|
| `ConversionTypeCorrect` | `TwinsApart /\ ConversionSpec => []ConversionTypeOK` |
| `NothingIsInvented` | `TwinsApart /\ ConversionSpec => []NothingInvented` |
| `ConversionIsInverted` | `TwinsApart /\ ConversionSpec => []RoundTrip` |
| `ConversionIsStable` | `TwinsApart /\ ConversionSpec => []Stable` |
| `ChainsStayConnected` | `TwinsApart /\ ConversionSpec => []ChainConnected` |

The inductive invariant `ConversionInv` bounds what has been read from both sides, half way
through the list: `ReadOK` from above by what can be told of the resource with that key
(`Sent`), `DoneOK` from below by every object that is no longer in the list. `DoneOK` is the
part that the order could break: an attribute that is set, not appended to, must not
replace what an earlier object brought (`ConvertStep`; two objects of a resource that carry
the same attribute carry the same value, or both carry a list). It needs `SourcesOK`, that
keys are unambiguous, also among what service graphs and device clusters generate
(`GeneratedIs`), and `ItemsOK`, that a dictionary which is found by its own key belongs to
the only resource of its class. `EverythingIsSent` is that the objects of a coherent resource
carry all of it: with it, the two bounds meet at the end of the list (`ReadBack`).
`ConversionIsStable` is about incoherent resources as well, whose objects carry less than
`Sent`. `FromOK` therefore adds that every entry that was read is in some object
(`ReadFrom`); what is read is then exactly what rules in use carry (`ReadIsCarried`),
and each rule makes the same objects of it again (`SamePayloads`), while nothing is generated
a second time (`BackGenerates`).

`AimStore_proofs` proves, for any number of clients, rows and epochs, and for any tables
that satisfy `TablesAssumption`:

| Theorem | Statement |
|---|---|
| `TypeCorrect` | `Spec => []TypeOK` |
| `NoOrphansAreLeft` | `Spec => []NoOrphans` |
| `IdentitiesAreUnique` | `Spec => []IdentityIsUnique` |
| `WrittenIsReadBack` | `Spec => []ReadsBack` |
| `UpdatesKeepOthers` | `Spec => OthersKept` |

What the proofs turn on is `Current`: while the epoch of the row is the one that an open
update has read, its association rows are those that were read, unless it is torn; epochs
do not come back, since they only grow (`TxnOK`). `StillSeen` is that no flush of
another client disturbs this: an update that leaves the epoch alone exists for security
group rules only, one that changes rows raises it, a deletion removes the row for good
(aim_ids are not used again, `TxnOK`) or tears. Then `FlushContent` gives the rows after a
flush, and `GivenShown` and `OtherShown` what a reader gets of them, for each of the ways
of storing lists. `NoOrphansAreLeft` needs the foreign key at both ends: insertions
require the row, and a deletion that has not read all association rows is refused.
`IdentitiesAreUnique` concludes from the assumption on the unique constraints. The values
of `Complete` and `InOrder` on the lists of the model are an assumption too
(`OrderAssumption`, evaluated by TLC), as `SelectSeq` and sorting are opaque to the prover.

Of `ResourceTree` it proves, for any objects of the classes that satisfy `SchemaAssumption`,
however many, of whatever depth and with whatever changes of owner:

| Theorem | Statement |
|---|---|
| `ResourceTypeCorrect` | `ResourceSpec => []ResourceTypeOK` |
| `CascadesAreExact` | `ResourceSpec => CascadeExact` |
| `ErrorsCover` | `ResourceSpec => ErrorCovers` |
| `RetriesSpread` | `ResourceSpec => RetrySpreads` |

The inductive invariant `ResourceIInv` is the type
invariant with `FamilyOK`: the objects have the identity that their class declares. From
`SchemaAssumption` follow the lemmas on the tree: an ancestor is an object of a class above
with the first values of the identity (`AncestorsAre`), ancestors are transitive and a chain
(`AncestorsTransitive`, `AncestorsChain`), the parent is the first of them (`ParentIs`), and
they have one root (`OneRoot`). `SubtreeIs` is that `get_subtree`, which compares positions of
identities, finds exactly the objects that have the object as an ancestor. `Steps` sorts the
steps by what they do to objects and statuses. `CascadesAreExact` and `ErrorsCover` follow
from these. `RetriesSpread` rests on `VisitsParents` and `VisitsChildren`: a failed parent of
an object that is visited has been climbed to, or is under one that has been, because the
climb only stops at an ancestor that has not failed. A recovery needs `OneRoot` instead.

`NatStrategy_proofs` proves, for any L3Outs, networks, VRFs, contracts and bridge domains
that satisfy `NamesAssumption`:

| Theorem | Statement |
|---|---|
| `TypeCorrect` | `Spec => []TypeOK` |
| `NothingIsLeft` | `Spec => []NothingLeft` |
| `CreatedIsComplete` | `Spec => []Complete` |
| `ShadowsAreInUse` | `Spec => []ShadowsInUse` |
| `ShadowsAreAgreed` | `Spec => []ShadowsAgree` |

The operations are stated on records of tables, and so is the invariant: `Good` of the
tables, `Standing` of the objects and VRFs of L3Outs, `Bridges` of the bridge domains.
`NothingLeft` and `ShadowsInUse` are not inductive: that an L3Out which is deleted takes all of
its networks with it needs that none of them is monitored (`Networks`), and that a network is
deleted together with all of its copies needs each clone to be in the table of clones
under the L3Out that its name was made of (`Outs`; two clones with one name are what
`NamesAssumption` excludes). `DeleteNetworksIs` says what the three nested deletions remove;
`Shrink` is that removing networks with their copies, and clones with their last network,
keeps the tables good, and `ShadowedGood` is the same for a new clone.
`WithoutNatEpgIs` is the lemma on the shared application profile: while another L3Out of the
tenant is complete, its EPG keeps the profile.

Only model-checked:

- liveness, `ENABLED` being out of the prover's reach: `EventuallyCaughtUp`,
  `EventuallySettled`, `WantedIsPushed`, `EmptiedIsRemoved`, `EventuallyInSync`,
  `Surrenders`, `Takeover`, `ZombiesGone`;
- `SpreadAsWalked`: what the recursive walks compute needs an induction over the tree, and
  RECURSIVE operators are out of the prover's reach;
- the assumptions on the data of the source (`SchemaAssumption`, `TablesAssumption`, `OrderAssumption`,
  `RulesAssumption`, `MapsAssumption`, `ChainAssumption`), which TLC evaluates.

## Not modelled

- Event services: an event carries no data, it makes the daemon start a cycle, and every
  model lets a cycle start at any time. The rest is sockets and queues.
- Configuration manager: its one callback with state is `Reconnect` of `ApicLease`.
- Kubernetes watcher and store: a replacement of the database by an API server that is
  not in the repository.
- `AciCRUDLoginManager` (renews a login), the split of APIC events into objects and the
  ownership tags of `OwnershipManager` (`TenantPush` has objects of AIM only), and the
  split of an object over three trees by `HashTreeBuilder`.
- Migrations, command line and server: thin wrappers, and one-off changes of the schema.

## Plan

Every safety property of a passing run is proved, but for `SpreadAsWalked`. What is left,
in the order of what it would add:

1. Rings whose stars collide: which keys two agents may disagree about, and for how long.
2. Longer chains of service graphs: `Positions` has four names, and that nameless nodes are
   dropped in order is evaluated (`ChainAssumption`), since `SelectSeq` is recursive.
