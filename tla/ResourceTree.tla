----------------------------- MODULE ResourceTree -----------------------------
(***************************************************************************)
(* The objects of the AIM database and their status (aim/aim_manager.py,   *)
(* aim/api/status.py): creation, change of ownership and deletion by the   *)
(* clients; pending, synced and failed as the agents set them, with the    *)
(* propagation through the tree of the objects; periodic recovery of       *)
(* errors and removal of status rows whose object is gone.                 *)
(*                                                                         *)
(* Each operation is one transaction.  The status row of an object is      *)
(* found by the id of the object's row, and the transaction that inserts   *)
(* it takes no lock on that row: NewStatus and InsertStatus are two steps, *)
(* and the object may be deleted in between.                               *)
(*                                                                         *)
(* A behaviour is about one family: the objects that there may be.         *)
(***************************************************************************)
EXTENDS Schema, FiniteSets

CONSTANTS
    Families,   \* the families to take: functions from roles to objects
    Flipped,    \* roles of the objects whose owner changes
    Forces,     \* values of the argument force of delete()
    Raced       \* roles of the objects whose status is created by a slow agent

ASSUME FamiliesAssumption == \A f \in Families : \A r \in DOMAIN f : f[r] \in Objects

Roles == UNION {DOMAIN f : f \in Families}

VARIABLES
    family,     \* role -> object, chosen at the start
    objs,       \* object in the database -> its attribute monitored
    status,     \* object -> sync_status of its AciStatus row
    zombies,    \* objects of deleted rows that have left an AciStatus row
    inserting   \* set of [obj, stale]: status rows about to be inserted

resourceVars == <<family, objs, status, zombies, inserting>>

\* AciStatus.sync_status
NA == "N/A"
Pending == "sync_pending"
Synced == "synced"
Failed == "sync_failed"
Statuses == {NA, Pending, Synced, Failed}

Universe == {family[r] : r \in DOMAIN family}
Present == DOMAIN objs

-----------------------------------------------------------------------------
(* Helpers of AimManager, as functions of the objects and of the status.   *)

\* get_subtree: for each class under the class of r, find() with the identity of r
\* as the values of the first identity attributes of that class.
\*
\* Fault for the mutants: only the last of the values is compared.
SubtreeByLast(r) ==
    {o \in Present : /\ r.klass \in Lineage[o.klass] \ {o.klass}
                     /\ r.id # <<>> => o.id[Len(r.id)] = r.id[Len(r.id)]}
Subtree(r) ==
    {o \in Present : /\ r.klass \in Lineage[o.klass] \ {o.klass}
                     /\ \A i \in 1..Len(r.id) : o.id[i] = r.id[i]}

\* get_status: the row is found through the object and created when it is missing.
StatusOf(o, st) == IF o \in DOMAIN st THEN st[o] ELSE NA
WithStatus(o, st) ==
    IF o \in Present THEN [x \in DOMAIN st \cup {o} |-> StatusOf(x, st)] ELSE st

\* _set_resource_sync: whether the status may be set, and the statuses after it.
MaySet(o, exclude, st) == o \in Present /\ StatusOf(o, st) \notin exclude
SetSync(o, s, st) == [WithStatus(o, st) EXCEPT ![o] = s]

\* set_resource_sync_error: the object and, unless it had failed before, all that is
\* under it.
Fail(S, st) == [x \in DOMAIN st \cup S |-> IF x \in S THEN Failed ELSE st[x]]
\* Fault for the mutants: children are not visited.
SyncErrorTop(o, st) == IF MaySet(o, {Failed}, st) THEN Fail({o}, st) ELSE WithStatus(o, st)
SyncError(o, st) ==
    IF MaySet(o, {Failed}, st) THEN Fail({o} \cup Subtree(o), st) ELSE WithStatus(o, st)

\* set_resource_sync_pending calls itself for the parent, and for what is under the
\* object, and goes on from those that have failed.  It climbs from the object over
\* the ancestors that have failed, and visits what is under each object it has climbed
\* to; it asks the parent of the last one, too.  get_status() creates the status of
\* those that it visits, and only the failed ones are set.
HasFailed(o, st) == o \in Present /\ StatusOf(o, st) = Failed
\* Fault for the mutants: it does not climb over the parent.
ClimbOne(o, st) == {o} \cup {a \in Ancestors(o) : HasFailed(a, st) /\ a = Parent(o)}
Climb(o, st) ==
    {o} \cup {a \in Ancestors(o) :
                \A b \in Ancestors(o) : b = a \/ a \in Ancestors(b) => HasFailed(b, st)}
\* Fault for the mutants: the subtree is not visited.
VisitedUp(o, st) == Climb(o, st)
Visited(o, st) == Climb(o, st) \cup UNION {Subtree(a) : a \in Climb(o, st)}
Asked(o, st) == Visited(o, st) \cup {Parent(a) : a \in {c \in Climb(o, st) : HasParent(c)}}
SyncPending(o, st) ==
    IF MaySet(o, {Pending}, st)
    THEN [x \in DOMAIN st \cup (Asked(o, st) \cap Present) |->
             IF x = o \/ (x \in Visited(o, st) /\ HasFailed(x, st)) THEN Pending ELSE StatusOf(x, st)]
    ELSE WithStatus(o, st)

Drop(f, S) == [x \in DOMAIN f \ S |-> f[x]]

-----------------------------------------------------------------------------
(* Clients.                                                                *)

\* _should_set_pending: the object is handed over to the APIC.
TakesOwnership(o, monitored) == o \in Present /\ ~objs[o] /\ monitored

\* create and update; nothing is written when the object has the attributes already.
\* With fix_ownership a change of monitored raises.
Owned(o) == Classes[o.klass].monitored
Write(o, monitored) ==
    /\ objs' = [x \in Present \cup {o} |-> IF x = o THEN monitored ELSE objs[x]]
    /\ status' = IF TakesOwnership(o, monitored) THEN SyncPending(o, status) ELSE status
    /\ UNCHANGED <<family, zombies, inserting>>

Create(o, monitored) ==
    /\ o \notin Present
    /\ monitored => Owned(o)
    /\ Write(o, monitored)

Update(o, monitored) ==
    /\ o \in Present
    /\ Owned(o)
    /\ objs[o] # monitored
    /\ Write(o, monitored)

\* delete: "Cannot delete monitored objects if sync status is pending, or ownership
\* flip might fail".  The transaction is rolled back when one of several raises.
Refused(o) == objs[o] /\ StatusOf(o, status) = Pending
DeleteAll(S) ==
    /\ objs' = Drop(objs, S)
    /\ status' = Drop(status, S)
    /\ inserting' = {[i EXCEPT !.stale = @ \/ i.obj \in S] : i \in inserting}
    /\ UNCHANGED <<family, zombies>>

Delete(o, force) ==
    /\ o \in Present
    /\ Refused(o) => force
    /\ DeleteAll({o})

\* The subtree is deleted even if the object itself does not exist.
DeleteCascade(o, force) ==
    LET S == Subtree(o) \cup ({o} \cap Present)
    IN  /\ S # {}
        /\ (\E x \in S : Refused(x)) => force
        /\ DeleteAll(S)

-----------------------------------------------------------------------------
(* Agents.  The object may be gone: they have it from their trees.         *)

\* _surrender_operation
SetError(o) ==
    /\ status' = SyncError(o, status)
    /\ UNCHANGED <<family, objs, zombies, inserting>>

\* _set_sync_pending_state
SetPending(o) ==
    /\ status' = SyncPending(o, status)
    /\ UNCHANGED <<family, objs, zombies, inserting>>

\* _set_synced_state
SetSynced(o) ==
    /\ o \in Present
    /\ status' = SetSync(o, Synced, status)
    /\ UNCHANGED <<family, objs, zombies, inserting>>

\* set_fault, get_status: a transaction that has read the object and found no status.
NewStatus(o) ==
    /\ o \in Present \ DOMAIN status
    /\ \A i \in inserting : i.obj # o
    /\ inserting' = inserting \cup {[obj |-> o, stale |-> FALSE]}
    /\ UNCHANGED <<family, objs, status, zombies>>

\* Its commit.  A row that another one has inserted makes it fail.
InsertStatus(i) ==
    /\ inserting' = inserting \ {i}
    /\ zombies' = IF i.stale THEN zombies \cup {i.obj} ELSE zombies
    /\ status' = IF i.stale THEN status ELSE WithStatus(i.obj, status)
    /\ UNCHANGED <<family, objs>>

\* The scheduled recovery of AimDbUniverse.observe for a served root:
\* recover_root_errors and cleanup_zombie_status_objects.
FailedIn(r) == {o \in DOMAIN status : status[o] = Failed /\ RootOf(o) = r}
\* Fault for the mutants: zombies are looked up by identity, not by the id of the row.
ZombiesInByName(r) == {z \in zombies \ Present : RootOf(z) = r}
ZombiesIn(r) == {z \in zombies : RootOf(z) = r}

\* observe(), when the recovery is due: every failed object of the root is pending
\* again, and the zombies are deleted.
Recover(r) ==
    /\ FailedIn(r) \cup ZombiesIn(r) # {}
    /\ status' = [o \in DOMAIN status |-> IF o \in FailedIn(r) THEN Pending ELSE status[o]]
    /\ zombies' = zombies \ ZombiesIn(r)
    /\ UNCHANGED <<family, objs, inserting>>

-----------------------------------------------------------------------------
Roots == {RootOf(o) : o \in Universe}
RolesOf(S) == {family[r] : r \in S \cap DOMAIN family}

ResourceInit ==
    /\ family \in Families
    /\ objs = <<>> /\ status = <<>> /\ zombies = {} /\ inserting = {}

ClientSteps ==
    \/ \E o \in Universe : Create(o, FALSE)
    \/ \E o \in RolesOf(Flipped), m \in BOOLEAN : Create(o, m) \/ Update(o, m)
    \/ \E o \in Universe, force \in Forces : Delete(o, force) \/ DeleteCascade(o, force)

AgentSteps ==
    \/ \E o \in Universe : SetError(o) \/ SetPending(o) \/ SetSynced(o)
    \/ \E o \in RolesOf(Raced) : NewStatus(o)
    \/ \E i \in inserting : InsertStatus(i)

Recovery == \E r \in Roots : Recover(r)

ResourceNext == ClientSteps \/ AgentSteps \/ Recovery

\* A root is served, and observe() schedules the recovery again after each one.
RecoverRootOf(role) == role \in DOMAIN family /\ Recover(RootOf(family[role]))
Fairness == \A role \in Roles : WF_resourceVars(RecoverRootOf(role))

ResourceSpec == ResourceInit /\ [][ResourceNext]_resourceVars
FairSpec == ResourceSpec /\ Fairness

-----------------------------------------------------------------------------
(* Properties.                                                             *)

\* Types; the objects, status rows and zombies are those of the family, and but for
\* the zombies a status row belongs to an object that exists.
ResourceTypeOK ==
    /\ objs \in [Present -> BOOLEAN]
    /\ Present \subseteq Universe
    /\ status \in [DOMAIN status -> Statuses] /\ DOMAIN status \subseteq Present
    /\ zombies \subseteq Universe
    /\ inserting \subseteq [obj : Universe, stale : BOOLEAN]

\* What is under an object, by the parents that the objects themselves name.
Below(r, S) == {o \in S : r \in Ancestors(o)}
Became(s) == {o \in DOMAIN status' : status'[o] = s /\ StatusOf(o, status) # s}

\* A cascading deletion removes an object and exactly what is under it, in its own
\* root, and removes nothing when one of the objects may not be deleted.
GoneTogether ==
    LET gone == Present \ Present'
    IN  Cardinality(gone) > 1 =>
          \E r \in Universe : gone = Below(r, Present) \cup ({r} \cap Present)
CascadeExact == [][GoneTogether]_resourceVars

\* An error of an object is, in that step, an error of all that is under it then, and
\* of nothing else (set_resource_sync_error and its call for the subtree).  An object
\* that is created there later has no error until the parent is refused again.
FailTogether ==
    Became(Failed) # {} =>
      \E r \in Became(Failed) :
         /\ Became(Failed) \subseteq {r} \cup Below(r, Present)
         /\ \A d \in Below(r, Present) : d \in DOMAIN status' /\ status'[d] = Failed
ErrorCovers == [][FailTogether]_resourceVars

\* "When a resource goes in pending state, propagate to both parent and subtree":
\* an object is never retried while its parent, or something under it, has failed and
\* would not be retried with it.
RetriedTogether ==
    \A o \in Became(Pending) :
      /\ \A d \in Below(o, DOMAIN status') : status'[d] # Failed
      /\ HasParent(o) /\ Parent(o) \in DOMAIN status' => status'[Parent(o)] # Failed
RetrySpreads == [][RetriedTogether]_resourceVars

\* "Deleting parentless status objects": the status of a deleted object does not stay,
\* even if an object of that name has been created again meanwhile.
ZombiesGone ==
    \A role \in Roles :
        []<>(role \in DOMAIN family => \A z \in zombies : RootOf(z) # RootOf(family[role]))

-----------------------------------------------------------------------------
(* _recreate_trees: what a reset of the trees of a root reads.             *)

\* Types of root whose classes "just miss the root reference attributes"
RootlessTypes == {"Topology"}
\* _retrieve_class_root_type
RootType(k) == CHOOSE r \in Lineage[k] : Classes[r].parent = None
\* The first value of the identity of a root; the RN of a root without one is a constant.
RootName(r) == IF r.id = <<>> THEN 0 ELSE r.id[1]
\* root_ref_attribute() of a class without identity raises.
RecreateFails(r) ==
    /\ r.klass \notin RootlessTypes
    /\ \E k \in Klasses : RootType(k) = r.klass /\ Classes[k].id = <<>>
Recreated(r) ==
    {o \in Present : /\ RootType(o.klass) = r.klass
                     /\ r.klass \notin RootlessTypes => o.id[1] = RootName(r)}

\* "Get all objects of that type": the trees of a root are made from all of its objects.
RecreateComplete ==
    \A r \in Roots : ~RecreateFails(r) /\ Recreated(r) = {o \in Present : RootOf(o) = r}
=============================================================================
