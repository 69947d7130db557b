---------------------------- MODULE MCResourceTree ----------------------------
(* Every class in turn, as leaf of a family: with its parent and the parent    *)
(* of that, or with its parent and a twin.  The twin changes its owner; the    *)
(* status of the oldest generation is created by a slow agent.                 *)
EXTENDS ResourceTree

\* The first with an identity that grows with each generation, the second without.
Wide == {"Subnet", "SecurityGroupRemoteIp"}

\* Identities with distinct values in the positions; the twin differs from the leaf
\* in its first value (another root, where the class has one) or in its last.
Identity(k) == [i \in 1..Len(Classes[k].id) |-> i]
Twin(k, i) == Obj(k, [Identity(k) EXCEPT ![i] = 0])

\* The generations that a leaf has above it, and the object of each of them.
Elders(leaf) ==
    {r \in {"parent", "grand"} : HasParent(leaf) /\ (r = "grand" => HasParent(Parent(leaf)))}
Relative(leaf, r) ==
    IF r = "leaf" THEN leaf ELSE IF r = "parent" THEN Parent(leaf) ELSE Parent(Parent(leaf))

\* Three generations, or two with a twin; for the classes of Wide three with a twin.
FamiliesOf(k) ==
    LET leaf == Obj(k, Identity(k))
        near == IF k \in Wide THEN Elders(leaf) ELSE Elders(leaf) \ {"grand"}
    IN  {[r \in Elders(leaf) \cup {"leaf"} |-> Relative(leaf, r)]}
        \cup {[r \in near \cup {"leaf", "twin"} |->
                  IF r = "twin" THEN Twin(k, i) ELSE Relative(leaf, r)]
                : i \in {1, Len(Identity(k))} \cap DOMAIN Identity(k)}
AllFamilies == UNION {FamiliesOf(k) : k \in Klasses}

MCFlipped == {"twin"}
MCRaced == {"grand"}

-----------------------------------------------------------------------------
(* The propagation of a status call by call, one object at a time, the way *)
(* AimManager walks through the tree; CHOOSE stands for the order in which *)
(* the database returns the objects under an object.                       *)

\* set_resource_sync_error of the object, and for what is under it.
ErrorOne(o, st) == IF MaySet(o, {Failed}, st) THEN SetSync(o, Failed, st) ELSE WithStatus(o, st)
RECURSIVE ErrorAll(_, _)
ErrorAll(S, st) ==
    IF S = {} THEN st
    ELSE LET o == CHOOSE x \in S : TRUE IN ErrorAll(S \ {o}, ErrorOne(o, st))
WalkError(o, st) ==
    IF MaySet(o, {Failed}, st) THEN ErrorAll(Subtree(o), ErrorOne(o, st)) ELSE WithStatus(o, st)

\* set_resource_sync_pending: the object, then its parent with what is under it, then
\* what is under the object.
Excluded(top) == IF top THEN {Pending} ELSE {Synced, Pending, NA}
RECURSIVE WalkPending(_, _, _, _), PendingAll(_, _)
PendingAll(S, st) ==
    IF S = {} THEN st
    ELSE LET o == CHOOSE x \in S : TRUE IN PendingAll(S \ {o}, WalkPending(o, FALSE, FALSE, st))
WalkPending(o, top, cascade, st) ==
    IF ~MaySet(o, Excluded(top), st) THEN WithStatus(o, st)
    ELSE LET own == SetSync(o, Pending, st)
             up == IF HasParent(o) THEN WalkPending(Parent(o), FALSE, TRUE, own) ELSE own
         IN  IF cascade THEN PendingAll(Subtree(o), up) ELSE up

\* The walks of set_resource_sync_error and set_resource_sync_pending, which stop and
\* turn at each object by the status that it has by then, end where SyncError and
\* SyncPending say, wherever they start.
SpreadAsWalked ==
    \A o \in Universe : /\ SyncPending(o, status) = WalkPending(o, TRUE, TRUE, status)
                        /\ SyncError(o, status) = WalkError(o, status)
=============================================================================
