----------------------------- MODULE DiffRounds -----------------------------
(***************************************************************************)
(* What diff() is for: a cycle of the agent compares the tree of a root    *)
(* with the tree of the other universe, and the operations that diff()     *)
(* lists are carried out one by one, in any order, each by the operation   *)
(* of StructuredHashTree that the maker of the trees uses for it: clear()  *)
(* for a resource that is deleted, add() for one that is created or        *)
(* updated.  The next cycle compares again.  While the cycles go on the    *)
(* two trees change for no other reason; between them they change as       *)
(* HashTree says.  A resource is here one node: the nodes that a maker     *)
(* derives from a resource are keys of their own.                          *)
(***************************************************************************)
EXTENDS HashTree

VARIABLE sync   \* the root that is being reconciled, if any

roundVars == <<tree, sync>>

\* No root is being reconciled.
Idle == [round |-> 0]

Sync == [round : {1, 2},      \* the cycle that is under way
         self  : Trees,       \* the desired tree, whose diff() is called
         other : Trees,       \* the current tree, which is changed
         clear : SUBSET Keys, \* 'remove' of the diff, still to be carried out
         add   : SUBSET Keys, \* 'add' of the diff, still to be carried out
         stale : BOOLEAN]     \* a dummy of the current tree was in error

RoundInit == Init /\ sync = Idle

\* The trees change while nothing is reconciled.
Change == sync = Idle /\ Next /\ UNCHANGED sync

\* A dummy in error: clear() keeps the mark of the node that it empties.
MarkedDummy(t) == \E k \in DOMAIN t : t[k].dummy /\ t[k].error

\* The first cycle: the tree of the other universe has the same root.
Reconcile(m, n) ==
    /\ sync = Idle
    /\ m # n
    /\ \A k \in DOMAIN tree[m] : SameRoot(tree[n], k)
    /\ sync' = [round |-> 1, self |-> m, other |-> n,
                clear |-> DiffRemove(tree[m], tree[n]),
                add   |-> DiffAdd(tree[m], tree[n]),
                stale |-> MarkedDummy(tree[n])]
    /\ UNCHANGED tree

\* A resource of the diff is deleted.
DeleteOne(k) ==
    /\ sync # Idle
    /\ k \in sync.clear
    /\ Clear(sync.other, k)
    /\ sync' = [sync EXCEPT !.clear = @ \ {k}]

\* A resource of the diff is created or updated: it gets the attributes of the
\* desired one, and it may turn out to be in error.
CreateOne(k, e) ==
    /\ sync # Idle
    /\ k \in sync.add
    /\ Add(sync.other, k, tree[sync.self][k].partial, e)
    /\ sync' = [sync EXCEPT !.add = @ \ {k}]

CarriedOut == sync # Idle /\ sync.clear = {} /\ sync.add = {}

\* The next cycle compares the same trees again.
ReconcileAgain ==
    /\ CarriedOut
    /\ sync.round = 1
    /\ sync' = [sync EXCEPT !.round = 2,
                            !.clear = DiffRemove(tree[sync.self], tree[sync.other]),
                            !.add   = DiffAdd(tree[sync.self], tree[sync.other])]
    /\ UNCHANGED tree

Settled ==
    /\ CarriedOut
    /\ sync' = Idle
    /\ UNCHANGED tree

RoundNext ==
    \/ Change
    \/ \E m, n \in Trees : Reconcile(m, n)
    \/ \E k \in Keys :
           \/ DeleteOne(k)
           \/ \E e \in BOOLEAN : CreateOne(k, e)
    \/ ReconcileAgain
    \/ Settled

RoundSpec == RoundInit /\ [][RoundNext]_roundVars

-----------------------------------------------------------------------------
(* Properties.                                                             *)

\* Every tree is a function from keys to well-formed nodes, and a root that is
\* being reconciled has keys still to be cleared and added.
RoundTypeOK == TypeOK /\ (sync = Idle \/ sync \in Sync)

\* diff() "calculates the set of operations needed to transform other into
\* self".  Each of them can be carried out, in whatever order (the key to be
\* cleared is still there, and add() does not refuse the one to be added); and
\* once all of them are, whichever of the created resources turn out to be in
\* error, the next diff() reports nothing, so that a reconciled root stays quiet.
\* One cycle is not always enough: clear() leaves the error mark on the dummy,
\* the mark hides a difference, and the removal of the last child of the dummy
\* uncovers it.  A second cycle is.
DiffConverges ==
    sync # Idle =>
        /\ \A k \in sync.clear : k \in DOMAIN tree[sync.other]
        /\ \A k \in sync.add : SameRoot(tree[sync.other], k)
        /\ CarriedOut /\ (sync.stale => sync.round = 2) =>
              /\ DiffRemove(tree[sync.self], tree[sync.other]) = {}
              /\ DiffAdd(tree[sync.self], tree[sync.other]) = {}
=============================================================================
