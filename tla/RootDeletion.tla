---------------------------- MODULE RootDeletion ----------------------------
(***************************************************************************)
(* The life of one root (a tenant) in the reconciliation cycle of an AID:  *)
(* _reconciliation_cycle of aim/agent/aid/service.py over the three pairs  *)
(* of universes of aim/agent/aid/universes, and the thread that talks to   *)
(* the APIC for the root.                                                  *)
(*                                                                         *)
(* A tree is the set of the kinds of nodes that it has: "own" (objects     *)
(* that AIM configures), "fault" (faults reported by the APIC), "tenant"   *)
(* (the tenant itself, when it is not AIM's) and "foreign" (other objects  *)
(* that are not AIM's).  Each pair compares the trees of its own kinds.    *)
(*                                                                         *)
(* Everything that the cycle does between the last observe() and the       *)
(* cleanup works on the states that were observed, so it is one action.    *)
(***************************************************************************)
EXTENDS Naturals, Sequences

CONSTANTS Wait,       \* cycles that a pair waits for: 3 in the code
          MaxChanges, \* bound: changes by users of AIM and of the APIC
          MaxFaults   \* bound: lost connections, errors, resets

ASSUME BoundAssumption == Wait \in Nat /\ MaxChanges \in Nat /\ MaxFaults \in Nat

Pairs == {"config", "oper", "mon"}
Kinds == [p \in Pairs |-> CASE p = "config" -> {"own"}
                            [] p = "oper"   -> {"fault"}
                            [] p = "mon"    -> {"tenant", "foreign"}]
Nodes == {"own", "fault", "tenant", "foreign"}

\* The state of a universe that does not have the root.
Absent == {"absent"}

\* What _reconcile makes of the differences: push them, leave them alone for now
\* (retried too soon, in error, or the backlog is locked), reset the root, or fail.
Outcomes == {"push", "skip", "reset", "error"}

VARIABLES db,        \* objects of the root in the AIM database
          log,       \* what the action logs not yet replayed do: "add", "remove"
          tree,      \* hash trees of the root in the database
          exists,    \* the root has a base tree
          served,    \* the root is in _served_tenants of the AIM universes
          aim,       \* aim[p]: _state of the AIM universe of the pair
          aci,       \* aci[p]: _state of the ACI universe of the pair
          count,     \* count[p]: _deleting_roots of the current universe
          candidate, \* the root is in delete_candidates
          phase,     \* where the cycle is
          apic,      \* objects of the root in the APIC
          seen,      \* trees of the tenant manager while it is warm
          mgr,       \* the tenant manager and its thread
          backlog,   \* object_backlog: requests to be pushed
          changes,   \* changes so far
          faults     \* faults so far

vars == <<db, log, tree, exists, served, aim, aci, count, candidate, phase, apic,
          seen, mgr, backlog, changes, faults>>
database == <<db, log, tree, exists>>
cycle == <<served, aim, aci, count, candidate, phase>>
fabric == <<apic, seen, mgr, backlog>>

AllAbsent == [p \in Pairs |-> Absent]
NoCount == [p \in Pairs |-> 0]

Init ==
    /\ db \in {{}, {"own"}}
    /\ log = IF db = {} THEN {} ELSE {"add"}
    /\ tree = {} /\ exists = FALSE
    /\ served = FALSE /\ aim = AllAbsent /\ aci = AllAbsent
    /\ count = NoCount /\ candidate = FALSE /\ phase = "serve"
    /\ apic \in {{}, {"tenant", "foreign"}}
    /\ seen = {} /\ mgr = "none" /\ backlog = <<>>
    /\ changes = 0 /\ faults = 0

-----------------------------------------------------------------------------
(* Users.                                                                  *)

Change == changes < MaxChanges /\ changes' = changes + 1

\* Faults go with the last object.
Pruned(s) == IF s \subseteq {"fault"} THEN {} ELSE s

Logged(new) ==
    log \cup (IF new \ db # {} THEN {"add"} ELSE {})
        \cup (IF db \ new # {} THEN {"remove"} ELSE {})

\* A user of AIM creates or deletes objects, or a monitored tenant.
Configure(n) ==
    /\ Change
    /\ n \in {"own", "tenant"}
    /\ LET new == IF n \in db THEN Pruned(db \ {n}) ELSE db \cup {n}
       IN  db' = new /\ log' = Logged(new)
    /\ UNCHANGED <<tree, exists, faults, cycle, fabric>>

\* Somebody else changes the APIC, or it raises or clears a fault.  Objects have
\* a tenant, and go with it.
ChangeApic(n) ==
    /\ Change
    /\ \/ /\ n = "tenant"
          /\ apic' = IF n \in apic THEN {} ELSE apic \cup {n}
       \/ /\ n \in {"foreign", "fault"} /\ apic # {}
          /\ apic' = IF n \in apic THEN Pruned(apic \ {n}) ELSE apic \cup {n}
    /\ UNCHANGED <<seen, mgr, backlog, faults, database, cycle>>

-----------------------------------------------------------------------------
(* The tenant manager.                                                     *)

Fault == faults < MaxFaults /\ faults' = faults + 1

\* _subscribe_tenant: all the objects are read.
Subscribe ==
    /\ mgr = "cold"
    /\ mgr' = "warm" /\ seen' = apic
    /\ UNCHANGED <<apic, backlog, changes, faults, database, cycle>>

\* _event_loop: the events bring the trees up to date.
Events ==
    /\ mgr = "warm" /\ seen # apic
    /\ seen' = apic
    /\ UNCHANGED <<apic, mgr, backlog, changes, faults, database, cycle>>

\* What a request does.  The tenant is AIM's unless it was there before.
Applied(op) ==
    IF op = "create" THEN apic \cup {"own"}
    ELSE IF "tenant" \in apic THEN Pruned(apic \ {"own"}) ELSE {}

\* _push_aim_resources, also while subscribing: a request that fails is only
\* reported.
Push(ok) ==
    /\ mgr \in {"cold", "warm"} /\ backlog # <<>>
    /\ backlog' = Tail(backlog)
    /\ IF ok THEN apic' = Applied(Head(backlog)) /\ UNCHANGED faults
             ELSE UNCHANGED apic /\ Fault
    /\ UNCHANGED <<seen, mgr, changes, database, cycle>>

\* _main_loop: an exception or a scheduled reset unsubscribes the tenant, which
\* also drops the backlog; after too many of them the manager kills itself.  (Its
\* trees are built anew before they are read again.)
Lose ==
    /\ mgr \in {"cold", "warm"}
    /\ mgr' \in {"cold", "killed"}
    /\ backlog' = <<>> /\ seen' = {}
    /\ Fault
    /\ UNCHANGED <<apic, changes, database, cycle>>

\* run: the thread of a manager that was killed ends.
Die ==
    /\ mgr = "killed"
    /\ mgr' = "dead"
    /\ UNCHANGED <<apic, seen, backlog, changes, faults, database, cycle>>

-----------------------------------------------------------------------------
(* The cycle.                                                              *)

\* Fault for the mutants: a manager that is dead is not replaced.
ServeKeepsDead(asked) ==
    /\ phase = "serve" /\ phase' = "config"
    /\ served' = IF asked THEN exists ELSE served
    /\ aim' = IF asked /\ ~exists THEN AllAbsent ELSE aim
    /\ mgr' = IF ~asked THEN mgr ELSE IF ~exists THEN "none"
              ELSE IF mgr = "none" THEN "cold" ELSE mgr
    /\ backlog' = IF asked /\ ~exists THEN <<>> ELSE backlog
    /\ seen' = IF mgr' = "warm" THEN seen ELSE {}
    /\ UNCHANGED <<aci, count, candidate, apic, changes, faults, database>>

\* The serving part of the cycle (one agent: it serves the roots that exist) and
\* serve() of the universes.  The manager of a root that is gone is killed, a
\* dead one is replaced.
Serve(asked) ==
    /\ phase = "serve" /\ phase' = "config"
    /\ served' = IF asked THEN exists ELSE served
    /\ aim' = IF asked /\ ~exists THEN AllAbsent ELSE aim
    /\ mgr' = IF ~asked THEN mgr ELSE IF ~exists THEN "none"
              ELSE IF mgr \in {"none", "dead"} THEN "cold" ELSE mgr
    /\ backlog' = IF asked /\ ~(exists /\ mgr \in {"cold", "warm", "killed"})
                  THEN <<>> ELSE backlog
    /\ seen' = IF mgr' = "warm" THEN seen ELSE {}
    /\ UNCHANGED <<aci, count, candidate, apic, changes, faults, database>>

\* observe() of the two universes of a pair.  That of AIM replays the logs of the
\* roots that it serves and of those without base tree; the state of a root that
\* has no trees any more stays as it was.
Observe(p) ==
    LET due  == log # {} /\ (served \/ ~exists)
        made == exists \/ (due /\ "add" \in log)
        now  == IF due /\ made THEN db ELSE tree
    IN  /\ phase = p
        /\ phase' = CASE p = "config" -> "oper" [] p = "oper" -> "mon"
                      [] p = "mon" -> "reconcile"
        /\ log' = IF due THEN {} ELSE log
        /\ tree' = now /\ exists' = made
        /\ aim' = [aim EXCEPT ![p] = IF served /\ made THEN now \cap Kinds[p] ELSE @]
        /\ aci' = [aci EXCEPT ![p] = IF mgr = "warm" THEN seen \cap Kinds[p]
                                     ELSE Absent]
        /\ UNCHANGED <<db, served, count, candidate, fabric, changes, faults>>

\* vote_deletion_candidates: AIM's configuration is empty, and the tenant is not
\* one that AIM monitors.
Voted == aim["config"] = {} /\ "tenant" \notin aim["mon"]

\* _reconcile looks at the roots that both universes have.
Compared(p) == aim[p] # Absent /\ aci[p] # Absent

\* "self" and "other" of _reconcile; _mask_tenant_state takes the ACI trees of a
\* candidate for empty.
Current(p) == IF p = "config" THEN aci[p] ELSE aim[p]
Desired(p, cand) ==
    IF p = "config" THEN aim[p] ELSE IF cand THEN {} ELSE aci[p]

Quiet(p, cand) == Desired(p, cand) = {} /\ Current(p) = {}

\* Fault for the mutants: the count starts again in every cycle.
DeletingCountAnew(p, cand) ==
    IF Compared(p) /\ cand /\ Quiet(p, cand) THEN 1 ELSE 0

\* deleting_count.  (Above Wait it makes no difference.)
DeletingCount(p, cand) ==
    IF ~(Compared(p) /\ cand) THEN count[p]
    ELSE IF ~Quiet(p, cand) THEN 0
    ELSE IF count[p] > Wait THEN count[p] ELSE count[p] + 1

\* Whether the candidate is still one after _reconcile of the pair: a pair that
\* has not waited long enough removes it, unless it returns early.
Passes(p, cand, outcome) ==
    /\ cand
    /\ Compared(p) => outcome \in {"reset", "error"} \/ DeletingCount(p, cand) > Wait

\* finalize_deletion_candidates of the universes.
Finalized == /\ aci["config"] = {}
             /\ aim["oper"] \in {Absent, {}} /\ aim["mon"] \in {Absent, {}}

\* push_aim_resources: an older request for the same object is replaced.
Queued(op) ==
    IF \E i \in DOMAIN backlog : backlog[i] = op THEN backlog ELSE Append(backlog, op)

\* push_resources of AIM: faults need an object; the tenant is left to the user.
Mirrored(objects, p, wanted) ==
    Pruned((objects \ (Kinds[p] \ {"tenant"})) \cup (wanted \ {"tenant"}))

\* The votes, reconcile() of the pairs one after the other, the final votes.
Reconcile(how) ==
    LET cand    == [config |-> Voted,
                    oper   |-> Passes("config", Voted, how["config"]),
                    mon    |-> Passes("oper", Passes("config", Voted, how["config"]),
                                      how["oper"])]
        differs(p) == Compared(p) /\ Desired(p, cand[p]) # Current(p)
        pushes(p)  == differs(p) /\ how[p] = "push"
        faulty     == \E p \in Pairs : how[p] \in {"reset", "error"}
        after(s, p) == IF pushes(p) THEN Mirrored(s, p, Desired(p, cand[p])) ELSE s
        new        == after(after(db, "oper"), "mon")
    IN  /\ phase = "reconcile" /\ phase' = "cleanup"
        /\ \A p \in Pairs : differs(p) \/ how[p] = "push"
        /\ IF faulty THEN Fault ELSE UNCHANGED faults
        /\ count' = [p \in Pairs |-> DeletingCount(p, cand[p])]
        /\ candidate' = (Passes("mon", cand["mon"], how["mon"]) /\ Finalized)
        /\ db' = new /\ log' = Logged(new)
        /\ IF \E p \in Pairs : how[p] = "reset"
           THEN /\ mgr' = IF mgr \in {"cold", "warm"} THEN "killed" ELSE mgr
                /\ backlog' = <<>> /\ seen' = {}
           ELSE /\ backlog' = IF pushes("config")
                              THEN Queued(IF aim["config"] = {} THEN "delete"
                                                                ELSE "create")
                              ELSE backlog
                /\ UNCHANGED <<mgr, seen>>
        /\ UNCHANGED <<tree, exists, served, aim, aci, apic, changes>>

\* Fault for the mutants: trees that are not empty are deleted as well.
CleanupAnyway ==
    /\ phase = "cleanup" /\ phase' = "serve"
    /\ exists' = (exists /\ ~candidate)
    /\ tree' = IF candidate THEN {} ELSE tree
    /\ count' = IF candidate THEN NoCount ELSE count
    /\ candidate' = FALSE
    /\ aci' = AllAbsent
    /\ UNCHANGED <<db, log, served, aim, fabric, changes, faults>>

\* cleanup_state of the universes: the trees are deleted if they are all empty,
\* and the counts in any case.  (The ACI states are not read before they are
\* observed again.)
Cleanup ==
    /\ phase = "cleanup" /\ phase' = "serve"
    /\ exists' = (exists /\ ~(candidate /\ tree = {}))
    /\ count' = IF candidate THEN NoCount ELSE count
    /\ candidate' = FALSE
    /\ aci' = AllAbsent
    /\ UNCHANGED <<db, log, tree, served, aim, fabric, changes, faults>>

-----------------------------------------------------------------------------
AllPush == [p \in Pairs |-> "push"]

Agent ==
    \/ \E asked \in BOOLEAN : Serve(asked)
    \/ \E p \in Pairs : Observe(p)
    \/ \E how \in [Pairs -> Outcomes] : Reconcile(how)
    \/ Cleanup

Thread == Subscribe \/ Events \/ (\E ok \in BOOLEAN : Push(ok)) \/ Lose \/ Die

Next ==
    \/ Agent
    \/ Thread
    \/ \E n \in Nodes : Configure(n) \/ ChangeApic(n)

Spec == Init /\ [][Next]_vars

\* The daemon loop goes on, is asked to serve again and again (the poller) and
\* does not put off an object for ever (the back-off ends); the thread of the
\* tenant runs, and requests to an APIC that answers succeed in the end.
Fairness ==
    /\ WF_vars(Agent)
    /\ SF_vars(Serve(TRUE)) /\ SF_vars(Reconcile(AllPush))
    /\ WF_vars(Subscribe \/ Events \/ Die)
    /\ SF_vars(Push(TRUE))

FairSpec == Spec /\ Fairness

-----------------------------------------------------------------------------
(* Properties.                                                             *)

\* Types of what the database, the universes and the manager keep.
TypeOK ==
    /\ db \subseteq Nodes /\ log \subseteq {"add", "remove"} /\ tree \subseteq Nodes
    /\ exists \in BOOLEAN /\ served \in BOOLEAN /\ candidate \in BOOLEAN
    /\ \A p \in Pairs : /\ aim[p] = Absent \/ aim[p] \subseteq Kinds[p]
                        /\ aci[p] = Absent \/ aci[p] \subseteq Kinds[p]
    /\ count \in [Pairs -> 0..(Wait + 1)]
    /\ phase \in Pairs \cup {"serve", "reconcile", "cleanup"}
    /\ apic \subseteq Nodes /\ seen \subseteq Nodes
    /\ mgr \in {"none", "cold", "warm", "killed", "dead"}
    /\ backlog \in Seq({"create", "delete"}) /\ Len(backlog) <= 2
    /\ changes \in 0..MaxChanges /\ faults \in 0..MaxFaults

\* cleanup_state "never removes a tenant if there are leftovers": whatever happens
\* between the votes and the cleanup, a root without trees has no objects, or
\* logs that will bring its trees back; with trees and no logs, the trees have
\* the objects.
NothingForgotten ==
    /\ ~exists => tree = {} /\ (db = {} \/ "add" \in log)
    /\ exists /\ log = {} => tree = db

\* What the user keeps configured gets into the APIC, also when the root was just
\* being deleted, when requests or connections are lost, and when the root is
\* reset.
WantedIsPushed == <>[]("own" \in db) => <>[]("own" \in apic)

\* A root that the user has emptied for good is removed: the pairs do not wait for
\* each other for ever, whatever others keep in the tenant.
EmptiedIsRemoved == <>[](db \cap {"own", "tenant"} = {}) => []<>~exists

\* "Once all universes have allowed the vote to go through, then the tenant will be
\* deleted" (base_universe.py:440), each after it has waited ("wait up to 3 cycles
\* before allowing other universes to vote").
AllAgreed == [][exists /\ ~exists' => \A p \in Pairs : count[p] > Wait]_vars
=============================================================================
