----------------------------- MODULE TenantPush -----------------------------
(***************************************************************************)
(* How the objects of one tenant get into the APIC and stay there: the     *)
(* comparison and the counters of failed operations of                     *)
(* aim/agent/aid/universes/base_universe.py, run by the daemon, and the    *)
(* backlog and the thread of aim/agent/aid/universes/aci/tenant.py.        *)
(*                                                                         *)
(*  - A cycle of the daemon compares what AIM wants with what the manager  *)
(*    of the tenant has seen in the APIC, counts how often each difference *)
(*    has come back, and puts the differences into the backlog of the      *)
(*    manager, unless the thread is just pushing: they are dropped then.   *)
(*  - An object that comes back too often has its root reset (the manager  *)
(*    is killed and replaced), and is put into error the second time.      *)
(*  - The thread pushes the backlog, one object after the other.  Requests *)
(*    are lost, or carried out although their answer is lost.              *)
(*  - Now and then the errors of the root are taken back (recovery).       *)
(*                                                                         *)
(* The states that a cycle compares are copies that observe() made before; *)
(* what has happened in between is, for the cycle, as if it had happened   *)
(* after it, so that both are one action.  An event brings the value that  *)
(* the object has in the APIC by the time it is applied.  Every object     *)
(* here is AIM's own, and none is the parent of another.                   *)
(***************************************************************************)
EXTENDS Naturals, Integers, Sequences, FiniteSets

CONSTANTS Objs,       \* objects of the tenant
          Vals,       \* what an object may look like
          Stuck,      \* values that the APIC refuses, with an error that may pass
          Critical,   \* values that it refuses with an error that will not
          Absent,     \* no such object
          Covers,     \* pairs <<o, p>>: the name of p's parent starts with o's name
          ResetLimit, \* reset_retry_limit
          PurgeLimit, \* purge_retry_limit
          Quick,      \* assumption on the back-off: see InTime
          Again,      \* what is added to the limit after an error: 5 in the code
          MaxChanges, \* bound: changes by users of AIM and of the APIC
          MaxFaults   \* bound: lost requests and connections, crashes of the agent

ASSUME PushAssumption ==
    /\ Absent \notin Vals
    /\ Stuck \subseteq Vals /\ Critical \subseteq Vals /\ Stuck \cap Critical = {}
    /\ Covers \subseteq Objs \X Objs
    /\ ResetLimit \in Nat /\ PurgeLimit \in Nat /\ ResetLimit < PurgeLimit
    /\ Quick \in 0..(ResetLimit - 1) /\ Again \in Nat \ {0, 1}
    /\ MaxChanges \in Nat /\ MaxFaults \in Nat

VARIABLES aim,     \* aim[o]: what AIM wants
          failed,  \* objects whose status is SYNC_FAILED
          apic,    \* apic[o]: what the APIC has
          seen,    \* seen[o]: the tree of the manager
          mgr,     \* the manager and its thread
          backlog, \* object_backlog: requests that were not taken up
          doing,   \* what is left of the request that the thread is pushing
          track,   \* track[o]: _sync_log of the root
          changes, \* changes so far
          faults   \* faults so far

vars == <<aim, failed, apic, seen, mgr, backlog, doing, track, changes, faults>>

Wanted == Vals \cup {Absent}
Refused == Stuck \cup Critical
Nothing == [o \in Objs |-> Absent]

\* A request: the objects to create, with their values, and those to delete.
Creations == UNION {[s -> Vals] : s \in SUBSET Objs}
Request == [create : Creations, delete : SUBSET Objs]
NoRequest == [create |-> [o \in {} |-> Absent], delete |-> {}]

\* An entry of _sync_log, which is kept for a resource with all its attributes.
\* "left" is limit - retries.
Entry == [val : Wanted, action : {"reset", "purge"}, left : Int]
NoEntry == [action |-> "none"]

\* The agent starts when AIM and the APIC agree.
Init ==
    /\ aim \in [Objs -> Wanted \ Refused] /\ failed = {}
    /\ apic = aim /\ seen = Nothing
    /\ mgr = "cold" /\ backlog = <<>> /\ doing = NoRequest
    /\ track = [o \in Objs |-> NoEntry]
    /\ changes = 0 /\ faults = 0

-----------------------------------------------------------------------------
(* Users.                                                                  *)

Change == changes < MaxChanges /\ changes' = changes + 1

\* A user of AIM creates, updates or deletes an object: its status is pending
\* again, or gone.
Configure(o, v) ==
    /\ Change
    /\ aim[o] # v
    /\ aim' = [aim EXCEPT ![o] = v]
    /\ failed' = failed \ {o}
    /\ UNCHANGED <<apic, seen, mgr, backlog, doing, track, faults>>

\* Somebody else changes an object in the APIC.
ChangeApic(o, v) ==
    /\ Change
    /\ apic[o] \notin {v, Absent} /\ v \notin Refused
    /\ apic' = [apic EXCEPT ![o] = v]
    /\ UNCHANGED <<aim, failed, seen, mgr, backlog, doing, track, faults>>

-----------------------------------------------------------------------------
(* The thread of the manager.                                              *)

Fault == faults < MaxFaults /\ faults' = faults + 1

\* ACI_BACKLOG_LOCK is held.
Locked == doing # NoRequest

\* _subscribe_tenant: the trees are built anew from all the objects.
Subscribe ==
    /\ mgr = "cold" /\ ~Locked
    /\ mgr' = "warm" /\ seen' = apic
    /\ UNCHANGED <<aim, failed, apic, backlog, doing, track, changes, faults>>

\* _event_loop: the events that have arrived are put into the tree.
Events(objects) ==
    /\ mgr = "warm" /\ ~Locked
    /\ objects # {} /\ \A o \in objects : seen[o] # apic[o]
    /\ seen' = [o \in Objs |-> IF o \in objects THEN apic[o] ELSE seen[o]]
    /\ UNCHANGED <<aim, failed, apic, mgr, backlog, doing, track, changes, faults>>

\* _push_aim_resources, the beginning: the lock is taken, and the first request.
BeginPush ==
    /\ mgr = "warm" /\ ~Locked /\ backlog # <<>>
    /\ doing' = Head(backlog) /\ backlog' = Tail(backlog)
    /\ UNCHANGED <<aim, failed, apic, seen, mgr, track, changes, faults>>

\* The thread goes on with the rest of the request, or with the next one.
Proceed(rest) ==
    IF rest # NoRequest THEN doing' = rest /\ UNCHANGED backlog
    ELSE IF backlog = <<>> THEN doing' = NoRequest /\ UNCHANGED backlog
    ELSE doing' = Head(backlog) /\ backlog' = Tail(backlog)

Without(f, o) == [p \in DOMAIN f \ {o} |-> f[p]]

\* Objects to create come first.  The request is carried out and answered, it is
\* lost, or its answer is; an error is critical (_surrender_operation), or it is
\* left to the next cycles.
PushCreate(o, outcome) ==
    LET v == doing.create[o]
    IN  /\ o \in DOMAIN doing.create
        /\ IF v \in Refused THEN outcome = "lost" /\ UNCHANGED faults
           ELSE IF outcome = "ok" THEN UNCHANGED faults ELSE Fault
        /\ apic' = IF v \in Refused \/ outcome = "lost" THEN apic
                   ELSE [apic EXCEPT ![o] = v]
        /\ failed' = IF v \in Critical /\ aim[o] # Absent THEN failed \cup {o}
                     ELSE failed
        /\ Proceed([doing EXCEPT !.create = Without(@, o)])
        /\ UNCHANGED <<aim, seen, mgr, track, changes>>

\* Then those to delete, in the order of their names.  One whose parent's name
\* starts with the name of the last one is taken for a child that goes with it.
PushDelete(o, outcome) ==
    /\ DOMAIN doing.create = {} /\ o \in doing.delete
    /\ \A p \in doing.delete : <<p, o>> \notin Covers
    /\ IF outcome = "ok" THEN UNCHANGED faults ELSE Fault
    /\ apic' = IF outcome = "lost" THEN apic ELSE [apic EXCEPT ![o] = Absent]
    /\ Proceed([doing EXCEPT !.delete = {p \in @ \ {o} : <<o, p>> \notin Covers}])
    /\ UNCHANGED <<aim, failed, seen, mgr, track, changes>>

\* _main_loop: an exception, or a scheduled reset, unsubscribes the tenant, which
\* also drops the backlog; after too many of them the manager kills itself.
Lose ==
    /\ mgr = "warm" /\ ~Locked /\ Fault
    /\ mgr' \in {"cold", "killed"} /\ backlog' = <<>>
    /\ UNCHANGED <<aim, failed, apic, seen, doing, track, changes>>

\* run: the thread of a manager that was killed finishes its request, and ends.
Die ==
    /\ mgr = "killed" /\ ~Locked
    /\ mgr' = "dead"
    /\ UNCHANGED <<aim, failed, apic, seen, backlog, doing, track, changes, faults>>

-----------------------------------------------------------------------------
(* The daemon.                                                             *)

\* serve: a dead manager is replaced.
Serve ==
    /\ mgr = "dead"
    /\ mgr' = "cold" /\ backlog' = <<>>
    /\ UNCHANGED <<aim, failed, apic, seen, doing, track, changes, faults>>

\* Fault for the mutants: the errors are never taken back.
RecoverNever == FALSE /\ UNCHANGED vars

\* observe of the AIM universe, when the recovery is due: recover_root_errors.
Recover ==
    /\ failed # {}
    /\ failed' = {}
    /\ UNCHANGED <<aim, apic, seen, mgr, backlog, doing, track, changes, faults>>

\* The difference between the trees.  Nodes in error are left out.
ToCreate == {o \in Objs : aim[o] \notin {Absent, seen[o]} /\ o \notin failed}
ToDelete == {o \in Objs : aim[o] = Absent /\ seen[o] # Absent}

\* The object came up in the last cycle, to be created as it is wanted now, or to
\* be deleted.
Repeated(o) == track[o] # NoEntry /\ track[o].val = aim[o]

\* _track_universe_actions: the entry of an object, which is new (retries = -1)
\* unless it is repeated.
Current(o) ==
    IF Repeated(o) THEN track[o]
    ELSE [val |-> aim[o], action |-> "reset", left |-> ResetLimit + 1]

InBacklog(o) ==
    \E i \in DOMAIN backlog : o \in DOMAIN backlog[i].create \cup backlog[i].delete

\* The back-off doubles with every retry, up to ten minutes: after a few quick
\* ones an object is not retried before the thread is done and has pushed it.
InTime(o) ==
    \/ Current(o).action = "reset" /\ ResetLimit - Current(o).left < Quick
    \/ ~Locked /\ ~InBacklog(o)

\* One more retry.
Counted(o) == [Current(o) EXCEPT !.left = @ - 1]
Exceeds(o) == Counted(o).left < 0

\* Fault for the mutants: after a reset the next one may follow.
TrackedResetsAgain(o) ==
    IF ~Exceeds(o) THEN Counted(o)
    ELSE [Counted(o) EXCEPT !.left = PurgeLimit - (ResetLimit + 1)]

\* The entry that is kept: beyond the limit the limit is raised.
Tracked(o) ==
    IF ~Exceeds(o) THEN Counted(o)
    ELSE IF Counted(o).action = "reset"
         THEN [Counted(o) EXCEPT !.action = "purge",
                                 !.left = PurgeLimit - (ResetLimit + 1)]
    ELSE [Counted(o) EXCEPT !.left = @ + Again]

\* What is already in the backlog, with the values of a new request.
Replaced(new) ==
    [i \in DOMAIN backlog |->
        [backlog[i] EXCEPT !.create = [o \in DOMAIN @ |->
            IF o \in DOMAIN new.create THEN new.create[o] ELSE @[o]]]]

\* Fault for the mutants: what has replaced an older request is queued as well.
QueuedTwice(new) ==
    IF new = NoRequest THEN Replaced(new) ELSE Append(Replaced(new), new)

\* push_aim_resources: what is not in the backlog yet comes to its end.
Queued(new) ==
    LET creating == UNION {DOMAIN backlog[i].create : i \in DOMAIN backlog}
        deleting == UNION {backlog[i].delete : i \in DOMAIN backlog}
        rest     == [create |-> [o \in DOMAIN new.create \ creating |-> new.create[o]],
                     delete |-> new.delete \ deleting]
    IN  IF rest = NoRequest THEN Replaced(new) ELSE Append(Replaced(new), rest)

\* _reconcile of the configuration.  Objects in "soon" would be retried too soon
\* and are skipped; a new entry is never too soon.
Cycle(soon) ==
    LET differ == ToCreate \cup ToDelete
        tried  == differ \ soon
        over   == {o \in tried : Exceeds(o)}
        reset  == \E o \in over : Counted(o).action = "reset"
        pushed == tried \ over
    IN  /\ mgr = "warm"
        /\ \A o \in soon : o \in differ /\ Repeated(o)
        /\ \A o \in tried : InTime(o)
        /\ track' = [o \in Objs |-> IF o \notin differ THEN NoEntry
                                    ELSE IF o \in soon THEN track[o] ELSE Tracked(o)]
        /\ IF reset
           THEN \* reset: the manager is killed, nothing is pushed.
                /\ mgr' = "killed" /\ backlog' = <<>>
                /\ UNCHANGED failed
           ELSE \* creation_failed; deletion_failed finds no status to change.
                /\ failed' = failed \cup (over \ ToDelete)
                /\ backlog' = IF Locked THEN backlog
                              ELSE Queued([create |-> [o \in pushed \cap ToCreate |->
                                                          aim[o]],
                                           delete |-> pushed \cap ToDelete])
                /\ UNCHANGED mgr
        /\ UNCHANGED <<aim, apic, seen, doing, changes, faults>>

\* perform_harakiri, or a crash: the agent starts again with nothing.
Crash ==
    /\ Fault
    /\ mgr' = "cold" /\ backlog' = <<>> /\ doing' = NoRequest
    /\ track' = [o \in Objs |-> NoEntry]
    /\ UNCHANGED <<aim, failed, apic, seen, changes>>

-----------------------------------------------------------------------------
Outcomes == {"ok", "lost", "late"}

Push == \E o \in Objs, how \in Outcomes : PushCreate(o, how) \/ PushDelete(o, how)

Thread ==
    \/ Subscribe \/ BeginPush \/ Push \/ Lose \/ Die
    \/ \E objects \in SUBSET Objs : Events(objects)

Daemon == Serve \/ Recover \/ Crash \/ \E soon \in SUBSET Objs : Cycle(soon)

Next ==
    \/ Thread
    \/ Daemon
    \/ \E o \in Objs, v \in Wanted : Configure(o, v) \/ ChangeApic(o, v)

Spec == Init /\ [][Next]_vars

Try(o) == \E soon \in SUBSET (Objs \ {o}) : Cycle(soon)

\* The thread runs, events arrive, and the daemon serves, recovers and goes
\* through its cycles.  The back-off is random (get_backoff_time): it does not put
\* off an object for ever, nor does it always make a retry coincide with a reset
\* of the root, or a reset with a request that is still in the backlog.
Fairness ==
    /\ WF_vars(Subscribe \/ Push \/ Die \/ Serve) /\ WF_vars(Recover)
    /\ SF_vars(Events({o \in Objs : seen[o] # apic[o]}))
    /\ \A o \in Objs : /\ SF_vars(Try(o)) /\ SF_vars(Try(o) /\ InBacklog(o)')
                       /\ SF_vars(InBacklog(o) /\ BeginPush)

FairSpec == Spec /\ Fairness

-----------------------------------------------------------------------------
(* Properties.                                                             *)

\* Types; an object in error is one that AIM has, and a counter that is kept has
\* not run out.
TypeOK ==
    /\ aim \in [Objs -> Wanted] /\ apic \in [Objs -> Wanted]
    /\ seen \in [Objs -> Wanted]
    /\ failed \subseteq {o \in Objs : aim[o] # Absent}
    /\ mgr \in {"cold", "warm", "killed", "dead"}
    /\ backlog \in Seq(Request \ {NoRequest})
    /\ doing \in Request
    /\ track \in [Objs -> Entry \cup {NoEntry}]
    /\ \A o \in Objs : track[o] # NoEntry => track[o].left >= 0
    /\ changes \in 0..MaxChanges /\ faults \in 0..MaxFaults

\* The backlog stays bounded however long the thread is busy or slow: the requests
\* that every cycle repeats replace each other, an object is in it at most once
\* to be created and once to be deleted.
BacklogBounded ==
    \A i, j \in DOMAIN backlog : i # j =>
        /\ DOMAIN backlog[i].create \cap DOMAIN backlog[j].create = {}
        /\ backlog[i].delete \cap backlog[j].delete = {}

\* "Given the nature of the system we don't really care if we lose one or two
\* messages, or even all of them, or if we mess the order (...) we should always
\* be able to get back in sync" (push_aim_resources): whatever was lost, dropped,
\* reordered or reset, what the APIC does not refuse is in the end, and for good,
\* as AIM wants it, next to an object that it keeps refusing.
EventuallyInSync ==
    <>[](\A o \in Objs : aim[o] \notin Refused => apic[o] = aim[o])

\* What the APIC keeps refusing is reported: after every recovery an object that
\* is refused ends up in error again, although the counters are spread over
\* resets of the root and are dropped whenever the object does not come up.
\* (With two such objects the reset for one may hide the error of the other.)
Surrenders ==
    LET refused == {o \in Objs : aim[o] \in Refused}
    IN  <>[](refused # {}) => []<>(refused \cap failed # {})
=============================================================================
