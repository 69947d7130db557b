------------------------------ MODULE ApicLease ------------------------------
(***************************************************************************)
(* How the agents share the hosts of the APIC cluster: ApicClientsContext  *)
(* of aim/agent/aid/universes/aci/aci_universe.py.                         *)
(*                                                                         *)
(*  - A row of ApicAssignment says which agent leads a host, and when it   *)
(*    was last refreshed.  An agent looks at the hosts in order, skips     *)
(*    those that others have refreshed lately, logs in to the first other  *)
(*    one and claims its row.                                              *)
(*  - An agent that gets none uses a host of somebody else (a backup), and *)
(*    its monitor tries again now and then (recovery).                     *)
(*  - The monitor refreshes the row of a leader, and stores what it gets   *)
(*    back as apic_assign_obj; other threads may reconnect meanwhile.      *)
(*                                                                         *)
(* Reading a row and claiming it are two transactions.  Time is reduced to *)
(* whether a row is younger than apic_available_time: it does not get that *)
(* old while a leader refreshes it (every 10 seconds against 600).         *)
(***************************************************************************)
EXTENDS Naturals, Sequences, FiniteSets

CONSTANTS Agents,    \* aim_service_identifiers
          Urls,      \* ws_urls: the hosts, in the order of the configuration
          NoOne,     \* neither an agent nor a host
          Settings   \* pairs <<agents that are deployed, faults that may happen>>

Hosts == {Urls[i] : i \in DOMAIN Urls}

ASSUME LeaseAssumption ==
    /\ Urls \in Seq(Hosts) /\ Len(Urls) = Cardinality(Hosts) /\ Len(Urls) > 0
    /\ NoOne \notin Hosts \cup Agents
    /\ Settings \subseteq (SUBSET Agents) \X Nat

VARIABLES row,    \* row[h]: the row of the host in the database
          up,     \* hosts that answer
          ctx,    \* ctx[a]: the ApicClientsContext of the agent
          lapsed, \* hosts whose row has run out at some time
          overtaken, \* agents that claimed a host while they refreshed another row
          faults  \* bound: crashes, lost hosts, needless reconnections still to come

vars == <<row, up, ctx, lapsed, overtaken, faults>>

NoRow  == [owner |-> NoOne, fresh |-> FALSE]
Unread == [owner |-> NoOne, fresh |-> TRUE]
Row    == [owner : Agents, fresh : BOOLEAN]

\* session: the host of the session, lease: the host of apic_assign_obj,
\* rec: need_recovery, mode: what establish_sessions() is doing, at: the url
\* it is at, left: backup_urls, seen: what it has read of the row of this url,
\* renewing: the host whose row the monitor is refreshing.
Off == [session |-> NoOne, lease |-> NoOne, rec |-> FALSE, mode |-> "off",
        at |-> 1, left |-> {}, seen |-> Unread, renewing |-> NoOne]

Absent == [Off EXCEPT !.mode = "absent"]

Scanning(a) == ctx[a].mode \in {"normal", "recovery"}
Here(a)     == Urls[ctx[a].at]
Leads(a, h) == ctx[a].mode = "idle" /\ ~ctx[a].rec /\ ctx[a].lease = h
Runs(a)     == ctx[a].mode \notin {"off", "absent"}
Waits(a)    == Runs(a) /\ ctx[a].rec

Context == [session : Hosts \cup {NoOne}, lease : Hosts \cup {NoOne}, rec : BOOLEAN,
            mode : {"absent", "off", "idle", "normal", "recovery"},
            at : 1..(Len(Urls) + 1), left : SUBSET Hosts,
            seen : Row \cup {NoRow, Unread}, renewing : Hosts \cup {NoOne}]

\* The type of every variable; an agent at rest has a session.
TypeOK ==
    /\ row \in [Hosts -> Row \cup {NoRow}]
    /\ up \subseteq Hosts /\ lapsed \subseteq Hosts /\ overtaken \subseteq Agents
    /\ faults \in Nat
    /\ ctx \in [Agents -> Context]
    /\ \A a \in Agents : ctx[a].mode = "idle" => ctx[a].session # NoOne

Init == /\ row = [h \in Hosts |-> NoRow] /\ up = Hosts
        /\ \E s \in Settings :
              /\ ctx = [a \in Agents |-> IF a \in s[1] THEN Off ELSE Absent]
              /\ faults = s[2]
        /\ lapsed = {} /\ overtaken = {}

Fault == faults > 0 /\ faults' = faults - 1

-----------------------------------------------------------------------------
(* What makes an agent look for a host.                                    *)

\* The beginning of establish_sessions().
Establish(c, mode) ==
    [c EXCEPT !.mode = mode, !.rec = @ /\ mode = "recovery",
              !.at = 1, !.left = {}, !.seen = Unread]

Becomes(a, c) == ctx' = [ctx EXCEPT ![a] = c]
Begin(a, mode) == Becomes(a, Establish(ctx[a], mode))

Boot(a) ==
    /\ ctx[a].mode = "off"
    /\ Begin(a, "normal")
    /\ UNCHANGED <<row, up, lapsed, overtaken, faults>>

\* The threads of the session have died with the host.
SessionLost(a) ==
    /\ ctx[a].mode = "idle" /\ ctx[a].session \notin up
    /\ Begin(a, "normal")
    /\ UNCHANGED <<row, up, lapsed, overtaken, faults>>

\* A failed subscription or a new configuration.
Reconnect(a) ==
    /\ ctx[a].mode = "idle" /\ ctx[a].session \in up
    /\ Fault
    /\ Begin(a, "normal")
    /\ UNCHANGED <<row, up, lapsed, overtaken>>

\* The monitor, while need_recovery is set.
Recovery(a) ==
    /\ ctx[a].mode = "idle" /\ ctx[a].rec /\ Len(Urls) > 1
    /\ ctx[a].renewing = NoOne
    /\ Begin(a, "recovery")
    /\ UNCHANGED <<row, up, lapsed, overtaken, faults>>

-----------------------------------------------------------------------------
(* One url after the other.                                                *)

\* Only the normal mode comes back to the urls that were skipped.
Skip(a) ==
    Becomes(a, [ctx[a] EXCEPT !.at = @ + 1, !.seen = Unread,
                              !.left = IF ctx[a].mode = "normal" THEN @ \cup {Here(a)}
                                       ELSE @])

\* is_available(): somebody else has refreshed the row lately.
TakenAny(a, r) == r # NoRow /\ r.owner # a
Taken(a, r) == r # NoRow /\ r.owner # a /\ r.fresh

Read(a) ==
    /\ Scanning(a) /\ ctx[a].at <= Len(Urls) /\ ctx[a].seen = Unread
    /\ IF Taken(a, row[Here(a)]) THEN Skip(a)
       ELSE Becomes(a, [ctx[a] EXCEPT !.seen = row[Here(a)]])
    /\ UNCHANGED <<row, up, lapsed, overtaken, faults>>

\* In recovery the agent takes the host it uses without another login.
DirectAny(a) == ctx[a].mode = "recovery" /\ ctx[a].seen # NoRow
Direct(a) ==
    /\ ctx[a].mode = "recovery" /\ ctx[a].seen # NoRow
    /\ ctx[a].session = Here(a)

\* _update_apic_assign_db(): the row is created, gets a new owner, or is
\* refreshed, depending on what was read and not on what it is now.
WrittenOver(a, h) == [owner |-> a, fresh |-> TRUE]
Written(a, h) == [owner |-> IF ctx[a].seen.owner = a THEN row[h].owner ELSE a,
                  fresh |-> TRUE]

\* create() fails when the row exists.
CreatableAny(a, h) == TRUE
Creatable(a, h) == ctx[a].seen = NoRow => row[h] = NoRow

\* Somebody else may be writing the row just now.
Contended(a, h) ==
    \E b \in Agents \ {a} :
       Runs(b) /\ ~ctx[b].rec /\ ctx[b].lease = h

Claim(a) ==
    /\ Scanning(a) /\ ctx[a].seen # Unread
    /\ Direct(a) \/ Here(a) \in up
    /\ Creatable(a, Here(a))
    /\ row' = [row EXCEPT ![Here(a)] = Written(a, Here(a))]
    /\ Becomes(a, [ctx[a] EXCEPT !.mode = "idle", !.rec = FALSE, !.lease = Here(a),
                                 !.session = IF Direct(a) THEN @ ELSE Here(a),
                                 !.at = 1, !.left = {}, !.seen = Unread])
    /\ overtaken' = IF ctx[a].renewing \in {NoOne, Here(a)} THEN overtaken \ {a}
                    ELSE overtaken \cup {a}
    /\ UNCHANGED <<up, lapsed, faults>>

\* No login, or the row could not be written.
NoClaim(a) ==
    /\ Scanning(a) /\ ctx[a].seen # Unread
    /\ \/ ~Direct(a) /\ Here(a) \notin up
       \/ ~Creatable(a, Here(a))
       \/ Contended(a, Here(a))
    /\ Skip(a)
    /\ UNCHANGED <<row, up, lapsed, overtaken, faults>>

AtEnd(a, mode) == ctx[a].mode = mode /\ ctx[a].at > Len(Urls)

\* Any of the urls that were skipped, which the random rotation puts first.
\* apic_assign_obj stays what it was.
Backup(a) ==
    /\ AtEnd(a, "normal")
    /\ \E h \in ctx[a].left \cap up :
          Becomes(a, [ctx[a] EXCEPT !.mode = "idle", !.rec = TRUE, !.session = h,
                                    !.at = 1, !.left = {}])
    /\ UNCHANGED <<row, up, lapsed, overtaken, faults>>

\* No host answers: the process ends, and its supervisor starts it again.
Harakiri(a) ==
    /\ AtEnd(a, "normal") /\ ctx[a].left \cap up = {}
    /\ Becomes(a, Off)
    /\ UNCHANGED <<row, up, lapsed, overtaken, faults>>

\* Recovery found nothing; need_recovery stays set.
GiveUp(a) ==
    /\ AtEnd(a, "recovery")
    /\ Becomes(a, [ctx[a] EXCEPT !.mode = "idle", !.at = 1, !.left = {}])
    /\ UNCHANGED <<row, up, lapsed, overtaken, faults>>

-----------------------------------------------------------------------------
(* Time, the monitor and the faults.                                       *)

\* The monitor takes apic_assign_obj, refreshes its row, whoever the owner is
\* by now, and makes the result apic_assign_obj, whatever that is by now.
BeginRenew(a) ==
    /\ Runs(a) /\ ~ctx[a].rec /\ ctx[a].lease # NoOne
    /\ ctx[a].renewing = NoOne
    /\ Becomes(a, [ctx[a] EXCEPT !.renewing = ctx[a].lease])
    /\ UNCHANGED <<row, up, lapsed, overtaken, faults>>

Renew(a) ==
    /\ ctx[a].renewing # NoOne
    /\ row' = [row EXCEPT ![ctx[a].renewing].fresh = TRUE]
    /\ Becomes(a, [ctx[a] EXCEPT !.lease = ctx[a].renewing, !.renewing = NoOne])
    /\ UNCHANGED <<up, lapsed, overtaken, faults>>

\* apic_available_time passes.
Expire(h) ==
    /\ row[h] # NoRow /\ row[h].fresh
    /\ ~\E a \in Agents : Leads(a, h)
    /\ row' = [row EXCEPT ![h].fresh = FALSE]
    /\ lapsed' = lapsed \cup {h}
    /\ UNCHANGED <<up, ctx, overtaken, faults>>

Crash(a) ==
    /\ Runs(a)
    /\ Fault
    /\ Becomes(a, Off)
    /\ UNCHANGED <<row, up, lapsed, overtaken>>

HostDown(h) ==
    /\ h \in up
    /\ Fault
    /\ up' = up \ {h}
    /\ UNCHANGED <<row, ctx, lapsed, overtaken>>

HostUp(h) ==
    /\ h \notin up
    /\ up' = up \cup {h}
    /\ UNCHANGED <<row, ctx, lapsed, overtaken, faults>>

Step(a) == \/ Boot(a) \/ SessionLost(a) \/ Recovery(a) \/ Read(a) \/ Claim(a)
           \/ NoClaim(a) \/ Backup(a) \/ Harakiri(a) \/ GiveUp(a)

Next == \/ \E a \in Agents : \/ Step(a) \/ BeginRenew(a) \/ Renew(a)
                             \/ Reconnect(a) \/ Crash(a)
        \/ \E h \in Hosts : Expire(h) \/ HostDown(h) \/ HostUp(h)

\* The threads go on, the process is started again, and time passes.
Fairness == /\ \A a \in Agents : WF_vars(Step(a)) /\ WF_vars(Renew(a))
            /\ \A h \in Hosts : WF_vars(Expire(h))

Spec == Init /\ [][Next]_vars /\ Fairness

-----------------------------------------------------------------------------
(* Properties.                                                             *)

\* An agent that believes to lead a host and refreshes its row has its session
\* with this very host, whatever sequence of backups, recoveries and
\* reconnections it has come by.  The exception is an agent that reconnected
\* while its monitor was refreshing another row: apic_assign_obj is then
\* overwritten with the old one, until the next claim.
LeaderOnItsHost ==
    \A a \in Agents \ overtaken :
       ctx[a].mode = "idle" /\ ~ctx[a].rec => Leads(a, ctx[a].session)

\* The same without the exception: the table tracks the mapping of hosts to
\* agents (docstring of ApicAssignment in aim/api/infra.py).
MappingTracked ==
    \A a \in Agents :
       ctx[a].mode = "idle" /\ ~ctx[a].rec /\ ctx[a].renewing = NoOne
          => Leads(a, ctx[a].session)

\* Two agents do not lead one host, unless its row has run out: then two of
\* them may have read it, and the second claim takes it from the first.
NotShared ==
    \A h \in Hosts \ lapsed : \A a, b \in Agents : Leads(a, h) /\ Leads(b, h) => a = b

\* A host that answers does not stay without a leader for good while agents
\* wait on backups, also when the agent that led it has crashed.
Takeover ==
    Len(Urls) > 1 =>
       \A h \in Hosts :
          []<>(h \in up /\ (\E a \in Agents : Waits(a)) => \E a \in Agents : Leads(a, h))

\* A row that has been refreshed within apic_available_time keeps its owner
\* (help text of the option in aim/config.py).
TakenOnlyWhenAvailable ==
    [][\A h \in Hosts : row[h] # NoRow /\ row'[h].owner # row[h].owner
                           => ~row[h].fresh]_vars
=============================================================================
