--------------------------- MODULE TenantSharding ---------------------------
(***************************************************************************)
(* Which agent serves which root: the serving part of the daemon loop of   *)
(* aim/agent/aid/service.py, its heartbeat loop and its watchdog.          *)
(*                                                                         *)
(* Every agent keeps a row in the database that its heartbeat loop         *)
(* touches.  From time to time (the poller sends a SERVE event) its daemon *)
(* loop reads the rows, takes the agents that are up for the members of a  *)
(* hash ring and serves the roots that the ring gives to it.  Agents never *)
(* talk to each other: that each root has one server is a matter of all    *)
(* the agents reading the same rows soon enough.                           *)
(*                                                                         *)
(* Time is counted in ticks.  A tick waits for the loops that are due: the *)
(* heartbeat of an agent whose database access is not slow, the daemon     *)
(* loop of one that does not hang.                                         *)
(***************************************************************************)
EXTENDS Naturals, FiniteSets

CONSTANTS Agents,
          Roots,       \* roots that have a base tree at some time
          Versions,    \* major versions
          Owner,       \* Owner[S][r]: the agent that the ring of S gives r to
          Report,      \* agent_report_interval
          DownTime,    \* agent_down_time
          MaxDownTime, \* 4 * agent_report_interval
          Deadlock,    \* agent_deadlock_time
          Day,         \* timedelta.seconds starts again from 0 after a day
          ServePeriod, \* the daemon loop serves at least that often
          MaxFaults    \* bound: crashes, hangs, slow phases, operator actions

ASSUME OwnerAssumption ==
    \A S \in SUBSET Agents : S # {} => \A r \in Roots : Owner[S][r] \in S

ASSUME TimeAssumption ==
    /\ Report \in Nat /\ DownTime \in Nat /\ MaxDownTime \in Nat
    /\ Deadlock \in Nat /\ Day \in Nat /\ ServePeriod \in Nat /\ MaxFaults \in Nat
    /\ DownTime < Day /\ ServePeriod <= Deadlock

ASSUME VersionAssumption == Versions \subseteq Nat /\ Versions # {}

VARIABLES running,  \* agents whose process runs
          hung,     \* those whose daemon loop makes no progress
          slow,     \* those whose heartbeats may be late
          known,    \* agents that have a row
          age,      \* age[a]: time since heartbeat_timestamp
          admin,    \* rows with admin_state_up
          version,  \* version[a], of the row
          stored,   \* stored[a]: hash_trees of the row
          served,   \* served[a]: what the universes of the agent serve
          idle,     \* idle[a]: time since daemon_loop_time
          roots,    \* roots that have a base tree
          faults,   \* faults so far
          calm      \* history: time since the view of the agents last changed

vars == <<running, hung, slow, known, age, admin, version, stored, served, idle,
          roots, faults, calm>>

-----------------------------------------------------------------------------
(* The rows.                                                               *)

\* Agent.is_down
IsDown(a) == age[a] >= DownTime

\* Agent.down_time, of an agent that is down
DownFor(a) == age[a] % Day

\* The peers that _calculate_tenants finds.
Alive == {a \in known \cap admin : ~IsDown(a)}

\* ... without the outdated ones: the members of the ring.
Eligible == {a \in Alive : \A b \in Alive : version[b] <= version[a]}

\* Fault for the mutants: an agent that is not a member of the ring is served by
\* it as if it were.
CalculatedAnyway(a) == {r \in roots : Owner[Eligible \cup {a}][r] = a}

\* What _calculate_tenants returns: nothing without peers, nothing for an
\* outdated agent, nothing for one that is not among its own peers.
Calculated(a) ==
    IF a \in Eligible THEN {r \in roots : Owner[Eligible][r] = a} ELSE {}

\* What every agent would find in the database now.
View == <<Eligible, roots>>

Init ==
    /\ running = {} /\ hung = {} /\ slow = {} /\ known = {}
    /\ age = [a \in Agents |-> 0]
    /\ admin = {}
    /\ version \in [Agents -> Versions]
    /\ stored = [a \in Agents |-> {}]
    /\ served = [a \in Agents |-> {}]
    /\ idle = [a \in Agents |-> 0]
    /\ roots \in SUBSET Roots
    /\ faults = 0
    /\ calm = 0

-----------------------------------------------------------------------------
(* Time.                                                                   *)

\* Ages that is_down and down_time cannot tell apart are not distinguished.
Older(n) == IF n + 1 = 2 * Day THEN Day ELSE n + 1

AtMost(n, limit) == IF n <= limit THEN n ELSE limit

\* The loops that are due have run; the rows and the loops get older.
Tick ==
    /\ \A a \in running \ slow : age[a] < Report
    /\ \A a \in running \ hung : idle[a] < ServePeriod
    /\ age' = [a \in Agents |-> IF a \in known THEN Older(age[a]) ELSE 0]
    /\ idle' = [a \in Agents |->
                   IF a \in running THEN AtMost(idle[a] + 1, Deadlock + 1) ELSE 0]
    /\ UNCHANGED <<running, hung, slow, known, admin, version, stored, served,
                   roots, faults>>
    /\ calm' = IF View' = View THEN AtMost(calm + 1, ServePeriod + 1) ELSE 0

\* The history variable follows what a step does to the view.
Watched == calm' = IF View' = View THEN calm ELSE 0

-----------------------------------------------------------------------------
(* The agents.                                                             *)

\* AID.__init__: the row is created or overwritten (which touches its heartbeat
\* and sets admin_state_up), whatever it said; nothing is served yet.
Start(a, v) ==
    /\ a \notin running
    /\ running' = running \cup {a}
    /\ known' = known \cup {a}
    /\ age' = [age EXCEPT ![a] = 0]
    /\ admin' = admin \cup {a}
    /\ version' = [version EXCEPT ![a] = v]
    /\ served' = [served EXCEPT ![a] = {}]
    /\ idle' = [idle EXCEPT ![a] = 0]
    /\ calm' = 0
    /\ UNCHANGED <<hung, slow, stored, roots, faults>>

\* The process ends: a crash, SIGTERM, or perform_harakiri.
Exit(a) ==
    /\ running' = running \ {a}
    /\ hung' = hung \ {a}
    /\ slow' = slow \ {a}
    /\ served' = [served EXCEPT ![a] = {}]
    /\ idle' = [idle EXCEPT ![a] = 0]

\* Fault for the mutants: no watchdog.
HeartbeatOnly(a) ==
    /\ a \in running
    /\ age' = [age EXCEPT ![a] = 0]
    /\ UNCHANGED <<running, hung, slow, served, idle, known, admin, version,
                   stored, roots, faults>>
    /\ Watched

\* _heartbeat_loop: the row is touched; then a daemon loop that has not ended a
\* cycle for too long makes the process exit.
Heartbeat(a) ==
    /\ a \in running
    /\ age' = [age EXCEPT ![a] = 0]
    /\ IF idle[a] > Deadlock THEN Exit(a)
                             ELSE UNCHANGED <<running, hung, slow, served, idle>>
    /\ UNCHANGED <<known, admin, version, stored, roots, faults>>
    /\ Watched

\* _calculate_tenants exits when the agent finds itself down for too long.
Suicide(a) ==
    /\ a \in running \ hung
    /\ IsDown(a) /\ DownFor(a) > MaxDownTime
    /\ Exit(a)
    /\ UNCHANGED <<known, age, admin, version, stored, roots, faults>>
    /\ Watched

\* A serving cycle: _calculate_tenants, serve() of the universes, and the rest of
\* the cycle.  The result is stored in the row unless the early returns are taken;
\* writing a row that changes touches its heartbeat.
Serve(a) ==
    /\ a \in running \ hung
    /\ ~(IsDown(a) /\ DownFor(a) > MaxDownTime)
    /\ LET result == Calculated(a)
           stores == /\ Alive # {}
                     /\ \A b \in Alive : version[b] <= version[a]
                     /\ stored[a] # result
       IN  /\ served' = [served EXCEPT ![a] = result]
           /\ stored' = IF stores THEN [stored EXCEPT ![a] = result] ELSE stored
           /\ age' = IF stores THEN [age EXCEPT ![a] = 0] ELSE age
    /\ idle' = [idle EXCEPT ![a] = 0]
    /\ UNCHANGED <<running, hung, slow, known, admin, version, roots, faults>>
    /\ Watched

-----------------------------------------------------------------------------
(* Faults and the environment.                                             *)

Fault == faults < MaxFaults /\ faults' = faults + 1

Crash(a) ==
    /\ a \in running
    /\ Exit(a)
    /\ Fault
    /\ UNCHANGED <<known, age, admin, version, stored, roots>>
    /\ Watched

Hang(a) ==
    /\ a \in running \ hung
    /\ hung' = hung \cup {a}
    /\ Fault
    /\ UNCHANGED <<running, slow, known, age, admin, version, stored, served, idle,
                   roots>>
    /\ Watched

Slow(a) ==
    /\ a \in running \ slow
    /\ slow' = slow \cup {a}
    /\ Fault
    /\ UNCHANGED <<running, hung, known, age, admin, version, stored, served, idle,
                   roots>>
    /\ Watched

\* The database answers again: the heartbeat that was due is written.
Recover(a) ==
    /\ a \in slow
    /\ slow' = slow \ {a}
    /\ age' = [age EXCEPT ![a] = 0]
    /\ UNCHANGED <<running, hung, known, admin, version, stored, served, idle,
                   roots, faults>>
    /\ Watched

\* An operator changes admin_state_up (an update of the row).
Administer(a) ==
    /\ a \in known
    /\ admin' = IF a \in admin THEN admin \ {a} ELSE admin \cup {a}
    /\ age' = [age EXCEPT ![a] = 0]
    /\ Fault
    /\ UNCHANGED <<running, hung, slow, known, version, stored, served, idle, roots>>
    /\ Watched

\* The base tree of a root is created or deleted; the agents' references to it
\* go with it (ondelete='CASCADE'), without an update of their rows.
ChangeRoots(r) ==
    /\ roots' = IF r \in roots THEN roots \ {r} ELSE roots \cup {r}
    /\ stored' = [a \in Agents |-> stored[a] \ {r}]
    /\ Fault
    /\ UNCHANGED <<running, hung, slow, known, age, admin, version, served, idle>>
    /\ Watched

-----------------------------------------------------------------------------
AgentStep(a) ==
    \/ \E v \in Versions : Start(a, v)
    \/ Heartbeat(a)
    \/ Suicide(a)
    \/ Serve(a)

Next ==
    \/ Tick
    \/ \E a \in Agents :
           \/ AgentStep(a)
           \/ Crash(a) \/ Hang(a) \/ Slow(a) \/ Recover(a) \/ Administer(a)
    \/ \E r \in Roots : ChangeRoots(r)

Spec == Init /\ [][Next]_vars

\* Time passes, the loops of a process go on unless they hang, processes are
\* started again by their supervisor, and a slow database answers in the end.
Fairness ==
    /\ WF_vars(Tick)
    /\ \A a \in Agents :
          /\ WF_vars(\E v \in Versions : Start(a, v))
          /\ WF_vars(Heartbeat(a)) /\ WF_vars(Serve(a)) /\ WF_vars(Suicide(a))
          /\ WF_vars(Recover(a))

FairSpec == Spec /\ Fairness

-----------------------------------------------------------------------------
(* Properties.                                                             *)

\* Types of the rows and of what the processes keep.
TypeOK ==
    /\ running \subseteq known /\ known \subseteq Agents
    /\ hung \subseteq running /\ slow \subseteq running
    /\ admin \subseteq known
    /\ age \in [Agents -> Nat]
    /\ version \in [Agents -> Versions]
    /\ stored \in [Agents -> SUBSET Roots]
    /\ served \in [Agents -> SUBSET Roots]
    /\ idle \in [Agents -> Nat]
    /\ roots \subseteq Roots
    /\ faults \in 0..MaxFaults
    /\ calm \in 0..(ServePeriod + 1)

Servers(r) == {a \in running : r \in served[a]}

\* Each root is served by exactly one agent, a member of the ring.
ExactlyOne == \A r \in roots : \E a \in Eligible : Servers(r) = {a}

\* Soon after the rows stop changing, and provided that the members of the ring
\* run and nobody hangs, every root has exactly one server, although the agents
\* compute their shares separately, at different times, and an agent that its
\* peers have given up may still be running.
SettledInTime ==
    /\ calm > ServePeriod
    /\ Eligible # {} /\ Eligible \subseteq running
    /\ hung = {}
    => ExactlyOne

\* In the end, with no more faults, whatever state they left behind, every root
\* has exactly one server: dead members leave the ring, hung ones are killed by
\* their own watchdog and come back, outdated ones step aside.
EventuallySettled == <>[](Eligible # {} => ExactlyOne)
=============================================================================
