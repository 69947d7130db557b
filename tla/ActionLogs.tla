----------------------------- MODULE ActionLogs -----------------------------
(***************************************************************************)
(* How many action logs of a root can pile up: on_commit of                *)
(* aim/db/hashtree_db_listener.py, called before every flush of a session, *)
(* beside agents that read the logs and delete them (catch_up_with_action_ *)
(* log).  TreeListener has what the logs say and what agents make of them, *)
(* for transactions that write one object; here transactions have any      *)
(* number of flushes, a flush any number of objects, and a log is only a   *)
(* row that counts.                                                        *)
(*                                                                         *)
(* A transaction reads a snapshot and what it has flushed itself.  A query *)
(* inside on_commit does not flush, because the session is just flushing:  *)
(* the logs that one flush adds are not counted for its other objects.     *)
(***************************************************************************)
EXTENDS Naturals, FiniteSets

CONSTANTS Sessions,   \* sessions that write AIM objects of the root
          Servers,    \* agents that serve the root
          MaxEvents,  \* MAX_EVENTS_PER_ROOT
          MaxFlush,   \* bound: objects of the root in one flush
          MaxIds      \* bound: logs that are ever written

ASSUME ActionLogsAssumption ==
    MaxEvents \in Nat /\ MaxFlush \in Nat \ {0} /\ MaxIds \in Nat

VARIABLES table,   \* the committed logs of the root
          tx,      \* tx[c]: open transaction of a session
          reading, \* reading[s]: the logs that a server is working through
          lastId   \* the last ActionLog.id that was allotted

logVars == <<table, tx, reading, lastId>>

\* "by" is history: the session that has written the log.
LogRow == [id : Nat, by : Sessions, reset : BOOLEAN]
Tx == [open : BOOLEAN, seen : SUBSET LogRow, own : SUBSET LogRow]
NoTx == [open |-> FALSE, seen |-> {}, own |-> {}]

LogInit ==
    /\ table = {}
    /\ tx = [c \in Sessions |-> NoTx]
    /\ reading = [s \in Servers |-> {}]
    /\ lastId = 0

-----------------------------------------------------------------------------
(* Sessions.                                                               *)

BeginTx(c) ==
    /\ ~tx[c].open
    /\ tx' = [tx EXCEPT ![c] = [open |-> TRUE, seen |-> table, own |-> {}]]
    /\ UNCHANGED <<table, reading, lastId>>

\* What the queries of a transaction find.
Visible(t) == t.seen \cup t.own

\* _get_reset_count
ResetPending(t) == \E l \in Visible(t) : l.reset

NewLogs(c, n, reset) ==
    {[id |-> lastId + i, by |-> c, reset |-> reset] : i \in 1..n}

\* Fault for the mutants: a RESET that is pending is not looked for.
OnCommitAlways(c, n) ==
    NewLogs(c, n, Cardinality(Visible(tx[c])) >= MaxEvents)

\* on_commit for a flush of n objects: nothing while a reset is pending; a RESET for
\* each of them if there are too many logs.
OnCommit(c, n) ==
    IF ResetPending(tx[c]) THEN {}
    ELSE NewLogs(c, n, Cardinality(Visible(tx[c])) >= MaxEvents)

\* The ids are allotted when the logs are inserted: those of overlapping transactions
\* are not in the order of the commits.
Flush(c, n) ==
    /\ tx[c].open
    /\ lastId + n <= MaxIds
    /\ tx' = [tx EXCEPT ![c].own = @ \cup OnCommit(c, n)]
    /\ lastId' = lastId + Cardinality(OnCommit(c, n))
    /\ UNCHANGED <<table, reading>>

CommitTx(c) ==
    /\ tx[c].open
    /\ table' = table \cup tx[c].own
    /\ tx' = [tx EXCEPT ![c] = NoTx]
    /\ UNCHANGED <<reading, lastId>>

RollbackTx(c) ==
    /\ tx[c].open
    /\ tx' = [tx EXCEPT ![c] = NoTx]
    /\ UNCHANGED <<table, reading, lastId>>

-----------------------------------------------------------------------------
(* Servers.                                                                *)

\* catch_up_with_action_log finds the logs of the root, in its own snapshot.
Fetch(s) ==
    /\ reading[s] = {} /\ table # {}
    /\ reading' = [reading EXCEPT ![s] = table]
    /\ UNCHANGED <<table, tx, lastId>>

\* _delete_logs: those that were read, by their uuids.
DeleteLogs(s) ==
    /\ reading[s] # {}
    /\ table' = table \ reading[s]
    /\ reading' = [reading EXCEPT ![s] = {}]
    /\ UNCHANGED <<tx, lastId>>

\* The transaction is rolled back, or a reset that no RESET log asked for has
\* recreated the trees: the logs stay.
KeepLogs(s) ==
    /\ reading[s] # {}
    /\ reading' = [reading EXCEPT ![s] = {}]
    /\ UNCHANGED <<table, tx, lastId>>

-----------------------------------------------------------------------------
LogNext ==
    \/ \E c \in Sessions :
          \/ BeginTx(c) \/ CommitTx(c) \/ RollbackTx(c)
          \/ \E n \in 1..MaxFlush : Flush(c, n)
    \/ \E s \in Servers : Fetch(s) \/ DeleteLogs(s) \/ KeepLogs(s)

LogSpec == LogInit /\ [][LogNext]_logVars

-----------------------------------------------------------------------------
(* Properties.                                                             *)

\* The logs and what is read of them have their types.
LogTypeOK ==
    /\ table \subseteq LogRow
    /\ tx \in [Sessions -> Tx]
    /\ reading \in [Servers -> SUBSET LogRow]
    /\ lastId \in Nat

\* The logs that a session has committed and that are still there.
Standing(c) == {l \in table : l.by = c}

\* The logs of a root stay bounded, although every transaction decides on what its own
\* snapshot counts and a flush does not count what it adds: of one session no more
\* stand than come just below the threshold, one flush of changes and one of RESETs
\* (on_commit).  Several sessions together pass the threshold by as much each.
LogBounded ==
    \A c \in Sessions : Cardinality(Standing(c)) < MaxEvents + 2 * MaxFlush
=============================================================================
