----------------------------- MODULE MCListener -----------------------------
(* Instances of TreeListener and of ActionLogs: transactions of one object,  *)
(* with what the logs say, or of any number of objects, with how many logs   *)
(* there are.                                                                *)
EXTENDS MCTreeListener, ActionLogs

\* Nobody writes in TreeListener; the sessions and the server of ActionLogs run.
RowsOnly ==
    [Threshold EXCEPT !.clients = {}, !.agents = {}, !.cleaners = {}, !.maxWrites = 0]

ListenerSettings == AllSettings \cup {RowsOnly}

ListenerInit == Init /\ LogInit

ListenerNext ==
    \/ Next /\ UNCHANGED logVars
    \/ setting = RowsOnly /\ LogNext /\ UNCHANGED vars

ListenerSpec ==
    ListenerInit /\ [][ListenerNext]_<<vars, logVars>> /\ Fairness
=============================================================================
