--------------------------- MODULE MCTreeListener ---------------------------
(* Instances of TreeListener.                                                *)
EXTENDS TreeListener

CONSTANTS epg,         \* an endpoint group
          rule, twin,  \* rules of distinct security groups, of the same name
          v1, hidden,  \* a value, and one that keeps the object out of the trees
          c1, c2, a1, a2

OneName == [o \in SGRules |-> "rule"]

\* Two agents replay the logs of one client, and a universe asks for a reset.
TwoAgents ==
    [clients |-> {c1}, objs |-> {epg, rule}, vals |-> {v1, hidden},
     agents |-> {a1, a2}, cleaners |-> {}, trees |-> TRUE,
     maxEvents |-> 9, maxWrites |-> 3, maxResets |-> 1]

\* One agent creates the trees, and deletes those of the emptied root.
OneAgent ==
    [TwoAgents EXCEPT !.agents = {a1}, !.cleaners = {a1}, !.trees = FALSE,
                      !.maxWrites = 4]

\* Two clients pass the threshold at the same time.
Threshold ==
    [clients |-> {c1, c2}, objs |-> {epg, rule}, vals |-> {v1},
     agents |-> {a1}, cleaners |-> {a1}, trees |-> TRUE,
     maxEvents |-> 1, maxWrites |-> 5, maxResets |-> 0]

\* Two clients race for the same objects, below the threshold.
TwoClients ==
    [TwoAgents EXCEPT !.clients = {c1, c2}, !.vals = {v1}, !.agents = {a1},
                      !.cleaners = {a1}, !.maxWrites = 4, !.maxResets = 0]

AllSettings == {TwoAgents, OneAgent, TwoClients, Threshold}

\* One client, one agent, and a threshold that is passed.
ResetRace ==
    {[Threshold EXCEPT !.clients = {c1}, !.cleaners = {}, !.maxWrites = 4]}

\* One agent catches up while the other takes the root for deleted.
Leftovers ==
    {[TwoAgents EXCEPT !.objs = {epg}, !.vals = {v1}, !.cleaners = {a1},
                       !.maxWrites = 1, !.maxResets = 0]}

\* Two rules.
RuleNames ==
    {[TwoAgents EXCEPT !.objs = {rule, twin}, !.vals = {v1}, !.agents = {a1},
                       !.maxWrites = 4, !.maxResets = 0]}
=============================================================================
