----------------------------- MODULE MCRowStore -----------------------------
(* The tables of all classes; two clients are interchangeable.             *)
EXTENDS RowStore

CONSTANTS c1, c2
MCClients == {c1, c2}
MCRelated == {"BridgeDomain", "EndpointGroup", "L3OutInterface", "SecurityGroupRule", "ServiceGraph"}
\* The tables of endpoint groups have two attributes each, and many more states.
MCMaxEpoch == [k \in Klasses |-> IF k = "EndpointGroup" THEN 2 ELSE 3]
Symmetric == Permutations(MCClients)
=============================================================================
