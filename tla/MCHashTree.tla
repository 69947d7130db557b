----------------------------- MODULE MCHashTree -----------------------------
(* A small instance of DiffRounds: a root with a chain of two nodes below    *)
(* it, and the key of another root, which add() has to refuse.               *)
EXTENDS DiffRounds, Sequences

ChainKeys == {<<"tn">>, <<"tn", "bd">>, <<"tn", "bd", "subnet">>, <<"common">>}

TupleAnc == [k \in Keys |-> {SubSeq(k, 1, i) : i \in 1..Len(k)}]
=============================================================================
