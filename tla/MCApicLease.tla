---------------------------- MODULE MCApicLease ----------------------------
(* Two hosts, with more agents than hosts, so that one waits on a backup,  *)
(* or with as many and one more fault, so that they change places.         *)
EXTENDS ApicLease

CONSTANTS first, second, a1, a2, a3

TwoUrls == <<first, second>>
Crews   == {<<{a1, a2, a3}, 1>>, <<{a1, a2}, 2>>}
=============================================================================
