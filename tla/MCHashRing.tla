----------------------------- MODULE MCHashRing -----------------------------
(* An instance of HashRing: four nodes whose stars are interleaved.          *)
EXTENDS HashRing

Apart == [n \in Nodes |-> CASE n = "a" -> <<2, 14, 22>>
                            [] n = "b" -> <<8, 4, 18>>
                            [] n = "c" -> <<16, 10, 6>>
                            [] n = "d" -> <<20, 24, 12>>]

\* A key in each gap of the ring, on a star, and past the last one.
EachGap == [k \in RingKeys |-> k]
=============================================================================
