-------------------------- MODULE MCTenantSharding --------------------------
(* Instances of TenantSharding.  The agents share out the roots as the ring   *)
(* of HashRing does.                                                         *)
EXTENDS TenantSharding, SequencesExt

Stars == [n \in Agents |-> CASE n = "aid1" -> <<2, 8>>
                             [] n = "aid2" -> <<4, 6>>
                             [] n = "aid3" -> <<5, 9>>]
RootHash == [r \in Roots |-> IF r = "t1" THEN 3 ELSE 7]

Ring(S) ==
    INSTANCE HashRing WITH
        Instances <- S, Nodes <- S, Weights <- {1}, Vnodes <- 2, Replicas <- 1,
        HashSpace <- 10, StarHash <- Stars, RingKeys <- Roots, KeyHash <- RootHash,
        nodes <- <<>>, ring <- <<>>

\* The ring of an agent that finds the members in the order of p.
Built(S, p) ==
    FoldLeft(LAMBDA r, n : Ring(S)!WithNode(r, n, 1), Ring(S)!EmptyRing, p)

\* Where the ring puts each root, for every set of members: the star that follows.
RingOwner ==
    [S \in SUBSET Agents \ {{}} |->
        [r \in Roots |->
            LET stars == {<<h, n>> \in (1..9) \X S : h \in ToSet(Stars[n])}
                after == {s \in stars : s[1] > RootHash[r]}
                among == IF after = {} THEN stars ELSE after
            IN  (CHOOSE s \in among : \A t \in among : s[1] <= t[1])[2]]]

\* It is what assign_key returns, on a ring that is given the members in any order.
ASSUME RingOwnerAssumption ==
    \A S \in SUBSET Agents \ {{}} : \A r \in Roots, p \in SetToSeqs(S) :
        <<RingOwner[S][r]>> = Ring(S)!AssignKey(Built(S, p), r)
=============================================================================
