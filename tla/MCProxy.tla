------------------------------ MODULE MCProxy ------------------------------
(***************************************************************************)
(* Instances of Proxy for TLC.                                             *)
(***************************************************************************)
EXTENDS Proxy, TLC

\* Miners are interchangeable.
Miners == Permutations(Sessions)

\* The first endpoint has twice the weight of the second.
Costs == [l \in 1..NLinks |-> l]

\* One of the two miners speaks V2.
OneOfEach == {v \in SUBSET Sessions : Cardinality(v) = 1}
=============================================================================
