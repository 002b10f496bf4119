------------------------------ MODULE MCTrunk ------------------------------
(***************************************************************************)
(* Instances of Trunk for TLC.                                             *)
(***************************************************************************)
EXTENDS Trunk, TLC

\* Miners are interchangeable.
Alike == Permutations(Miners)
=============================================================================
