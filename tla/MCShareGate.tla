----------------------------- MODULE MCShareGate -----------------------------
(***************************************************************************)
(* Two V1 sessions that drew the same extranonce1 for the same payout, and *)
(* one V2 session of its own; a nonce that is always low and one that      *)
(* solves a block, under thresholds that accept or refuse either.          *)
(***************************************************************************)
EXTENDS ShareGate, TLC
CONSTANTS a, b, c, x, y, lo, hi, A, B

MCSpace == [s \in Sessions |-> IF s = c THEN y ELSE x]
MCDiff  == [n \in Nonces |-> IF n = hi THEN 3 ELSE 1]
MCTargets == {1, 4}

\* The V1 sessions share a search space and the two tips are only compared, so
\* either pair is interchangeable.
InterchangeSymmetry == Permutations({a, b}) \cup Permutations({A, B})
==============================================================================
