--------------------------- MODULE MCSv2Upstream ---------------------------
(***************************************************************************)
(* The instance of Sv2Upstream for TLC: one miner, whose sessions are only *)
(* told apart in the numbering of slots, and shares and jobs by their      *)
(* numbers.  Every constant is given in the configuration.                 *)
(***************************************************************************)
EXTENDS Sv2Upstream
=============================================================================
