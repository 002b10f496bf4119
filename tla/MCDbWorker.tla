----------------------------- MODULE MCDbWorker -----------------------------
(***************************************************************************)
(* Two miners, two parent blocks and one merge-mined block.                 *)
(***************************************************************************)
EXTENDS DbWorker, TLC
CONSTANTS w, v, p, q, d
==============================================================================
