---------------------------- MODULE MCNodeClient ----------------------------
(***************************************************************************)
(* Instances of NodeClient for TLC.                                        *)
(***************************************************************************)
EXTENDS NodeClient
=============================================================================
