---------------------------- MODULE MCWriteQueue ----------------------------
(***************************************************************************)
(* Lines of two sizes against a watermark that a few of them exceed.       *)
(***************************************************************************)
EXTENDS WriteQueue, TLC
=============================================================================
