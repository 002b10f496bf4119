----------------------------- MODULE MCJobFeed -----------------------------
(***************************************************************************)
(* Instances of JobFeed for TLC.                                           *)
(***************************************************************************)
EXTENDS JobFeed, TLC
=============================================================================
