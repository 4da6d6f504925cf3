------------------------------ MODULE MCLogFeed ------------------------------
(***************************************************************************)
(* Instances of LogFeed for TLC.                                           *)
(***************************************************************************)
EXTENDS LogFeed
=============================================================================
