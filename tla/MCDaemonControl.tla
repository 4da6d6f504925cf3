--------------------------- MODULE MCDaemonControl ---------------------------
(***************************************************************************)
(* Instances of DaemonControl for TLC.                                     *)
(***************************************************************************)
EXTENDS DaemonControl, TLC

Symmetry == Permutations(Daemons)
=============================================================================
