--------------------------- MODULE MCConnections ---------------------------
(***************************************************************************)
(* Instances of Connections for TLC: three clients for two permits.        *)
(***************************************************************************)
EXTENDS Connections

CONSTANTS c1, c2, c3

\* Bound: one of the three clients always reads what it is sent.
OneReads == conn[c3].client # "stalls"
=============================================================================
