------------------------------- MODULE MCApp -------------------------------
(***************************************************************************)
(* Three processes and two ports; one outbound proxy name that two         *)
(* configurations place at different endpoints and the third at none.      *)
(***************************************************************************)
EXTENDS App, TLC

CONSTANTS p1, p2, p3, a, b, c, d, v, w, x, n, e, f

MCEndpoint == (v :> (n :> e)) @@ (w :> (n :> f)) @@ (x :> (n :> Direct))
=============================================================================
