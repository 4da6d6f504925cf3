----------------------------- MODULE ExitHealth -----------------------------
(***************************************************************************)
(* What the route health cache promises about every route (one ProbeKey:   *)
(* an exit and the way it is used), whatever the requests, probes, locks   *)
(* and evictions behind it do: its verdict is always the judgement of the  *)
(* observations heard, one at a time.  One success restores the route, a   *)
(* hard failure disables it, and it takes three consecutive transient      *)
(* failures to disable it.                                                 *)
(***************************************************************************)
CONSTANT Routes

VARIABLES verdict, evidence

vars == <<verdict, evidence>>

Results  == {"Healthy", "Transient", "HardFailure"}
Verdicts == {"unknown", "healthy", "suspect1", "suspect2", "unavailable"}

\* One more transient failure moves the verdict one grade down.
Worse == [ unknown     |-> "suspect1",
           healthy     |-> "suspect1",
           suspect1    |-> "suspect2",
           suspect2    |-> "unavailable",
           unavailable |-> "unavailable" ]

Judge(v, r) == IF r = "Transient" THEN Worse[v]
               ELSE IF r = "Healthy" THEN "healthy" ELSE "unavailable"

Init == /\ verdict  = [k \in Routes |-> "unknown"]
        /\ evidence = [k \in Routes |-> "none"]

\* An observation of route k is heard and judged.
Hear(k, r) == /\ verdict'  = [verdict  EXCEPT ![k] = Judge(@, r)]
              /\ evidence' = [evidence EXCEPT ![k] = r]

\* The bounded cache drops what it knew of route k.
Forget(k) == /\ verdict'  = [verdict  EXCEPT ![k] = "unknown"]
             /\ evidence' = [evidence EXCEPT ![k] = "none"]

Next == \E k \in Routes : Forget(k) \/ \E r \in Results : Hear(k, r)

Spec == Init /\ [][Next]_vars
=============================================================================
