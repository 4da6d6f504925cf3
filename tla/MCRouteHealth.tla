--------------------------- MODULE MCRouteHealth ---------------------------
(***************************************************************************)
(* Instances of RouteHealth for TLC: two exits, and the plans of the       *)
(* operations that contend for them.                                       *)
(***************************************************************************)
EXTENDS RouteHealth, TLC

CONSTANTS e1, e2, o1, o2, c1, c2

BothExits == {e1, e2}

Http(list, retryable, names) ==
    [tunnel |-> FALSE, list |-> list, retryable |-> retryable, names |-> names]
Connect(list, names) ==
    [tunnel |-> TRUE, list |-> list, retryable |-> FALSE, names |-> names]

\* Lists of two exits in either order, retried or not.
HttpPlans == {Http(TRUE, TRUE, <<e1, e2>>), Http(TRUE, FALSE, <<e2, e1>>)}

\* One exit only: everything contends for one cell.
RacingPlans == {Http(TRUE, FALSE, <<e1>>), Http(FALSE, TRUE, <<e1>>)}

\* Three routes for a cache of two.
EvictionPlans == {Http(TRUE, FALSE, <<e1, e2>>), Connect(TRUE, <<e2>>)}

ConnectPlans == {Connect(TRUE, <<e1, e2>>), Connect(TRUE, <<e2, e1>>), Connect(FALSE, <<e1>>)}

\* Plans of the liveness run.
RetriedList == Http(TRUE, TRUE, <<e1, e2>>)
WaitingRequest == Http(TRUE, FALSE, <<e1>>)
TunnelList == Connect(TRUE, <<e1, e2>>)
OtherTunnelList == Connect(TRUE, <<e2, e1>>)
LivePlans == {RetriedList, WaitingRequest, TunnelList, OtherTunnelList}

AllPlans == RacingPlans \cup HttpPlans \cup ConnectPlans \cup EvictionPlans

TaskSymmetry == Permutations(Cells) \cup Permutations(Ops)

\* Bound: no next_check is reached, which keeps the monitor out of a run.
NothingDue == \A c \in Cells : ~health[c].due

\* Bound: two operations with lists differ in them, HTTP requests and tunnels
\* are mixed only to fill the cache, and the monitor runs only where all
\* contend for one exit.
Focused ==
    \/ \A o \in Ops : plan[o] \in RacingPlans
    \/ /\ NothingDue
       /\ \E plans \in {HttpPlans, ConnectPlans, EvictionPlans} : \A o \in Ops : plan[o] \in plans
       /\ \A o, q \in Ops : o # q => plan[o] # plan[q]

\* Bound: which operations meet in the liveness run, with exits whose second
\* one works.  Two cold requests wait for one mutex while their exit is slow at
\* times; a list of two is retried, or goes on to its second exit, against a
\* request for its slow first one; and two tunnels try two exits of which one
\* goes down.  Cells are alike, so it is fixed which of them a route gets.
Paired ==
    /\ \/ /\ plan[o1] = WaitingRequest /\ plan[o2] = WaitingRequest
          /\ net[e1] \in {"fair", "slow"}
       \/ /\ plan[o1] = RetriedList /\ plan[o2] = WaitingRequest
          /\ net[e1] = "slow"
       \/ /\ plan[o1] = TunnelList /\ plan[o2] = OtherTunnelList
          /\ net[e1] \in {"fair", "down"}
    /\ net[e2] = "fair"
    /\ \A k \in Keys : probes[k] \in {NoCell, IF k.exit = e1 THEN c1 ELSE c2}
=============================================================================
