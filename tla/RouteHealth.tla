---------------------------- MODULE RouteHealth ----------------------------
(***************************************************************************)
(* Route selection, health cache and outbound execution of the proxy       *)
(* (src/server_transport.rs): logical HTTP requests (send_via), CONNECT    *)
(* requests (connect_via) and the background monitor (monitor_probes)      *)
(* share one bounded map from route to a mutex-protected ProbeHealth.      *)
(*                                                                         *)
(* A step is what one task does between two points where another task can  *)
(* run: an await, or the release of a mutex.                               *)
(***************************************************************************)
EXTENDS Naturals, Sequences, FiniteSets

CONSTANTS
    Ops,          \* logical outbound operations, each begun at most once
    Exits,        \* configured outbound proxies
    Cells,        \* identities of Arc<Mutex<ProbeHealth>> allocations
    Plans,        \* the operations callers ask for, see PlanType
    Weather,      \* the network behaviours an exit goes through
    Capacity,     \* the health cache's limit: 256 in the code
    Width,        \* probes of one monitoring round in flight: 8 in the code
    MaxFailures,  \* where the failure counter saturates: u32::MAX in the code
    NoCell, NoOp

\* What is sent (a CONNECT tunnel or an HTTP request), whether the routing
\* decision is Choice::List, and whether the request may be retried: a GET
\* with neither a body nor an upgrade.
PlanType == [tunnel: BOOLEAN, list: BOOLEAN, retryable: BOOLEAN, names: Seq(Exits)]

ASSUME ConstantsAssumption ==
    /\ Capacity \in Nat \ {0} /\ Width \in Nat \ {0}
    /\ MaxFailures \in Nat /\ MaxFailures >= 3
    /\ Weather \subseteq {"fair", "slow", "down", "foul"} /\ Weather # {}
    /\ Plans \subseteq PlanType
    /\ \A p \in Plans : Len(p.names) > 0 /\ (~p.list => Len(p.names) = 1)
    /\ NoCell \notin Cells /\ NoOp \notin Ops
    /\ IsFiniteSet(Exits) /\ Exits # {}

VARIABLES
    probes,    \* Server.probes: route -> cell, or NoCell
    health,    \* cell -> ProbeHealth and the route it was made for
    owner,     \* cell -> operation holding its mutex across an await, or NoOp
    plan,      \* operation -> what it was asked to do
    op,        \* operation -> where its task is
    mon,       \* cell -> how far the monitor's round is with it
    current,   \* cell -> no observation since the background probe's snapshot
    net,       \* exit -> how the network treats it now
    \* History, read by no action of the code:
    trusted,   \* cell -> a live success, and neither a live failure nor a
               \*         background probe begun since
    heard,     \* cell -> the last observation
    carried,   \* operation -> the exits its payload was handed to, in order
    reports    \* operation -> the observations it contributed

vars == <<probes, health, owner, plan, op, mon, current, net,
          trusted, heard, carried, reports>>
monitorVars == <<mon, current>>
historyVars == <<trusted, heard, carried, reports>>
-----------------------------------------------------------------------------
(* Values *)

\* ProbeKey: the origin and the TLS flag add routes that behave alike.
Keys == [exit: Exits, tunnel: BOOLEAN]

Results == {"Healthy", "Transient", "HardFailure"}

\* How one attempt on the network ends.  "answer" is any response but 407,
\* "denied" a 407 response, "refused" a refused connection, "auth" a proxy
\* that refuses its credentials to CONNECT, "fault" a timeout, connect or
\* request error, and "broken" any other transport error.
Outcomes == {"answer", "denied", "refused", "auth", "fault", "broken"}

Possible(e) == CASE net[e] = "fair" -> {"answer"}
                 [] net[e] = "slow" -> {"fault"}
                 [] net[e] = "down" -> {"refused"}
                 [] net[e] = "foul" -> Outcomes

\* response_health and Failure::http, Failure::tunnel
Health == [ answer  |-> "Healthy",     denied |-> "HardFailure",
            refused |-> "HardFailure", auth   |-> "HardFailure",
            fault   |-> "Transient",   broken |-> "Transient" ]

Responses == {"answer", "denied"}
Retryable == {"refused", "fault"}

\* Server::probe: a HEAD request, and after a transient failure a tunnel to
\* the same origin which may clear the exit or condemn it.
ProbeVerdict(k, head, tunnel) ==
    IF ~k.tunnel /\ Health[head] # "Transient" THEN Health[head] ELSE Health[tunnel]

ProbeVerdicts(k) ==
    {ProbeVerdict(k, head, tunnel) : head \in Possible(k.exit), tunnel \in Possible(k.exit)}

\* ProbeHealth::default
Fresh(k) == [key |-> k, initialized |-> FALSE, failures |-> 0,
             unavailable |-> FALSE, due |-> FALSE, monitored |-> FALSE]

SaturatingSucc(n) == IF n < MaxFailures THEN n + 1 ELSE n

\* Variant with a bug: a transient failure forgets a hard one.
ObservedAfresh(h, r) ==
    LET failures == IF r = "Healthy" THEN 0 ELSE SaturatingSucc(h.failures)
    IN [h EXCEPT !.initialized = TRUE, !.failures = failures, !.due = FALSE,
                 !.unavailable = r = "HardFailure" \/ failures >= 3]

\* ProbeHealth::observe.  The next check lies in the future: due is reset.
Observed(h, r) ==
    LET failures == IF r = "Healthy" THEN 0 ELSE SaturatingSucc(h.failures)
    IN [h EXCEPT !.initialized = TRUE,
                 !.failures    = failures,
                 !.unavailable = \/ r = "HardFailure"
                                 \/ r = "Transient" /\ (h.unavailable \/ failures >= 3),
                 !.due         = FALSE]

Attempts == 3

\* The route the operation is considering.
Exit(o)  == plan[o].names[op[o].idx]
Route(o) == [exit |-> Exit(o), tunnel |-> plan[o].tunnel]

Cached == {k \in Keys : probes[k] # NoCell}

\* A cell nothing refers to any more, or does not yet.
Free(c) == /\ \A k \in Keys : probes[k] # c
           /\ \A o \in Ops : op[o].cell # c
           /\ mon[c] = "idle"
-----------------------------------------------------------------------------
(* Steps shared by the operations *)

Goto(o, pc)      == op' = [op EXCEPT ![o].pc = pc]
Hold(o, pc, c)   == op' = [op EXCEPT ![o].pc = pc, ![o].cell = c]
Finish(o, how)   == op' = [op EXCEPT ![o].pc = "done", ![o].cell = NoCell, ![o].outcome = how]
ReportAs(o, out) == op' = [op EXCEPT ![o].pc = "report", ![o].outcome = out]

\* The next candidate of the list, or the error that ends the list.
TryNext(o) == IF op[o].idx < Len(plan[o].names)
              THEN op' = [op EXCEPT ![o].pc = "look", ![o].idx = @ + 1, ![o].cell = NoCell]
              ELSE Finish(o, "unroutable")

\* Variant with a bug: nothing is evicted.
HealthStateUnbounded(k, c) ==
    \/ /\ probes[k] = c
       /\ UNCHANGED <<probes, health, trusted, heard>>
    \/ /\ probes[k] = NoCell
       /\ Free(c)
       /\ probes'  = [probes EXCEPT ![k] = c]
       /\ health'  = [health EXCEPT ![c] = Fresh(k)]
       /\ trusted' = [trusted EXCEPT ![c] = FALSE]
       /\ heard'   = [heard EXCEPT ![c] = "none"]

\* Server::health_state: find or create the route's cell; a full cache
\* first drops whichever route its hash map yields.
HealthState(k, c) ==
    \/ /\ probes[k] = c
       /\ UNCHANGED <<probes, health, trusted, heard>>
    \/ /\ probes[k] = NoCell
       /\ Free(c)
       /\ IF Cardinality(Cached) >= Capacity
          THEN \E old \in Cached : probes' = [probes EXCEPT ![old] = NoCell, ![k] = c]
          ELSE probes' = [probes EXCEPT ![k] = c]
       /\ health'  = [health EXCEPT ![c] = Fresh(k)]
       /\ trusted' = [trusted EXCEPT ![c] = FALSE]
       /\ heard'   = [heard EXCEPT ![c] = "none"]

\* An observation of cell c by a task that holds its mutex.  A background
\* probe of the cell that is under way has an old revision from now on.
ObserveCell(c, r) ==
    /\ health'  = [health EXCEPT ![c] = Observed(@, r)]
    /\ current' = [current EXCEPT ![c] = FALSE]
    /\ heard'   = [heard EXCEPT ![c] = r]

-----------------------------------------------------------------------------
(* Begin and end *)

\* A Choice::One is used for HTTP without a look at its health.
Begin(o) ==
    /\ op[o].pc = "idle"
    /\ Goto(o, IF plan[o].tunnel \/ plan[o].list THEN "look" ELSE "send")
    /\ UNCHANGED <<probes, health, owner, plan, net, monitorVars, historyVars>>

Active(o) == op[o].pc \notin {"idle", "done"}

\* The operation's deadline passes.
Expire(o) ==
    /\ Active(o) /\ ~op[o].expired
    /\ op' = [op EXCEPT ![o].expired = TRUE]
    /\ UNCHANGED <<probes, health, owner, plan, net, monitorVars, historyVars>>

\* The client disconnects or the server aborts the task: its future is
\* dropped wherever it is suspended, with the mutex guard it holds.
Cancel(o) ==
    /\ Active(o)
    /\ owner' = [c \in Cells |-> IF owner[c] = o THEN NoOp ELSE owner[c]]
    /\ Finish(o, "cancelled")
    /\ UNCHANGED <<probes, health, plan, net, monitorVars, historyVars>>
-----------------------------------------------------------------------------
(* Server::select_transport, for a Choice::List *)

\* The entry is made even when the deadline has passed; then Deadline::run
\* refuses to wait for its mutex.
SelectLook(o, c) ==
    /\ op[o].pc = "look" /\ ~plan[o].tunnel
    /\ HealthState(Route(o), c)
    /\ IF op[o].expired
       THEN Finish(o, "timeout")
       ELSE Hold(o, "lock", c)
    /\ UNCHANGED <<owner, plan, net, monitorVars, carried, reports>>

Choose(o, h) == IF h.unavailable
                THEN TryNext(o)
                ELSE Hold(o, "send", NoCell)

\* Variant with a bug: the mutex is released before the cold probe.
SelectLockReleased(o) ==
    LET c == op[o].cell
    IN /\ op[o].pc = "lock" /\ owner[c] = NoOp
       /\ health' = [health EXCEPT ![c].monitored = TRUE]
       /\ \/ health[c].initialized /\ Choose(o, health[c])
          \/ ~health[c].initialized /\ Goto(o, "probe")
       /\ UNCHANGED <<probes, owner, plan, net, monitorVars, historyVars>>

\* The mutex is acquired.  Tokio polls the lock before the timer, so this
\* happens even at the moment the deadline passes.
SelectLock(o) ==
    LET c == op[o].cell
    IN /\ op[o].pc = "lock" /\ owner[c] = NoOp
       /\ health' = [health EXCEPT ![c].monitored = TRUE]
       /\ \/ /\ health[c].initialized
             /\ Choose(o, health[c])
             /\ UNCHANGED owner
          \/ /\ ~health[c].initialized /\ op[o].expired
             /\ Finish(o, "timeout")
             /\ UNCHANGED owner
          \/ /\ ~health[c].initialized /\ ~op[o].expired
             /\ Goto(o, "probe")
             /\ owner' = [owner EXCEPT ![c] = o]
       /\ UNCHANGED <<probes, plan, net, monitorVars, historyVars>>

\* Variant with a bug: the guard lives on while the request is sent.
SelectProbedKeepsLock(o, r) ==
    LET c == op[o].cell
    IN /\ op[o].pc = "probe"
       /\ r \in ProbeVerdicts(Route(o))
       /\ ObserveCell(c, r)
       /\ trusted' = [trusted EXCEPT ![c] = (r = "Healthy")]
       /\ Choose(o, Observed(health[c], r))
       /\ UNCHANGED <<probes, owner, plan, net, mon, carried, reports>>

\* The cold probe, made with the mutex held, comes back.
SelectProbed(o, r) ==
    LET c == op[o].cell
    IN /\ op[o].pc = "probe"
       /\ r \in ProbeVerdicts(Route(o))
       /\ ObserveCell(c, r)
       /\ trusted' = [trusted EXCEPT ![c] = (r = "Healthy")]
       /\ owner'   = [owner EXCEPT ![c] = NoOp]
       /\ Choose(o, Observed(health[c], r))
       /\ UNCHANGED <<probes, plan, net, mon, carried, reports>>

\* The deadline ends the wait for the mutex or the cold probe: the probe is
\* dropped without an observation.
SelectTimeout(o) ==
    /\ op[o].pc \in {"lock", "probe"} /\ op[o].expired
    /\ owner' = [c \in Cells |-> IF owner[c] = o THEN NoOp ELSE owner[c]]
    /\ Finish(o, "timeout")
    /\ UNCHANGED <<probes, health, plan, net, monitorVars, historyVars>>
-----------------------------------------------------------------------------
(* Server::send_via, once an exit is selected *)

\* No client can be built for the exit, or the request cannot be cloned.
NoClient(o) ==
    /\ op[o].pc = "send" /\ op[o].attempt = 0
    /\ Finish(o, "no_client")
    /\ UNCHANGED <<probes, health, owner, plan, net, monitorVars, historyVars>>

\* An attempt is made, or the budget is gone: the last failure counts, which
\* before any attempt is a timeout.
Attempt(o) ==
    /\ op[o].pc = "send"
    /\ IF op[o].expired
       THEN /\ Goto(o, "report")
            /\ UNCHANGED carried
       ELSE /\ op' = [op EXCEPT ![o].pc = "flight", ![o].attempt = @ + 1]
            /\ carried' = [carried EXCEPT ![o] = Append(@, Exit(o))]
    /\ UNCHANGED <<probes, health, owner, plan, net, monitorVars, trusted, heard, reports>>

\* What the network may answer now; a deadline that passes is a timeout.
Answers(o) == Possible(Exit(o)) \cup (IF op[o].expired THEN {"fault"} ELSE {})

MayRetry(o, out) == /\ plan[o].retryable /\ out \in Retryable
                    /\ op[o].attempt < Attempts /\ ~op[o].expired

\* The attempt ends.  A retry also needs the budget to exceed its delay.
Answered(o, out) ==
    /\ op[o].pc = "flight"
    /\ out \in Answers(o)
    /\ \/ ReportAs(o, out)
       \/ /\ MayRetry(o, out)
          /\ op' = [op EXCEPT ![o].pc = "send", ![o].outcome = out]
    /\ UNCHANGED <<probes, health, owner, plan, net, monitorVars, historyVars>>
-----------------------------------------------------------------------------
(* Server::record_health: its lookup, and its observation under the mutex, *)
(* for which it waits without a deadline                                   *)

Report(o, c) ==
    /\ op[o].pc = "report"
    /\ HealthState(Route(o), c)
    /\ Hold(o, "observe", c)
    /\ UNCHANGED <<owner, plan, net, monitorVars, carried, reports>>

\* Variant with a bug: a failed request fails over to the next exit.
ReturnFailsOver(o, out) ==
    IF out \in Responses THEN Finish(o, "response") ELSE TryNext(o)

\* send_via returns its response or its error; connect_via returns its
\* tunnel or goes on to the next candidate.
Return(o, out) ==
    IF out \in Responses /\ ~(plan[o].tunnel /\ out = "denied")
    THEN Finish(o, "response")
    ELSE IF plan[o].tunnel THEN TryNext(o) ELSE Finish(o, "failed")

\* Variant with a bug: every attempt is recorded.
ObserveEachAttempt(o) ==
    LET c == op[o].cell
        r == Health[op[o].outcome]
    IN /\ op[o].pc = "observe" /\ owner[c] = NoOp
       /\ ObserveCell(c, r)
       /\ trusted' = [trusted EXCEPT ![c] = (r = "Healthy")]
       /\ reports' = [reports EXCEPT ![o] = Append(@, [exit |-> Exit(o), result |-> r])]
       /\ IF MayRetry(o, op[o].outcome)
          THEN Hold(o, "send", NoCell)
          ELSE Return(o, op[o].outcome)
       /\ UNCHANGED <<probes, owner, plan, net, mon, carried>>

Observe(o) ==
    LET c == op[o].cell
        r == Health[op[o].outcome]
    IN /\ op[o].pc = "observe" /\ owner[c] = NoOp
       /\ ObserveCell(c, r)
       /\ trusted' = [trusted EXCEPT ![c] = (r = "Healthy")]
       /\ reports' = [reports EXCEPT ![o] = Append(@, [exit |-> Exit(o), result |-> r])]
       /\ Return(o, op[o].outcome)
       /\ UNCHANGED <<probes, owner, plan, net, mon, carried>>
-----------------------------------------------------------------------------
(* Server::connect_via *)

ConnectLook(o, c) ==
    /\ op[o].pc = "look" /\ plan[o].tunnel
    /\ IF op[o].expired
       THEN /\ Finish(o, "timeout")
            /\ UNCHANGED <<probes, health, trusted, heard>>
       ELSE /\ HealthState(Route(o), c)
            /\ Hold(o, "gate", c)
    /\ UNCHANGED <<owner, plan, net, monitorVars, carried, reports>>

\* A listed exit is monitored from now on, and skipped while unavailable.
ConnectGate(o) ==
    LET c == op[o].cell
    IN /\ op[o].pc = "gate" /\ owner[c] = NoOp
       /\ health' = [health EXCEPT ![c].monitored = @ \/ plan[o].list]
       /\ IF plan[o].list /\ health[c].unavailable
          THEN TryNext(o)
          ELSE Hold(o, "dial", NoCell)
       /\ UNCHANGED <<probes, owner, plan, net, monitorVars, historyVars>>

\* Variant with a bug: a tunnel is recorded when it fails and when the loop
\* over the candidates comes back to it.
DialedRecords(o, out) ==
    /\ op[o].pc = "dial"
    /\ out \in Answers(o)
    /\ ReportAs(o, out)
    /\ reports' = [reports EXCEPT ![o] = Append(@, [exit |-> Exit(o), result |-> Health[out]])]
    /\ UNCHANGED <<probes, health, owner, plan, net, monitorVars, trusted, heard, carried>>

\* The tunnel is established, fails, or is given up at the deadline.
Dialed(o, out) ==
    /\ op[o].pc = "dial"
    /\ out \in Answers(o)
    /\ ReportAs(o, out)
    /\ UNCHANGED <<probes, health, owner, plan, net, monitorVars, historyVars>>
-----------------------------------------------------------------------------
(* Server::monitor_probes and refresh_probes *)

\* A round snapshots the map once the previous round has ended.
RoundBegins ==
    /\ \A c \in Cells : mon[c] = "idle"
    /\ mon' = [c \in Cells |-> IF \E k \in Keys : probes[k] = c THEN "queued" ELSE "idle"]
    /\ UNCHANGED <<probes, health, owner, plan, op, current, net, historyVars>>

Probing == {c \in Cells : mon[c] = "probing"}

\* Variant with a bug: a disabled exit is no longer checked.
InspectAvailable(c) ==
    /\ mon[c] = "queued" /\ Cardinality(Probing) < Width
    /\ IF /\ owner[c] = NoOp /\ ~health[c].unavailable
          /\ health[c].initialized /\ health[c].monitored /\ health[c].due
       THEN /\ mon'     = [mon EXCEPT ![c] = "probing"]
            /\ current' = [current EXCEPT ![c] = TRUE]
            /\ trusted' = [trusted EXCEPT ![c] = FALSE]
       ELSE /\ mon'     = [mon EXCEPT ![c] = "idle"]
            /\ UNCHANGED <<current, trusted>>
    /\ UNCHANGED <<probes, health, owner, plan, op, net, heard, carried, reports>>

\* try_lock: an entry that is locked, cold, unmonitored or not due is left
\* to a later round.  The revision is noted and the mutex released.
Inspect(c) ==
    /\ mon[c] = "queued" /\ Cardinality(Probing) < Width
    /\ IF /\ owner[c] = NoOp
          /\ health[c].initialized /\ health[c].monitored /\ health[c].due
       THEN /\ mon'     = [mon EXCEPT ![c] = "probing"]
            /\ current' = [current EXCEPT ![c] = TRUE]
            /\ trusted' = [trusted EXCEPT ![c] = FALSE]
       ELSE /\ mon'     = [mon EXCEPT ![c] = "idle"]
            /\ UNCHANGED <<current, trusted>>
    /\ UNCHANGED <<probes, health, owner, plan, op, net, heard, carried, reports>>

\* Variant with a bug: a late probe overwrites newer feedback.
CommitAnyway(c, r) ==
    /\ mon[c] = "probing" /\ owner[c] = NoOp
    /\ r \in ProbeVerdicts(health[c].key)
    /\ mon' = [mon EXCEPT ![c] = "idle"]
    /\ ObserveCell(c, r)
    /\ UNCHANGED <<probes, owner, plan, op, net, trusted, carried, reports>>

\* The background probe's result counts only if nothing was observed since.
Commit(c, r) ==
    /\ mon[c] = "probing" /\ owner[c] = NoOp
    /\ r \in ProbeVerdicts(health[c].key)
    /\ mon' = [mon EXCEPT ![c] = "idle"]
    /\ IF current[c] THEN ObserveCell(c, r)
                     ELSE UNCHANGED <<health, current, heard>>
    /\ UNCHANGED <<probes, owner, plan, op, net, trusted, carried, reports>>

\* next_check is reached.
Elapse(c) ==
    /\ health[c].initialized /\ ~health[c].due /\ ~Free(c)
    /\ health' = [health EXCEPT ![c].due = TRUE]
    /\ UNCHANGED <<probes, owner, plan, op, net, monitorVars, historyVars>>

\* The environment: an exit starts or stops working.
Turn(e, w) ==
    /\ net[e] # w
    /\ net' = [net EXCEPT ![e] = w]
    /\ UNCHANGED <<probes, health, owner, plan, op, monitorVars, historyVars>>
-----------------------------------------------------------------------------
Init ==
    /\ probes = [k \in Keys |-> NoCell]
    /\ health = [c \in Cells |-> Fresh(CHOOSE k \in Keys : TRUE)]
    /\ owner  = [c \in Cells |-> NoOp]
    /\ plan   \in [Ops -> Plans]
    /\ op     = [o \in Ops |-> [pc |-> "idle", idx |-> 1, cell |-> NoCell, attempt |-> 0,
                                outcome |-> "fault", expired |-> FALSE]]
    /\ mon     = [c \in Cells |-> "idle"]
    /\ current = [c \in Cells |-> FALSE]
    /\ net     \in [Exits -> Weather]
    /\ trusted = [c \in Cells |-> FALSE]
    /\ heard   = [c \in Cells |-> "none"]
    /\ carried = [o \in Ops |-> <<>>]
    /\ reports = [o \in Ops |-> <<>>]

OpStep(o) ==
    \/ Begin(o) \/ Expire(o) \/ Cancel(o)
    \/ \E c \in Cells : SelectLook(o, c) \/ ConnectLook(o, c) \/ Report(o, c)
    \/ \E r \in Results : SelectProbed(o, r)
    \/ \E out \in Outcomes : Answered(o, out) \/ Dialed(o, out)
    \/ SelectLock(o) \/ SelectTimeout(o) \/ NoClient(o) \/ Attempt(o)
    \/ Observe(o) \/ ConnectGate(o)

MonitorStep(c) == Inspect(c) \/ \E r \in Results : Commit(c, r)

Next == \/ \E o \in Ops : OpStep(o)
        \/ RoundBegins
        \/ \E c \in Cells : MonitorStep(c) \/ Elapse(c)
        \/ \E e \in Exits, w \in Weather : Turn(e, w)

Spec == Init /\ [][Next]_vars

\* What an operation's task does without a mutex: its next step, or the end of
\* an attempt or of a wait whose deadline has passed.
Proceed(o) ==
    \/ Attempt(o) \/ SelectTimeout(o)
    \/ \E c \in Cells : SelectLook(o, c) \/ ConnectLook(o, c) \/ Report(o, c)
    \/ op[o].expired /\ \E out \in Outcomes : Answered(o, out) \/ Dialed(o, out)

\* What it does once it has a mutex.
Acquire(o) == SelectLock(o) \/ ConnectGate(o) \/ Observe(o)

MonitorRuns == RoundBegins \/ \E c \in Cells : MonitorStep(c)

\* Every task that can run does.  A deadline passes, and the mutex is fair:
\* tokio's queue is first come, first served.  Nothing is promised of an
\* attempt's answer, nor of the network.
Fairness ==
    /\ \A o \in Ops : WF_vars(Expire(o)) /\ WF_vars(Proceed(o)) /\ SF_vars(Acquire(o))
    /\ WF_vars(MonitorRuns)
    /\ \A c \in Cells : WF_vars(Elapse(c))

FairSpec == Spec /\ Fairness
-----------------------------------------------------------------------------
(* Properties *)

Points == {"idle", "look", "lock", "probe", "send", "flight", "report", "observe",
           "gate", "dial", "done"}

Endings == {"response", "failed", "timeout", "unroutable", "no_client", "cancelled"}

ProbeHealth == [key: Keys, initialized: BOOLEAN, failures: 0 .. MaxFailures,
                unavailable: BOOLEAN, due: BOOLEAN, monitored: BOOLEAN]

Task == [pc: Points, idx: Nat \ {0}, cell: Cells \cup {NoCell}, attempt: 0 .. Attempts,
         outcome: Outcomes \cup Endings, expired: BOOLEAN]

\* Every variable has its type.  A counter of failures never wraps.
TypeOK ==
    /\ probes \in [Keys -> Cells \cup {NoCell}]
    /\ health \in [Cells -> ProbeHealth]
    /\ owner \in [Cells -> Ops \cup {NoOp}]
    /\ plan \in [Ops -> Plans]
    /\ op \in [Ops -> Task]
    /\ \A o \in Ops : op[o].idx <= Len(plan[o].names)
    /\ mon \in [Cells -> {"idle", "queued", "probing"}]
    /\ current \in [Cells -> BOOLEAN]
    /\ net \in [Exits -> Weather]
    /\ trusted \in [Cells -> BOOLEAN]
    /\ heard \in [Cells -> Results \cup {"none"}]
    /\ carried \in [Ops -> Seq(Exits)]
    /\ reports \in [Ops -> Seq([exit: Exits, result: Results])]

\* The mutex of a cell is held across an await only by the operation that
\* cold-probes it, and only as long as the cell has heard nothing.  So a
\* background probe of the cell never waits for a cold one, a CONNECT
\* request never waits, and a cell is cold-probed by one task at a time.
ColdProbeHoldsLock ==
    \A c \in Cells :
        /\ \A o \in Ops : (owner[c] = o) <=> (op[o].pc = "probe" /\ op[o].cell = c)
        /\ owner[c] # NoOp => ~health[c].initialized /\ mon[c] # "probing"

\* "A real request may have succeeded during this probe": once a live
\* success is recorded, a background probe that began before it can no
\* longer make the exit suspect or unavailable, whatever it finds and
\* however late it ends.
LiveSuccessStands ==
    \A c \in Cells : trusted[c] => ~health[c].unavailable /\ health[c].failures = 0

\* "A logical request contributes one final health observation, not one per
\* retry": an HTTP operation that ended with a response or a transport
\* failure contributed one observation, of the exit that carried its last
\* attempt, and any other contributed none; a CONNECT contributes at most
\* one per candidate.
OneObservation ==
    \A o \in Ops :
        /\ ~plan[o].tunnel =>
             /\ Len(reports[o]) = (IF op[o].outcome \in {"response", "failed"} THEN 1 ELSE 0)
             /\ reports[o] # <<>> /\ carried[o] # <<>> =>
                  reports[o][1].exit = carried[o][Len(carried[o])]
        /\ plan[o].tunnel => Len(reports[o]) <= op[o].idx

\* A request is never replayed through another exit, however its attempts
\* end and whatever is learnt about its exit in the meantime, and a request
\* that is not a plain GET is not sent twice.
NoReplay ==
    \A o \in Ops :
        /\ \A i, j \in 1 .. Len(carried[o]) : carried[o][i] = carried[o][j]
        /\ Len(carried[o]) <= (IF plan[o].retryable THEN Attempts ELSE 1)

\* The cache is bounded although every operation may create an entry in the
\* middle of what another one does with its own.
CacheBounded == Cardinality(Cached) <= Capacity

\* The grade of a cell that heard something, as ExitHealth names it.
Grade(h) == IF ~h.initialized THEN "unknown"
            ELSE IF h.unavailable THEN "unavailable"
            ELSE <<"healthy", "suspect1", "suspect2">>[h.failures + 1]

Promise == INSTANCE ExitHealth WITH
    Routes   <- Keys,
    verdict  <- [k \in Keys |-> IF probes[k] = NoCell THEN "unknown" ELSE Grade(health[probes[k]])],
    evidence <- [k \in Keys |-> IF probes[k] = NoCell THEN "none" ELSE heard[probes[k]]]

\* The cache with all its concurrency implements ExitHealth: a route's
\* verdict is the judgement of the observations of its cell one by one.
ImplementsExitHealth == Promise!Spec

\* Every operation ends: no deadline, retry, mutex or list keeps it forever.
OperationsEnd == \A o \in Ops : op[o].pc # "idle" ~> op[o].pc = "done"

\* An exit that works again is found again: while it stays up, a monitored
\* route through it that is in the cache becomes and stays available.
Recovers ==
    \A k \in Keys :
        <>[](net[k.exit] = "fair") =>
            <>[](probes[k] # NoCell /\ health[probes[k]].monitored
                   => ~health[probes[k]].unavailable)
=============================================================================
