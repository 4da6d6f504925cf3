------------------------- MODULE RouteHealthProofs -------------------------
(***************************************************************************)
(* Proofs about RouteHealth for every number of operations, exits and      *)
(* cells, every set of plans, every capacity and every weather.            *)
(***************************************************************************)
EXTENDS RouteHealth, TLAPS

-----------------------------------------------------------------------------
(* Where an operation can be, given what it was asked to do.  Only HTTP    *)
(* operations make attempts, and they choose their exit before the first.  *)
OpShape(o) ==
    LET s == op[o]
    IN /\ s.pc \in {"lock", "probe", "observe", "gate"} => s.cell \in Cells
       /\ s.pc # "done" => s.outcome \in Outcomes
       /\ plan[o].tunnel => s.attempt = 0 /\ s.pc \notin {"lock", "probe", "send", "flight"}
       /\ ~plan[o].tunnel => s.pc \notin {"gate", "dial"}
       /\ s.pc \in {"idle", "look", "lock", "probe"} => s.attempt = 0
       /\ s.pc = "send" => s.attempt < Attempts

Shape == \A o \in Ops : OpShape(o)

\* What the monitor's variables say about a cell.
MonitorShape ==
    \A c \in Cells : /\ mon[c] = "probing" => health[c].initialized
                     /\ trusted[c] => ~current[c]

SafetyInv == /\ TypeOK
             /\ Shape
             /\ MonitorShape
             /\ ColdProbeHoldsLock
             /\ LiveSuccessStands
-----------------------------------------------------------------------------
(* Lemmas about the operators the steps are made of *)

LEMMA KeyTypes ==
    ASSUME TypeOK, NEW o \in Ops
    PROVE  /\ plan[o] \in PlanType
           /\ Exit(o) \in Exits
           /\ Route(o) \in Keys
<1>1. plan[o] \in PlanType
  BY ConstantsAssumption DEF TypeOK
<1>2. op[o].idx \in 1 .. Len(plan[o].names)
  BY <1>1 DEF TypeOK, Task, PlanType
<1>3. Exit(o) \in Exits
  BY <1>1, <1>2 DEF PlanType, Exit
<1>4. Route(o) \in Keys
  BY <1>1, <1>3 DEF PlanType, Route, Keys
<1>5. QED
  BY <1>1, <1>3, <1>4

\* ProbeHealth::observe keeps a record a record, and a success leaves it clean.
LEMMA ObservedType ==
    ASSUME NEW h \in ProbeHealth, NEW r \in Results
    PROVE  /\ Observed(h, r) \in ProbeHealth
           /\ Observed(h, r).initialized
           /\ Observed(h, r).key = h.key
           /\ r = "Healthy" => ~Observed(h, r).unavailable /\ Observed(h, r).failures = 0
<1>1. SaturatingSucc(h.failures) \in 0 .. MaxFailures
  BY ConstantsAssumption DEF SaturatingSucc, ProbeHealth
<1>2. 0 \in 0 .. MaxFailures
  BY ConstantsAssumption
<1>3. QED
  BY <1>1, <1>2 DEF Observed, ProbeHealth

LEMMA FreshType ==
    ASSUME NEW k \in Keys
    PROVE  Fresh(k) \in ProbeHealth
BY ConstantsAssumption DEF Fresh, ProbeHealth

\* Looking a route up touches nothing but the cache, and at most one cell,
\* which was free.
LEMMA HealthStateEffect ==
    ASSUME TypeOK, NEW k \in Keys, NEW c \in Cells, HealthState(k, c)
    PROVE  /\ probes' \in [Keys -> Cells \cup {NoCell}]
           /\ health' \in [Cells -> ProbeHealth]
           /\ trusted' \in [Cells -> BOOLEAN]
           /\ heard' \in [Cells -> Results \cup {"none"}]
           /\ \A d \in Cells : \/ health'[d] = health[d] /\ trusted'[d] = trusted[d]
                               \/ Free(d) /\ ~trusted'[d]
<1>1. CASE UNCHANGED <<probes, health, trusted, heard>>
  BY <1>1 DEF TypeOK
<1>2. CASE /\ Free(c)
           /\ probes' \in [Keys -> Cells \cup {NoCell}]
           /\ health'  = [health EXCEPT ![c] = Fresh(k)]
           /\ trusted' = [trusted EXCEPT ![c] = FALSE]
           /\ heard'   = [heard EXCEPT ![c] = "none"]
  BY <1>2, FreshType DEF TypeOK
<1>3. CASE \E old \in Cached : probes' = [probes EXCEPT ![old] = NoCell, ![k] = c]
  <2>1. PICK old \in Cached : probes' = [probes EXCEPT ![old] = NoCell, ![k] = c]
    BY <1>3
  <2>2. old \in Keys
    BY DEF Cached
  <2>3. probes' \in [Keys -> Cells \cup {NoCell}]
    BY <2>1, <2>2 DEF TypeOK
  <2>4. QED
    BY <1>1, <1>2, <2>3 DEF HealthState
<1>4. CASE probes' = [probes EXCEPT ![k] = c]
  <2>1. probes' \in [Keys -> Cells \cup {NoCell}]
    BY <1>4 DEF TypeOK
  <2>2. QED
    BY <1>1, <1>2, <2>1 DEF HealthState
<1>5. QED
  BY <1>1, <1>3, <1>4 DEF HealthState

LEMMA ProbeVerdictsAreResults ==
    ASSUME TypeOK, NEW k \in Keys
    PROVE  ProbeVerdicts(k) \subseteq Results
<1>1. \A out \in Outcomes : Health[out] \in Results
  BY DEF Outcomes, Health, Results
<1>2. Possible(k.exit) \subseteq Outcomes
  <2>1. net[k.exit] \in {"fair", "slow", "down", "foul"}
    BY ConstantsAssumption DEF TypeOK, Keys
  <2>2. QED
    BY <2>1 DEF Possible, Outcomes
<1>3. QED
  BY <1>1, <1>2 DEF ProbeVerdicts, ProbeVerdict

\* What the network may answer an operation is an outcome.
LEMMA AnswersAreOutcomes ==
    ASSUME TypeOK, NEW o \in Ops
    PROVE  Answers(o) \subseteq Outcomes
<1>1. net[Exit(o)] \in {"fair", "slow", "down", "foul"}
  BY ConstantsAssumption, KeyTypes DEF TypeOK
<1>2. Possible(Exit(o)) \subseteq Outcomes
  BY <1>1 DEF Possible, Outcomes
<1>3. QED
  BY <1>2 DEF Answers, Outcomes
-----------------------------------------------------------------------------
(* The ways an operation's task moves *)

OpType == op \in [Ops -> Task] /\ \A o \in Ops : op[o].idx <= Len(plan[o].names)

\* Only o moves, to pc, and it keeps its place in the list.
MovesTo(o, pc) == /\ op' \in [Ops -> Task]
                  /\ \A q \in Ops \ {o} : op'[q] = op[q]
                  /\ op'[o].pc = pc
                  /\ op'[o].idx = op[o].idx

LEMMA GotoEffect ==
    ASSUME OpType, NEW o \in Ops, NEW pc \in Points, Goto(o, pc)
    PROVE  /\ MovesTo(o, pc)
           /\ op'[o].cell = op[o].cell
           /\ op'[o].attempt = op[o].attempt
           /\ op'[o].outcome = op[o].outcome
BY DEF OpType, Goto, MovesTo, Task

LEMMA HoldEffect ==
    ASSUME OpType, NEW o \in Ops, NEW pc \in Points, NEW c \in Cells \cup {NoCell}, Hold(o, pc, c)
    PROVE  /\ MovesTo(o, pc)
           /\ op'[o].cell = c
           /\ op'[o].attempt = op[o].attempt
           /\ op'[o].outcome = op[o].outcome
BY DEF OpType, Hold, MovesTo, Task

LEMMA FinishEffect ==
    ASSUME OpType, NEW o \in Ops, NEW how \in Endings, Finish(o, how)
    PROVE  /\ MovesTo(o, "done")
           /\ op'[o].cell = NoCell
           /\ op'[o].attempt = op[o].attempt
           /\ op'[o].outcome = how
BY ZenonT(60) DEF OpType, Finish, MovesTo, Task, Points

LEMMA ReportAsEffect ==
    ASSUME OpType, NEW o \in Ops, NEW out \in Outcomes, ReportAs(o, out)
    PROVE  /\ MovesTo(o, "report")
           /\ op'[o].cell = op[o].cell
           /\ op'[o].attempt = op[o].attempt
           /\ op'[o].outcome = out
BY ZenonT(60) DEF OpType, ReportAs, MovesTo, Task, Points

LEMMA TryNextEffect ==
    ASSUME OpType, NEW o \in Ops, plan[o] \in PlanType, TryNext(o)
    PROVE  /\ op' \in [Ops -> Task]
           /\ \A q \in Ops \ {o} : op'[q] = op[q]
           /\ op'[o].pc \in {"look", "done"}
           /\ op'[o].idx \in Nat /\ op'[o].idx <= Len(plan[o].names)
           /\ op'[o].cell = NoCell
           /\ op'[o].attempt = op[o].attempt
           /\ op'[o].pc = "look" => op'[o].outcome = op[o].outcome
<1>1. Len(plan[o].names) \in Nat
  BY DEF PlanType
<1>2. CASE op[o].idx < Len(plan[o].names)
  BY SMTT(30), <1>1, <1>2 DEF OpType, TryNext, Task, Points
<1>3. CASE ~(op[o].idx < Len(plan[o].names))
  <2>1. "unroutable" \in Endings /\ Finish(o, "unroutable")
    BY <1>3 DEF TryNext, Endings
  <2>2. QED
    BY <2>1, FinishEffect DEF MovesTo, OpType, Task
<1>4. QED
  BY <1>2, <1>3
-----------------------------------------------------------------------------
(* The initial states *)

LEMMA InitSafety == Init => SafetyInv
<1> SUFFICES ASSUME Init PROVE SafetyInv
  OBVIOUS
<1>1. TypeOK
  <2>1. (CHOOSE k \in Keys : TRUE) \in Keys
    <3>1. PICK e \in Exits : TRUE
      BY ConstantsAssumption
    <3>2. [exit |-> e, tunnel |-> FALSE] \in Keys
      BY DEF Keys
    <3>3. QED
      BY <3>2
  <2>2. health \in [Cells -> ProbeHealth]
    BY <2>1, FreshType DEF Init
  <2>3. op \in [Ops -> Task]
    <3>1. [pc |-> "idle", idx |-> 1, cell |-> NoCell, attempt |-> 0,
           outcome |-> "fault", expired |-> FALSE] \in Task
      BY DEF Task, Points, Outcomes, Attempts
    <3>2. QED
      BY <3>1 DEF Init
  <2>4. \A o \in Ops : op[o].idx <= Len(plan[o].names)
    <3>1. \A p \in Plans : Len(p.names) \in Nat /\ Len(p.names) > 0
      BY ConstantsAssumption DEF PlanType
    <3>2. QED
      BY <3>1 DEF Init
  <2>5. carried \in [Ops -> Seq(Exits)] /\ reports \in [Ops -> Seq([exit: Exits, result: Results])]
    BY DEF Init
  <2>6. QED
    BY <2>2, <2>3, <2>4, <2>5 DEF Init, TypeOK
<1>2. Shape
  BY DEF Init, Shape, OpShape, Outcomes, Attempts
<1>3. MonitorShape /\ ColdProbeHoldsLock /\ LiveSuccessStands
  BY <1>1, ConstantsAssumption DEF Init, MonitorShape, ColdProbeHoldsLock, LiveSuccessStands
<1>4. QED
  BY <1>1, <1>2, <1>3 DEF SafetyInv
-----------------------------------------------------------------------------
(* Steps that only move an operation's task *)

\* A step that moves one task, neither into nor out of a cold probe, and
\* touches no cell disturbs nothing that relates tasks and cells.
LEMMA LocalStep ==
    ASSUME SafetyInv, NEW o \in Ops,
           UNCHANGED <<health, owner, mon, current, trusted>>,
           \A q \in Ops \ {o} : op'[q] = op[q],
           op[o].pc # "probe", op'[o].pc # "probe"
    PROVE  MonitorShape' /\ ColdProbeHoldsLock' /\ LiveSuccessStands'
<1>1. MonitorShape' /\ LiveSuccessStands'
  BY DEF SafetyInv, MonitorShape, LiveSuccessStands
<1>2. ColdProbeHoldsLock'
  BY DEF SafetyInv, ColdProbeHoldsLock
<1>3. QED
  BY <1>1, <1>2


\* What a step that moves o's task, and perhaps hands its payload to an
\* exit, leaves to show: where the task is now.
LEMMA TaskStep ==
    ASSUME SafetyInv, NEW o \in Ops, NEW pc \in Points, MovesTo(o, pc),
           UNCHANGED <<probes, health, owner, plan, mon, current, net, trusted, heard, reports>>,
           carried' \in [Ops -> Seq(Exits)],
           op[o].pc # "probe", pc # "probe", OpShape(o)'
    PROVE  SafetyInv'
<1>1. TypeOK'
  BY DEF SafetyInv, TypeOK, MovesTo
<1>2. Shape'
  BY DEF SafetyInv, Shape, OpShape, MovesTo
<1>3. QED
  BY <1>1, <1>2, LocalStep DEF SafetyInv, MovesTo

LEMMA BeginStep ==
    ASSUME SafetyInv, NEW o \in Ops, Begin(o)
    PROVE  SafetyInv'
<1> DEFINE pc == IF plan[o].tunnel \/ plan[o].list THEN "look" ELSE "send"
<1>1. OpType /\ OpShape(o) /\ carried \in [Ops -> Seq(Exits)]
  BY DEF SafetyInv, TypeOK, OpType, Shape
<1>2. pc \in Points /\ pc # "probe" /\ Goto(o, pc)
  BY DEF Begin, Points
<1>3. MovesTo(o, pc) /\ op'[o].attempt = op[o].attempt /\ op'[o].outcome = op[o].outcome
  BY <1>1, <1>2, GotoEffect
<1>4. OpShape(o)'
  BY <1>1, <1>3 DEF Begin, OpShape, MovesTo, Attempts
<1>5. QED
  BY <1>1, <1>2, <1>3, <1>4, TaskStep DEF Begin, monitorVars, historyVars

LEMMA NoClientStep ==
    ASSUME SafetyInv, NEW o \in Ops, NoClient(o)
    PROVE  SafetyInv'
<1>1. OpType /\ OpShape(o) /\ carried \in [Ops -> Seq(Exits)]
  BY DEF SafetyInv, TypeOK, OpType, Shape
<1>2. MovesTo(o, "done") /\ op'[o].attempt = op[o].attempt
  BY <1>1, FinishEffect DEF NoClient, Endings
<1>3. OpShape(o)'
  BY <1>1, <1>2 DEF NoClient, OpShape, MovesTo
<1>4. QED
  BY <1>1, <1>2, <1>3, TaskStep DEF NoClient, Points, monitorVars, historyVars

LEMMA AttemptStep ==
    ASSUME SafetyInv, NEW o \in Ops, Attempt(o)
    PROVE  SafetyInv'
<1>1. OpType /\ OpShape(o) /\ carried \in [Ops -> Seq(Exits)] /\ Exit(o) \in Exits
  BY KeyTypes DEF SafetyInv, TypeOK, OpType, Shape
<1>2. CASE op[o].expired
  <2>1. MovesTo(o, "report") /\ op'[o].attempt = op[o].attempt /\ op'[o].outcome = op[o].outcome
    BY <1>1, <1>2, GotoEffect DEF Attempt, Points
  <2>2. OpShape(o)'
    BY <1>1, <2>1 DEF Attempt, OpShape, MovesTo
  <2>3. QED
    BY <1>1, <1>2, <2>1, <2>2, TaskStep DEF Attempt, Points, monitorVars
<1>3. CASE ~op[o].expired
  <2>1. op[o].attempt + 1 \in 0 .. Attempts
    BY <1>1 DEF Attempt, OpShape, OpType, Task, Attempts
  <2>2. /\ MovesTo(o, "flight")
        /\ op'[o].outcome = op[o].outcome
    BY <1>1, <1>3, <2>1 DEF Attempt, MovesTo, OpType, Task, Points
  <2>3. carried' \in [Ops -> Seq(Exits)]
    <3>1. carried[o] \in Seq(Exits)
      BY <1>1
    <3>2. Append(carried[o], Exit(o)) \in Seq(Exits)
      BY <1>1, <3>1
    <3>3. carried' = [carried EXCEPT ![o] = Append(carried[o], Exit(o))]
      BY <1>3 DEF Attempt
    <3>4. QED
      BY <1>1, <3>2, <3>3
  <2>4. OpShape(o)'
    BY <1>1, <2>2 DEF Attempt, OpShape, MovesTo
  <2>5. QED
    BY <1>1, <2>2, <2>3, <2>4, TaskStep DEF Attempt, Points, monitorVars
<1>4. QED
  BY <1>2, <1>3

LEMMA AnsweredStep ==
    ASSUME SafetyInv, NEW o \in Ops, NEW out \in Outcomes, Answered(o, out)
    PROVE  SafetyInv'
<1>1. OpType /\ OpShape(o) /\ carried \in [Ops -> Seq(Exits)]
  BY DEF SafetyInv, TypeOK, OpType, Shape
<1>2. CASE ReportAs(o, out)
  <2>1. MovesTo(o, "report") /\ op'[o].outcome = out
    BY <1>1, <1>2, ReportAsEffect
  <2>2. OpShape(o)'
    BY <1>1, <2>1 DEF Answered, OpShape, MovesTo
  <2>3. QED
    BY <1>1, <2>1, <2>2, TaskStep DEF Answered, Points, monitorVars, historyVars
<1>3. CASE /\ MayRetry(o, out)
           /\ op' = [op EXCEPT ![o].pc = "send", ![o].outcome = out]
  <2>1. MovesTo(o, "send") /\ op'[o].outcome = out /\ op'[o].attempt = op[o].attempt
    BY ZenonT(60), <1>1, <1>3 DEF MovesTo, OpType, Task, Points
  <2>2. OpShape(o)'
    BY <1>1, <1>3, <2>1 DEF Answered, MayRetry, OpShape, MovesTo
  <2>3. QED
    BY <1>1, <2>1, <2>2, TaskStep DEF Answered, Points, monitorVars, historyVars
<1>4. QED
  BY <1>2, <1>3 DEF Answered

LEMMA DialedStep ==
    ASSUME SafetyInv, NEW o \in Ops, NEW out \in Outcomes, Dialed(o, out)
    PROVE  SafetyInv'
<1>1. OpType /\ OpShape(o) /\ carried \in [Ops -> Seq(Exits)]
  BY DEF SafetyInv, TypeOK, OpType, Shape
<1>2. MovesTo(o, "report") /\ op'[o].outcome = out /\ op'[o].attempt = op[o].attempt
  BY <1>1, ReportAsEffect DEF Dialed
<1>3. OpShape(o)'
  BY <1>1, <1>2 DEF Dialed, OpShape, MovesTo
<1>4. QED
  BY <1>1, <1>2, <1>3, TaskStep DEF Dialed, Points, monitorVars, historyVars

LEMMA ExpireStep ==
    ASSUME SafetyInv, NEW o \in Ops, Expire(o)
    PROVE  SafetyInv'
<1>1. OpType /\ OpShape(o)
  BY DEF SafetyInv, TypeOK, OpType, Shape
<1>2. /\ op' \in [Ops -> Task]
      /\ \A q \in Ops : /\ op'[q].pc = op[q].pc
                        /\ op'[q].idx = op[q].idx
                        /\ op'[q].cell = op[q].cell
                        /\ op'[q].attempt = op[q].attempt
                        /\ op'[q].outcome = op[q].outcome
  BY <1>1 DEF Expire, OpType, Task
<1>3. TypeOK'
  BY <1>2 DEF Expire, SafetyInv, TypeOK, monitorVars, historyVars
<1>4. Shape'
  BY <1>2 DEF Expire, SafetyInv, Shape, OpShape
<1>5. MonitorShape' /\ ColdProbeHoldsLock' /\ LiveSuccessStands'
  BY <1>2 DEF Expire, SafetyInv, MonitorShape, ColdProbeHoldsLock, LiveSuccessStands,
              monitorVars, historyVars
<1>6. QED
  BY <1>3, <1>4, <1>5 DEF SafetyInv
-----------------------------------------------------------------------------
(* Steps that give up a mutex, or look a cell up *)

\* Releasing what o holds, together with o's move out of its cold probe.
LEMMA ReleaseStep ==
    ASSUME SafetyInv, NEW o \in Ops, NEW how \in Endings, Finish(o, how),
           owner' = [c \in Cells |-> IF owner[c] = o THEN NoOp ELSE owner[c]],
           UNCHANGED <<probes, health, plan, mon, current, net, trusted, heard, carried, reports>>
    PROVE  SafetyInv'
<1>1. OpType
  BY DEF SafetyInv, TypeOK, OpType
<1>2. MovesTo(o, "done") /\ op'[o].attempt = op[o].attempt
  BY <1>1, FinishEffect
<1>3. TypeOK'
  BY <1>2 DEF SafetyInv, TypeOK, MovesTo
<1>4. Shape'
  BY <1>2 DEF SafetyInv, Shape, OpShape, MovesTo
<1>5. MonitorShape' /\ LiveSuccessStands'
  BY DEF SafetyInv, MonitorShape, LiveSuccessStands
<1>6. ColdProbeHoldsLock'
  BY <1>2, ConstantsAssumption DEF SafetyInv, ColdProbeHoldsLock, MovesTo
<1>7. QED
  BY <1>3, <1>4, <1>5, <1>6 DEF SafetyInv

LEMMA CancelStep ==
    ASSUME SafetyInv, NEW o \in Ops, Cancel(o)
    PROVE  SafetyInv'
BY ReleaseStep DEF Cancel, Endings, monitorVars, historyVars

LEMMA SelectTimeoutStep ==
    ASSUME SafetyInv, NEW o \in Ops, SelectTimeout(o)
    PROVE  SafetyInv'
BY ReleaseStep DEF SelectTimeout, Endings, monitorVars, historyVars

\* A lookup may reset one cell, but only one that no task and no probe uses.
LEMMA LookupStep ==
    ASSUME SafetyInv, NEW o \in Ops, NEW c \in Cells, HealthState(Route(o), c),
           NEW pc \in Points, MovesTo(o, pc), OpShape(o)',
           op[o].pc # "probe", pc # "probe",
           UNCHANGED <<owner, plan, mon, current, net, carried, reports>>
    PROVE  SafetyInv'
<1>1. /\ probes' \in [Keys -> Cells \cup {NoCell}]
      /\ health' \in [Cells -> ProbeHealth]
      /\ trusted' \in [Cells -> BOOLEAN]
      /\ heard' \in [Cells -> Results \cup {"none"}]
      /\ \A d \in Cells : \/ health'[d] = health[d] /\ trusted'[d] = trusted[d]
                          \/ Free(d) /\ ~trusted'[d]
  <2>1. TypeOK /\ Route(o) \in Keys
    BY KeyTypes DEF SafetyInv
  <2>2. QED
    BY <2>1, HealthStateEffect
<1>2. TypeOK'
  BY <1>1 DEF SafetyInv, TypeOK, MovesTo
<1>3. Shape'
  BY DEF SafetyInv, Shape, OpShape, MovesTo
<1>4. MonitorShape'
  BY <1>1 DEF SafetyInv, MonitorShape, Free
<1>5. ColdProbeHoldsLock'
  <2>1. ASSUME NEW d \in Cells, Free(d) PROVE owner[d] = NoOp
    <3>1. owner[d] \in Ops \cup {NoOp}
      BY DEF SafetyInv, TypeOK
    <3>2. owner[d] \notin Ops
      BY <2>1 DEF SafetyInv, ColdProbeHoldsLock, Free
    <3>3. QED
      BY <3>1, <3>2
  <2>2. QED
    BY <1>1, <2>1 DEF SafetyInv, ColdProbeHoldsLock, MovesTo
<1>6. LiveSuccessStands'
  BY <1>1 DEF SafetyInv, LiveSuccessStands
<1>7. QED
  BY <1>2, <1>3, <1>4, <1>5, <1>6 DEF SafetyInv

LEMMA SelectLookStep ==
    ASSUME SafetyInv, NEW o \in Ops, NEW c \in Cells, SelectLook(o, c)
    PROVE  SafetyInv'
<1>1. OpType /\ OpShape(o)
  BY DEF SafetyInv, TypeOK, OpType, Shape
<1>2. CASE op[o].expired
  <2>1. MovesTo(o, "done") /\ op'[o].attempt = op[o].attempt
    BY <1>1, <1>2, FinishEffect DEF SelectLook, Endings
  <2>2. OpShape(o)'
    BY <1>1, <2>1 DEF SelectLook, OpShape, MovesTo
  <2>3. QED
    BY <2>1, <2>2, LookupStep DEF SelectLook, Points, monitorVars
<1>3. CASE ~op[o].expired
  <2>1. /\ MovesTo(o, "lock")
        /\ op'[o].cell = c /\ op'[o].attempt = op[o].attempt /\ op'[o].outcome = op[o].outcome
    BY <1>1, <1>3, HoldEffect DEF SelectLook, Points
  <2>2. OpShape(o)'
    BY <1>1, <2>1 DEF SelectLook, OpShape, MovesTo
  <2>3. QED
    BY <2>1, <2>2, LookupStep DEF SelectLook, Points, monitorVars
<1>4. QED
  BY <1>2, <1>3

LEMMA ReportStep ==
    ASSUME SafetyInv, NEW o \in Ops, NEW c \in Cells, Report(o, c)
    PROVE  SafetyInv'
<1>1. OpType /\ OpShape(o)
  BY DEF SafetyInv, TypeOK, OpType, Shape
<1>2. /\ MovesTo(o, "observe")
      /\ op'[o].cell = c /\ op'[o].attempt = op[o].attempt /\ op'[o].outcome = op[o].outcome
  BY <1>1, HoldEffect DEF Report, Points
<1>3. OpShape(o)'
  BY <1>1, <1>2 DEF Report, OpShape, MovesTo
<1>4. QED
  BY <1>2, <1>3, LookupStep DEF Report, Points, monitorVars

LEMMA ConnectLookStep ==
    ASSUME SafetyInv, NEW o \in Ops, NEW c \in Cells, ConnectLook(o, c)
    PROVE  SafetyInv'
<1>1. OpType /\ OpShape(o) /\ carried \in [Ops -> Seq(Exits)]
  BY DEF SafetyInv, TypeOK, OpType, Shape
<1>2. CASE op[o].expired
  <2>1. MovesTo(o, "done") /\ op'[o].attempt = op[o].attempt
    BY <1>1, <1>2, FinishEffect DEF ConnectLook, Endings
  <2>2. OpShape(o)'
    BY <1>1, <2>1 DEF ConnectLook, OpShape, MovesTo
  <2>3. QED
    BY <1>1, <1>2, <2>1, <2>2, TaskStep DEF ConnectLook, Points, monitorVars
<1>3. CASE ~op[o].expired
  <2>1. /\ MovesTo(o, "gate")
        /\ op'[o].cell = c /\ op'[o].attempt = op[o].attempt /\ op'[o].outcome = op[o].outcome
    BY <1>1, <1>3, HoldEffect DEF ConnectLook, Points
  <2>2. OpShape(o)'
    BY <1>1, <2>1 DEF ConnectLook, OpShape, MovesTo
  <2>3. QED
    BY <1>3, <2>1, <2>2, LookupStep DEF ConnectLook, Points, monitorVars
<1>4. QED
  BY <1>2, <1>3
-----------------------------------------------------------------------------
(* Steps that read or change a cell with its mutex held *)

\* Choosing an exit or going on to the next.
LEMMA ChooseEffect ==
    ASSUME OpType, NEW o \in Ops, plan[o] \in PlanType, NEW h, Choose(o, h)
    PROVE  /\ op' \in [Ops -> Task]
           /\ \A q \in Ops \ {o} : op'[q] = op[q]
           /\ op'[o].pc \in {"look", "send", "done"}
           /\ op'[o].idx <= Len(plan[o].names)
           /\ op'[o].attempt = op[o].attempt
           /\ op'[o].pc # "done" => op'[o].outcome = op[o].outcome
<1>1. CASE h.unavailable
  BY <1>1, TryNextEffect DEF Choose
<1>2. CASE ~h.unavailable
  <2>1. MovesTo(o, "send") /\ op'[o].attempt = op[o].attempt /\ op'[o].outcome = op[o].outcome
    BY <1>2, HoldEffect DEF Choose, Points
  <2>2. QED
    BY <2>1 DEF MovesTo, OpType
<1>3. QED
  BY <1>1, <1>2

\* What a step that observes cell c, whose mutex is free or o's own, leaves
\* to show about o's task.
LEMMA ObserveStep ==
    ASSUME SafetyInv, NEW o \in Ops, NEW c \in Cells, NEW r \in Results, ObserveCell(c, r),
           op[o].cell = c,
           trusted' = [trusted EXCEPT ![c] = (r = "Healthy")],
           \/ owner[c] = NoOp /\ owner' = owner /\ op[o].pc # "probe"
           \/ owner[c] = o /\ owner' = [owner EXCEPT ![c] = NoOp],
           op' \in [Ops -> Task], \A q \in Ops \ {o} : op'[q] = op[q],
           op'[o].pc # "probe", op'[o].idx <= Len(plan[o].names), OpShape(o)',
           reports' \in [Ops -> Seq([exit: Exits, result: Results])],
           UNCHANGED <<probes, plan, mon, net, carried>>
    PROVE  SafetyInv'
<1>1. health[c] \in ProbeHealth
  BY DEF SafetyInv, TypeOK
<1>2. /\ Observed(health[c], r) \in ProbeHealth
      /\ Observed(health[c], r).initialized
      /\ r = "Healthy" => /\ ~Observed(health[c], r).unavailable
                          /\ Observed(health[c], r).failures = 0
  BY <1>1, ObservedType
<1>3. health' = [health EXCEPT ![c] = Observed(health[c], r)]
  BY DEF ObserveCell
<1>4. TypeOK'
  <2>1. health' \in [Cells -> ProbeHealth]
    BY <1>2, <1>3 DEF SafetyInv, TypeOK
  <2>2. owner' \in [Cells -> Ops \cup {NoOp}]
    BY DEF SafetyInv, TypeOK
  <2>3. /\ current' \in [Cells -> BOOLEAN]
        /\ trusted' \in [Cells -> BOOLEAN]
        /\ heard' \in [Cells -> Results \cup {"none"}]
    BY DEF SafetyInv, TypeOK, ObserveCell
  <2>4. \A q \in Ops : op'[q].idx <= Len(plan[q].names)
    BY DEF SafetyInv, TypeOK
  <2>5. QED
    BY <2>1, <2>2, <2>3, <2>4 DEF SafetyInv, TypeOK
<1>5. Shape'
  BY DEF SafetyInv, Shape, OpShape
<1>6. MonitorShape'
  BY <1>2, <1>3 DEF SafetyInv, TypeOK, MonitorShape, ObserveCell
<1>7. ColdProbeHoldsLock'
  <2>1. \A d \in Cells : d # c => owner'[d] = owner[d] /\ health'[d] = health[d]
    BY <1>3 DEF SafetyInv, TypeOK
  <2>2. owner'[c] = NoOp
    BY DEF SafetyInv, TypeOK
  <2>3. \A q \in Ops, d \in Cells : (owner'[d] = q) <=> (op'[q].pc = "probe" /\ op'[q].cell = d)
    BY SMTT(30), <2>1, <2>2, ConstantsAssumption DEF SafetyInv, ColdProbeHoldsLock
  <2>4. QED
    BY <2>1, <2>2, <2>3 DEF SafetyInv, ColdProbeHoldsLock
<1>8. LiveSuccessStands'
  BY <1>2, <1>3 DEF SafetyInv, TypeOK, LiveSuccessStands
<1>9. QED
  BY <1>4, <1>5, <1>6, <1>7, <1>8 DEF SafetyInv

LEMMA SelectProbedStep ==
    ASSUME SafetyInv, NEW o \in Ops, NEW r \in Results, SelectProbed(o, r)
    PROVE  SafetyInv'
<1> DEFINE c == op[o].cell
<1>1. OpType /\ OpShape(o) /\ plan[o] \in PlanType
  BY KeyTypes DEF SafetyInv, TypeOK, OpType, Shape
<1>2. c \in Cells /\ owner[c] = o
  BY <1>1 DEF SelectProbed, OpShape, SafetyInv, ColdProbeHoldsLock
<1>3. /\ op' \in [Ops -> Task]
      /\ \A q \in Ops \ {o} : op'[q] = op[q]
      /\ op'[o].pc \in {"look", "send", "done"}
      /\ op'[o].idx <= Len(plan[o].names)
      /\ op'[o].attempt = op[o].attempt
      /\ op'[o].pc # "done" => op'[o].outcome = op[o].outcome
  BY <1>1, ChooseEffect DEF SelectProbed
<1>4. OpShape(o)'
  BY <1>1, <1>3 DEF SelectProbed, OpShape, Attempts
<1>5. reports' \in [Ops -> Seq([exit: Exits, result: Results])]
  BY DEF SelectProbed, SafetyInv, TypeOK
<1>6. QED
  BY <1>2, <1>3, <1>4, <1>5, ObserveStep DEF SelectProbed

LEMMA ObserveActionStep ==
    ASSUME SafetyInv, NEW o \in Ops, Observe(o)
    PROVE  SafetyInv'
<1> DEFINE c == op[o].cell
           r == Health[op[o].outcome]
<1>1. OpType /\ OpShape(o) /\ plan[o] \in PlanType /\ Exit(o) \in Exits
  BY KeyTypes DEF SafetyInv, TypeOK, OpType, Shape
<1>2. c \in Cells /\ r \in Results
  BY <1>1 DEF Observe, OpShape, Outcomes, Health, Results
<1>3. Return(o, op[o].outcome)
  BY DEF Observe
<1>4. /\ op' \in [Ops -> Task]
      /\ \A q \in Ops \ {o} : op'[q] = op[q]
      /\ op'[o].pc \in {"look", "done"}
      /\ op'[o].idx <= Len(plan[o].names)
      /\ op'[o].attempt = op[o].attempt
      /\ op'[o].pc = "look" => op'[o].outcome = op[o].outcome /\ plan[o].tunnel
  <2>1. CASE \E how \in {"response", "failed"} : Finish(o, how)
    BY <1>1, <2>1, FinishEffect DEF Endings, MovesTo, OpType
  <2>2. CASE plan[o].tunnel /\ TryNext(o)
    BY <1>1, <2>2, TryNextEffect
  <2>3. QED
    BY <1>3, <2>1, <2>2 DEF Return
<1>5. OpShape(o)'
  <2>1. plan' = plan /\ op[o].pc # "done" /\ (plan[o].tunnel => op[o].attempt = 0)
    BY <1>1 DEF Observe, OpShape
  <2>2. op[o].outcome \in Outcomes
    BY <1>1 DEF Observe, OpShape
  <2>3. QED
    BY <1>4, <2>1, <2>2 DEF OpShape
<1>6. reports' \in [Ops -> Seq([exit: Exits, result: Results])]
  <2>1. [exit |-> Exit(o), result |-> r] \in [exit: Exits, result: Results]
    BY <1>1, <1>2
  <2>2. reports[o] \in Seq([exit: Exits, result: Results])
    BY DEF SafetyInv, TypeOK
  <2>3. Append(reports[o], [exit |-> Exit(o), result |-> r]) \in Seq([exit: Exits, result: Results])
    BY <2>1, <2>2
  <2>4. QED
    BY <2>3 DEF Observe, SafetyInv, TypeOK
<1>7. QED
  BY <1>2, <1>4, <1>5, <1>6, ObserveStep DEF Observe

LEMMA MonitorFlagStep ==
    ASSUME SafetyInv, NEW c \in Cells, NEW flag \in BOOLEAN,
           health' = [health EXCEPT ![c].monitored = flag]
    PROVE  /\ health' \in [Cells -> ProbeHealth]
           /\ \A d \in Cells : /\ health'[d].initialized = health[d].initialized
                               /\ health'[d].unavailable = health[d].unavailable
                               /\ health'[d].failures = health[d].failures
<1> DEFINE flagged == [health[c] EXCEPT !.monitored = flag]
<1>1. health \in [Cells -> ProbeHealth] /\ health[c] \in ProbeHealth
  BY DEF SafetyInv, TypeOK
<1>2. /\ flagged \in ProbeHealth
      /\ flagged.initialized = health[c].initialized
      /\ flagged.unavailable = health[c].unavailable
      /\ flagged.failures = health[c].failures
  BY <1>1 DEF ProbeHealth
<1>3. health' = [health EXCEPT ![c] = flagged]
  BY <1>1
<1> HIDE DEF flagged
<1>4. QED
  BY <1>1, <1>2, <1>3

LEMMA SelectLockStep ==
    ASSUME SafetyInv, NEW o \in Ops, SelectLock(o)
    PROVE  SafetyInv'
<1> DEFINE c == op[o].cell
<1>1. OpType /\ OpShape(o) /\ plan[o] \in PlanType
  BY KeyTypes DEF SafetyInv, TypeOK, OpType, Shape
<1>2. c \in Cells /\ owner[c] = NoOp
  BY <1>1 DEF SelectLock, OpShape
<1>3. /\ health' \in [Cells -> ProbeHealth]
      /\ \A d \in Cells : /\ health'[d].initialized = health[d].initialized
                          /\ health'[d].unavailable = health[d].unavailable
                          /\ health'[d].failures = health[d].failures
  BY <1>2, MonitorFlagStep DEF SelectLock
<1>4. MonitorShape' /\ LiveSuccessStands'
  BY <1>3 DEF SelectLock, SafetyInv, MonitorShape, LiveSuccessStands, monitorVars, historyVars
<1>5. CASE /\ owner' = owner
           /\ \/ Choose(o, health[c])
              \/ Finish(o, "timeout")
  <2>1. /\ op' \in [Ops -> Task]
        /\ \A q \in Ops \ {o} : op'[q] = op[q]
        /\ op'[o].pc \in {"look", "send", "done"}
        /\ op'[o].idx <= Len(plan[o].names)
        /\ op'[o].attempt = op[o].attempt
        /\ op'[o].pc # "done" => op'[o].outcome = op[o].outcome
    <3>1. CASE Choose(o, health[c])
      BY <1>1, <3>1, ChooseEffect
    <3>2. CASE Finish(o, "timeout")
      BY <1>1, <3>2, FinishEffect DEF Endings, MovesTo, OpType
    <3>3. QED
      BY <1>5, <3>1, <3>2
  <2>2. TypeOK'
    BY <1>3, <1>5, <2>1 DEF SelectLock, SafetyInv, TypeOK, monitorVars, historyVars
  <2>3. Shape'
    BY <1>1, <2>1 DEF SelectLock, SafetyInv, Shape, OpShape, Attempts
  <2>4. ColdProbeHoldsLock'
    BY <1>3, <1>5, <2>1 DEF SelectLock, SafetyInv, ColdProbeHoldsLock, monitorVars
  <2>5. QED
    BY <1>4, <2>2, <2>3, <2>4 DEF SafetyInv
<1>6. CASE /\ ~health[c].initialized
           /\ Goto(o, "probe")
           /\ owner' = [owner EXCEPT ![c] = o]
  <2>1. MovesTo(o, "probe") /\ op'[o].cell = c /\ op'[o].attempt = op[o].attempt
                            /\ op'[o].outcome = op[o].outcome
    BY <1>1, <1>6, GotoEffect DEF Points
  <2>2. TypeOK'
    BY <1>3, <1>6, <2>1 DEF SelectLock, SafetyInv, TypeOK, MovesTo, monitorVars, historyVars
  <2>3. Shape'
    BY <1>1, <2>1 DEF SelectLock, SafetyInv, Shape, OpShape, MovesTo
  <2>4. ColdProbeHoldsLock'
    <3>1. owner'[c] = o /\ \A d \in Cells : d # c => owner'[d] = owner[d]
      BY <1>2, <1>6 DEF SafetyInv, TypeOK
    <3>2. mon'[c] # "probing" /\ mon' = mon
      BY <1>2, <1>6 DEF SelectLock, SafetyInv, MonitorShape, monitorVars
    <3>3. \A q \in Ops, d \in Cells : (owner'[d] = q) <=> (op'[q].pc = "probe" /\ op'[q].cell = d)
      BY <1>2, <2>1, <3>1, ConstantsAssumption
      DEF SelectLock, SafetyInv, ColdProbeHoldsLock, MovesTo
    <3>4. QED
      BY <1>3, <1>6, <3>1, <3>2, <3>3 DEF SafetyInv, ColdProbeHoldsLock
  <2>5. QED
    BY <1>4, <2>2, <2>3, <2>4 DEF SafetyInv
<1>7. QED
  BY <1>5, <1>6 DEF SelectLock

LEMMA ConnectGateStep ==
    ASSUME SafetyInv, NEW o \in Ops, ConnectGate(o)
    PROVE  SafetyInv'
<1> DEFINE c == op[o].cell
<1>1. OpType /\ OpShape(o) /\ plan[o] \in PlanType
  BY KeyTypes DEF SafetyInv, TypeOK, OpType, Shape
<1>2. /\ health' \in [Cells -> ProbeHealth]
      /\ \A d \in Cells : /\ health'[d].initialized = health[d].initialized
                          /\ health'[d].unavailable = health[d].unavailable
                          /\ health'[d].failures = health[d].failures
  <2>1. c \in Cells
    BY <1>1 DEF ConnectGate, OpShape
  <2>2. health[c].monitored \/ plan[o].list \in BOOLEAN
    BY <1>1, <2>1 DEF SafetyInv, TypeOK, ProbeHealth, PlanType
  <2>3. QED
    BY <2>1, <2>2, MonitorFlagStep DEF ConnectGate
<1>3. /\ op' \in [Ops -> Task]
      /\ \A q \in Ops \ {o} : op'[q] = op[q]
      /\ op'[o].pc \in {"look", "done", "dial"}
      /\ op'[o].idx <= Len(plan[o].names)
      /\ op'[o].attempt = op[o].attempt
      /\ op'[o].pc # "done" => op'[o].outcome = op[o].outcome
  <2>1. CASE TryNext(o)
    BY <1>1, <2>1, TryNextEffect
  <2>2. CASE Hold(o, "dial", NoCell)
    BY <1>1, <2>2, HoldEffect DEF Points, MovesTo, OpType
  <2>3. QED
    BY <2>1, <2>2 DEF ConnectGate
<1>4. TypeOK'
  BY <1>2, <1>3 DEF ConnectGate, SafetyInv, TypeOK, monitorVars, historyVars
<1>5. Shape'
  BY <1>1, <1>3 DEF ConnectGate, SafetyInv, Shape, OpShape
<1>6. MonitorShape' /\ LiveSuccessStands'
  BY <1>2 DEF ConnectGate, SafetyInv, MonitorShape, LiveSuccessStands, monitorVars, historyVars
<1>7. ColdProbeHoldsLock'
  BY <1>2, <1>3 DEF ConnectGate, SafetyInv, ColdProbeHoldsLock, monitorVars
<1>8. QED
  BY <1>4, <1>5, <1>6, <1>7 DEF SafetyInv
-----------------------------------------------------------------------------
(* Steps of the monitor and of the environment *)

LEMMA RoundBeginsStep == SafetyInv /\ RoundBegins => SafetyInv'
<1> SUFFICES ASSUME SafetyInv, RoundBegins PROVE SafetyInv'
  OBVIOUS
<1>1. \A c \in Cells : mon'[c] \in {"idle", "queued"}
  BY DEF RoundBegins
<1>2. TypeOK'
  BY <1>1 DEF RoundBegins, SafetyInv, TypeOK, historyVars
<1>3. Shape'
  BY DEF RoundBegins, SafetyInv, Shape, OpShape
<1>4. MonitorShape' /\ ColdProbeHoldsLock' /\ LiveSuccessStands'
  BY <1>1 DEF RoundBegins, SafetyInv, MonitorShape, ColdProbeHoldsLock, LiveSuccessStands,
              historyVars
<1>5. QED
  BY <1>2, <1>3, <1>4 DEF SafetyInv

LEMMA InspectStep ==
    ASSUME SafetyInv, NEW c \in Cells, Inspect(c)
    PROVE  SafetyInv'
<1>1. TypeOK'
  BY DEF Inspect, SafetyInv, TypeOK
<1>2. Shape'
  BY DEF Inspect, SafetyInv, Shape, OpShape
<1>3. /\ health' = health /\ owner' = owner /\ op' = op
      /\ \A d \in Cells : d # c => /\ mon'[d] = mon[d]
                                   /\ current'[d] = current[d]
                                   /\ trusted'[d] = trusted[d]
      /\ mon'[c] = "probing" => owner[c] = NoOp /\ health[c].initialized
      /\ trusted'[c] => ~current'[c] /\ trusted[c]
  BY DEF Inspect, SafetyInv, TypeOK, MonitorShape
<1>4. MonitorShape'
  BY <1>3 DEF SafetyInv, MonitorShape
<1>5. ColdProbeHoldsLock'
  BY <1>3 DEF SafetyInv, ColdProbeHoldsLock
<1>6. LiveSuccessStands'
  BY <1>3 DEF SafetyInv, LiveSuccessStands
<1>7. QED
  BY <1>1, <1>2, <1>4, <1>5, <1>6 DEF SafetyInv

\* A probe that commits found its revision unchanged, so nothing live was
\* heard since it began and the cell is not trusted.
LEMMA CommitStep ==
    ASSUME SafetyInv, NEW c \in Cells, NEW r \in Results, Commit(c, r)
    PROVE  SafetyInv'
<1>1. Shape'
  BY DEF Commit, SafetyInv, Shape, OpShape
<1>2. CASE current[c]
  <2>1. /\ Observed(health[c], r) \in ProbeHealth
        /\ Observed(health[c], r).initialized
    BY ObservedType DEF SafetyInv, TypeOK
  <2>2. /\ health'  = [health EXCEPT ![c] = Observed(health[c], r)]
        /\ current' = [current EXCEPT ![c] = FALSE]
        /\ heard'   = [heard EXCEPT ![c] = r]
        /\ mon'     = [mon EXCEPT ![c] = "idle"]
        /\ UNCHANGED <<probes, owner, plan, op, net, trusted, carried, reports>>
    BY <1>2 DEF Commit, ObserveCell
  <2>3. TypeOK'
    BY <2>1, <2>2 DEF SafetyInv, TypeOK
  <2>4. MonitorShape' /\ LiveSuccessStands'
    BY <1>2, <2>1, <2>2 DEF SafetyInv, TypeOK, MonitorShape, LiveSuccessStands
  <2>5. ColdProbeHoldsLock'
    <3>1. owner[c] = NoOp
      BY DEF Commit
    <3>2. QED
      BY <2>2, <3>1 DEF SafetyInv, TypeOK, ColdProbeHoldsLock
  <2>6. QED
    BY <1>1, <2>3, <2>4, <2>5 DEF SafetyInv
<1>3. CASE ~current[c]
  <2>1. /\ mon' = [mon EXCEPT ![c] = "idle"]
        /\ UNCHANGED <<health, current, heard, probes, owner, plan, op, net, trusted, carried,
                       reports>>
    BY <1>3 DEF Commit
  <2>2. TypeOK'
    BY <2>1 DEF SafetyInv, TypeOK
  <2>3. MonitorShape' /\ ColdProbeHoldsLock' /\ LiveSuccessStands'
    BY <2>1 DEF SafetyInv, TypeOK, MonitorShape, ColdProbeHoldsLock, LiveSuccessStands
  <2>4. QED
    BY <1>1, <2>2, <2>3 DEF SafetyInv
<1>4. QED
  BY <1>2, <1>3

LEMMA ElapseStep ==
    ASSUME SafetyInv, NEW c \in Cells, Elapse(c)
    PROVE  SafetyInv'
<1>1. /\ health' \in [Cells -> ProbeHealth]
      /\ \A d \in Cells : /\ health'[d].initialized = health[d].initialized
                          /\ health'[d].unavailable = health[d].unavailable
                          /\ health'[d].failures = health[d].failures
  BY ZenonT(60) DEF Elapse, SafetyInv, TypeOK, ProbeHealth
<1>2. TypeOK'
  BY <1>1 DEF Elapse, SafetyInv, TypeOK, monitorVars, historyVars
<1>3. Shape'
  BY DEF Elapse, SafetyInv, Shape, OpShape
<1>4. MonitorShape' /\ ColdProbeHoldsLock' /\ LiveSuccessStands'
  BY <1>1 DEF Elapse, SafetyInv, MonitorShape, ColdProbeHoldsLock, LiveSuccessStands,
              monitorVars, historyVars
<1>5. QED
  BY <1>2, <1>3, <1>4 DEF SafetyInv

LEMMA TurnStep ==
    ASSUME SafetyInv, NEW e \in Exits, NEW w \in Weather, Turn(e, w)
    PROVE  SafetyInv'
<1>1. TypeOK'
  BY DEF Turn, SafetyInv, TypeOK, monitorVars, historyVars
<1>2. Shape' /\ MonitorShape' /\ ColdProbeHoldsLock' /\ LiveSuccessStands'
  BY DEF Turn, SafetyInv, Shape, OpShape, MonitorShape, ColdProbeHoldsLock, LiveSuccessStands,
         monitorVars, historyVars
<1>3. QED
  BY <1>1, <1>2 DEF SafetyInv
-----------------------------------------------------------------------------
(* The invariant *)

LEMMA NextSafety == SafetyInv /\ [Next]_vars => SafetyInv'
<1> SUFFICES ASSUME SafetyInv, [Next]_vars PROVE SafetyInv'
  OBVIOUS
<1>1. ASSUME NEW o \in Ops, OpStep(o) PROVE SafetyInv'
  BY <1>1, BeginStep, ExpireStep, CancelStep, SelectLookStep, ConnectLookStep, ReportStep,
     SelectProbedStep, AnsweredStep, DialedStep, SelectLockStep, SelectTimeoutStep,
     NoClientStep, AttemptStep, ObserveActionStep, ConnectGateStep DEF OpStep
<1>2. ASSUME NEW c \in Cells, MonitorStep(c) \/ Elapse(c) PROVE SafetyInv'
  BY <1>2, InspectStep, CommitStep, ElapseStep DEF MonitorStep
<1>3. ASSUME NEW e \in Exits, NEW w \in Weather, Turn(e, w) PROVE SafetyInv'
  BY <1>3, TurnStep
<1>4. CASE UNCHANGED vars
  <2>1. TypeOK'
    BY <1>4 DEF vars, SafetyInv, TypeOK
  <2>2. Shape'
    BY <1>4 DEF vars, SafetyInv, Shape, OpShape
  <2>3. MonitorShape' /\ ColdProbeHoldsLock' /\ LiveSuccessStands'
    BY <1>4 DEF vars, SafetyInv, MonitorShape, ColdProbeHoldsLock, LiveSuccessStands
  <2>4. QED
    BY <2>1, <2>2, <2>3 DEF SafetyInv
<1>5. QED
  BY <1>1, <1>2, <1>3, <1>4, RoundBeginsStep DEF Next

THEOREM Safety == Spec => []SafetyInv
BY InitSafety, NextSafety, PTL DEF Spec

\* Every variable keeps its type, the failure counters included.
THEOREM TypeCorrect == Spec => []TypeOK
<1>1. SafetyInv => TypeOK
  BY DEF SafetyInv
<1>2. QED
  BY <1>1, Safety, PTL

\* However many operations, exits and entries there are, a mutex is held
\* across an await only by the one task that cold-probes its cell.
THEOREM LockDiscipline == Spec => []ColdProbeHoldsLock
<1>1. SafetyInv => ColdProbeHoldsLock
  BY DEF SafetyInv
<1>2. QED
  BY <1>1, Safety, PTL

\* A late background probe never overwrites a newer live success.
THEOREM LateProbesIgnored == Spec => []LiveSuccessStands
<1>1. SafetyInv => LiveSuccessStands
  BY DEF SafetyInv
<1>2. QED
  BY <1>1, Safety, PTL

-----------------------------------------------------------------------------
(* What one logical request does to its exits and reports of them.  The    *)
(* rest of the module counts, for each place of an operation, what it has  *)
(* carried and reported so far.                                            *)

\* HTTP: every attempt went to the exit it has settled on.
AttemptsShape(o) ==
    /\ Len(carried[o]) = op[o].attempt
    /\ \A i \in 1 .. Len(carried[o]) : carried[o][i] = Exit(o)
    /\ op[o].attempt > 1 \/ (op[o].pc = "send" /\ op[o].attempt > 0) => plan[o].retryable

\* HTTP: nothing is reported before the end, and at the end what it was.
ReportShape(o) ==
    /\ op[o].pc # "done" => reports[o] = <<>>
    /\ op[o].pc = "done" =>
        IF op[o].outcome \in {"response", "failed"}
        THEN Len(reports[o]) = 1 /\ reports[o][1].exit = Exit(o)
        ELSE reports[o] = <<>>

\* CONNECT: the candidates before this one at most, and this one at the end.
TunnelShape(o) ==
    Len(reports[o]) <= (IF op[o].pc = "done" THEN op[o].idx ELSE op[o].idx - 1)

OpHistory(o) ==
    /\ AttemptsShape(o)
    /\ IF plan[o].tunnel THEN TunnelShape(o) ELSE ReportShape(o)

HistoryInv == \A o \in Ops : OpHistory(o)
-----------------------------------------------------------------------------
(* The ways an operation moves. *)

\* Only o moves, and only its own history with it.
Only(o) == /\ plan' = plan
           /\ \A q \in Ops \ {o} : /\ op'[q] = op[q]
                                   /\ carried'[q] = carried[q]
                                   /\ reports'[q] = reports[q]

LEMMA OthersKeep ==
    ASSUME HistoryInv, NEW o \in Ops, Only(o), OpHistory(o)'
    PROVE  HistoryInv'
<1>1. ASSUME NEW q \in Ops \ {o} PROVE OpHistory(q)'
  BY <1>1 DEF HistoryInv, OpHistory, AttemptsShape, ReportShape, TunnelShape, Exit, Only
<1>2. QED
  BY <1>1 DEF HistoryInv

\* The exit, the attempts and the history stay as they are.
SamePlace(o) == /\ op'[o].idx = op[o].idx
                /\ op'[o].attempt = op[o].attempt
                /\ UNCHANGED <<plan, carried, reports>>

LEMMA GoesOn ==
    ASSUME SafetyInv, HistoryInv, NEW o \in Ops, SamePlace(o),
           op[o].pc # "done", op'[o].pc # "done",
           op'[o].pc = "send" /\ op[o].attempt > 0 => plan[o].retryable
    PROVE  OpHistory(o)'
<1>1. OpHistory(o)
  BY DEF HistoryInv
<1>2. QED
  BY <1>1 DEF OpHistory, AttemptsShape, ReportShape, TunnelShape, Exit, SamePlace

LEMMA GivesUp ==
    ASSUME SafetyInv, HistoryInv, NEW o \in Ops, SamePlace(o),
           op[o].pc # "done", op'[o].pc = "done",
           op'[o].outcome \notin {"response", "failed"}
    PROVE  OpHistory(o)'
<1>1. OpHistory(o)
  BY DEF HistoryInv
<1>2. op[o].idx \in Nat /\ Len(reports[o]) \in Nat
  BY DEF SafetyInv, TypeOK, Task
<1>3. QED
  BY <1>1, <1>2 DEF OpHistory, AttemptsShape, ReportShape, TunnelShape, Exit, SamePlace

\* What TryNext does to the place in the list.
LEMMA TryNextPlace ==
    ASSUME OpType, NEW o \in Ops, TryNext(o)
    PROVE  /\ op'[o].attempt = op[o].attempt
           /\ \A q \in Ops \ {o} : op'[q] = op[q]
           /\ \/ op'[o].pc = "look" /\ op'[o].idx = op[o].idx + 1
              \/ op'[o].pc = "done" /\ op'[o].idx = op[o].idx /\ op'[o].outcome = "unroutable"
BY DEF OpType, TryNext, Task, Finish

\* Going on to the next candidate before any attempt.
LEMMA PassesOver ==
    ASSUME SafetyInv, HistoryInv, NEW o \in Ops, TryNext(o),
           UNCHANGED <<plan, carried, reports>>,
           op[o].pc # "done", op[o].attempt = 0
    PROVE  OpHistory(o)'
<1>1. OpHistory(o)
  BY DEF HistoryInv
<1>2. OpType /\ op[o].idx \in Nat /\ Len(reports[o]) \in Nat /\ carried[o] \in Seq(Exits)
  BY DEF SafetyInv, TypeOK, Task, OpType
<1>3. /\ op'[o].attempt = 0
      /\ \/ op'[o].pc = "look" /\ op'[o].idx = op[o].idx + 1
         \/ op'[o].pc = "done" /\ op'[o].idx = op[o].idx /\ op'[o].outcome = "unroutable"
  BY <1>2, TryNextPlace
<1>4. AttemptsShape(o)'
  BY <1>1, <1>2, <1>3 DEF OpHistory, AttemptsShape
<1>5. CASE plan[o].tunnel
  BY <1>1, <1>2, <1>3, <1>4, <1>5 DEF OpHistory, TunnelShape
<1>6. CASE ~plan[o].tunnel
  BY <1>1, <1>3, <1>4, <1>6 DEF OpHistory, ReportShape
<1>7. QED
  BY <1>5, <1>6
-----------------------------------------------------------------------------
(* One lemma per step that moves an operation. *)

LEMMA QuietSteps ==
    ASSUME SafetyInv, HistoryInv, NEW o \in Ops,
           Begin(o) \/ Cancel(o) \/ SelectTimeout(o) \/ NoClient(o)
    PROVE  HistoryInv'
<1>1. OpType /\ OpShape(o)
  BY DEF SafetyInv, TypeOK, OpType, Shape
<1>2. Only(o) /\ SamePlace(o) /\ op[o].pc # "done"
  BY <1>1 DEF Begin, Cancel, Active, SelectTimeout, NoClient, Goto, Finish, Only, SamePlace,
              OpType, Task, historyVars
<1>3. CASE Begin(o)
  <2>1. op'[o].pc # "done" /\ op[o].attempt = 0
    BY <1>1, <1>3 DEF Begin, Goto, OpType, Task, OpShape
  <2>2. QED
    BY <1>2, <2>1, GoesOn, OthersKeep
<1>4. CASE Cancel(o) \/ SelectTimeout(o) \/ NoClient(o)
  <2>1. op'[o].pc = "done" /\ op'[o].outcome \notin {"response", "failed"}
    BY <1>1, <1>4 DEF Cancel, SelectTimeout, NoClient, Finish, OpType, Task
  <2>2. QED
    BY <1>2, <2>1, GivesUp, OthersKeep
<1>5. QED
  BY <1>3, <1>4

LEMMA ExpireKeeps ==
    ASSUME SafetyInv, HistoryInv, NEW o \in Ops, Expire(o)
    PROVE  HistoryInv'
<1>1. /\ UNCHANGED <<plan, carried, reports>>
      /\ \A q \in Ops : /\ op'[q].pc = op[q].pc
                        /\ op'[q].idx = op[q].idx
                        /\ op'[q].attempt = op[q].attempt
                        /\ op'[q].outcome = op[q].outcome
  BY DEF Expire, SafetyInv, TypeOK, Task, historyVars
<1>2. ASSUME NEW q \in Ops PROVE OpHistory(q)'
  <2>1. OpHistory(q)
    BY DEF HistoryInv
  <2>2. QED
    BY <1>1, <2>1 DEF OpHistory, AttemptsShape, ReportShape, TunnelShape, Exit
<1>3. QED
  BY <1>2 DEF HistoryInv

\* A lookup ends in a wait for the mutex, or at the deadline.
LEMMA LookSteps ==
    ASSUME SafetyInv, HistoryInv, NEW o \in Ops, NEW c \in Cells,
           SelectLook(o, c) \/ ConnectLook(o, c) \/ Report(o, c)
    PROVE  HistoryInv'
<1>1. OpType
  BY DEF SafetyInv, TypeOK, OpType
<1>2. Only(o) /\ SamePlace(o) /\ op[o].pc # "done"
  BY <1>1 DEF SelectLook, ConnectLook, Report, Hold, Finish, Only, SamePlace, OpType, Task
<1>3. \/ op'[o].pc \in {"lock", "gate", "observe"}
      \/ op'[o].pc = "done" /\ op'[o].outcome = "timeout"
  BY <1>1 DEF SelectLook, ConnectLook, Report, Hold, Finish, OpType, Task
<1>4. QED
  BY <1>2, <1>3, GoesOn, GivesUp, OthersKeep

\* The exit is chosen, or passed over.
LEMMA ChooseStep ==
    ASSUME SafetyInv, HistoryInv, NEW o \in Ops, NEW h, Choose(o, h),
           UNCHANGED <<plan, carried, reports>>,
           op[o].pc \in {"lock", "probe"}
    PROVE  HistoryInv'
<1>1. OpType /\ op[o].attempt = 0
  BY DEF SafetyInv, TypeOK, OpType, Shape, OpShape
<1>2. CASE h.unavailable
  <2>1. TryNext(o)
    BY <1>2 DEF Choose
  <2>2. Only(o)
    BY <1>1, <2>1, TryNextPlace DEF Only
  <2>3. QED
    BY <1>1, <2>1, <2>2, PassesOver, OthersKeep
<1>3. CASE ~h.unavailable
  <2>1. Only(o) /\ SamePlace(o) /\ op'[o].pc # "done"
    BY <1>1, <1>3 DEF Choose, Hold, Only, SamePlace, OpType, Task
  <2>2. QED
    BY <1>1, <2>1, GoesOn, OthersKeep
<1>4. QED
  BY <1>2, <1>3

LEMMA SelectSteps ==
    ASSUME SafetyInv, HistoryInv, NEW o \in Ops,
           SelectLock(o) \/ \E r \in Results : SelectProbed(o, r)
    PROVE  HistoryInv'
<1>1. OpType
  BY DEF SafetyInv, TypeOK, OpType
<1>2. UNCHANGED <<plan, carried, reports>> /\ op[o].pc \in {"lock", "probe"}
  BY DEF SelectLock, SelectProbed, historyVars
<1>3. CASE Choose(o, health[op[o].cell])
  BY <1>2, <1>3, ChooseStep
<1>4. CASE \E r \in Results : Choose(o, Observed(health[op[o].cell], r))
  BY <1>2, <1>4, ChooseStep
<1>5. CASE Finish(o, "timeout")
  <2>1. /\ Only(o) /\ SamePlace(o)
        /\ op'[o].pc = "done" /\ op'[o].outcome = "timeout"
    BY <1>1, <1>2, <1>5 DEF Finish, Only, SamePlace, OpType, Task
  <2>2. QED
    BY <1>2, <2>1, GivesUp, OthersKeep
<1>6. CASE Goto(o, "probe")
  <2>1. Only(o) /\ SamePlace(o) /\ op'[o].pc = "probe"
    BY <1>1, <1>2, <1>6 DEF Goto, Only, SamePlace, OpType, Task
  <2>2. QED
    BY <1>2, <2>1, GoesOn, OthersKeep
<1>7. QED
  BY <1>3, <1>4, <1>5, <1>6 DEF SelectLock, SelectProbed

LEMMA GateStep ==
    ASSUME SafetyInv, HistoryInv, NEW o \in Ops, ConnectGate(o)
    PROVE  HistoryInv'
<1>1. OpType /\ OpShape(o)
  BY DEF SafetyInv, TypeOK, OpType, Shape
<1>2. UNCHANGED <<plan, carried, reports>> /\ op[o].pc = "gate" /\ op[o].attempt = 0
  BY <1>1 DEF ConnectGate, historyVars, OpShape
<1>3. CASE TryNext(o)
  <2>1. Only(o)
    BY <1>1, <1>2, <1>3, TryNextPlace DEF Only
  <2>2. QED
    BY <1>2, <1>3, <2>1, PassesOver, OthersKeep
<1>4. CASE Hold(o, "dial", NoCell)
  <2>1. Only(o) /\ SamePlace(o) /\ op'[o].pc = "dial"
    BY <1>1, <1>2, <1>4 DEF Hold, Only, SamePlace, OpType, Task
  <2>2. QED
    BY <1>2, <2>1, GoesOn, OthersKeep
<1>5. QED
  BY <1>3, <1>4 DEF ConnectGate

\* An attempt that ends is reported or, for a plain GET, made again.
LEMMA AnswerSteps ==
    ASSUME SafetyInv, HistoryInv, NEW o \in Ops, NEW out \in Outcomes,
           Answered(o, out) \/ Dialed(o, out)
    PROVE  HistoryInv'
<1>1. OpType
  BY DEF SafetyInv, TypeOK, OpType
<1>2. /\ Only(o) /\ SamePlace(o) /\ op[o].pc # "done" /\ op'[o].pc # "done"
      /\ op'[o].pc = "send" => plan[o].retryable
  BY <1>1 DEF Answered, Dialed, ReportAs, MayRetry, Only, SamePlace, OpType, Task, historyVars
<1>3. QED
  BY <1>2, GoesOn, OthersKeep

\* An attempt hands the payload to the exit that the others went to.
LEMMA AttemptKeeps ==
    ASSUME SafetyInv, HistoryInv, NEW o \in Ops, Attempt(o)
    PROVE  HistoryInv'
<1>1. /\ OpType /\ OpShape(o) /\ OpHistory(o)
      /\ carried \in [Ops -> Seq(Exits)] /\ Exit(o) \in Exits
  BY KeyTypes DEF SafetyInv, TypeOK, OpType, Shape, HistoryInv
<1>2. CASE op[o].expired
  <2>1. Only(o) /\ SamePlace(o) /\ op[o].pc # "done" /\ op'[o].pc = "report"
    BY <1>1, <1>2 DEF Attempt, Goto, Only, SamePlace, OpType, Task
  <2>2. QED
    BY <2>1, GoesOn, OthersKeep
<1>3. CASE ~op[o].expired
  <2>1. /\ op'[o].pc = "flight" /\ op[o].pc = "send"
        /\ op'[o].attempt = op[o].attempt + 1
        /\ op'[o].idx = op[o].idx
        /\ UNCHANGED <<plan, reports>>
        /\ carried'[o] = Append(carried[o], Exit(o))
        /\ op[o].attempt \in Nat
        /\ Only(o)
    <3>1. op' = [op EXCEPT ![o].pc = "flight", ![o].attempt = @ + 1]
      BY <1>3 DEF Attempt
    <3>2. op[o] \in Task /\ op \in [Ops -> Task]
      BY <1>1 DEF OpType
    <3>3. /\ op'[o].pc = "flight" /\ op'[o].attempt = op[o].attempt + 1
          /\ op'[o].idx = op[o].idx /\ op[o].attempt \in Nat
          /\ \A q \in Ops \ {o} : op'[q] = op[q]
      BY <3>1, <3>2 DEF Task, Attempts
    <3>4. /\ carried'[o] = Append(carried[o], Exit(o))
          /\ \A q \in Ops \ {o} : carried'[q] = carried[q]
      <4>1. carried' = [carried EXCEPT ![o] = Append(carried[o], Exit(o))]
        BY <1>3 DEF Attempt
      <4>2. QED
        BY <1>1, <4>1
    <3>5. op[o].pc = "send" /\ UNCHANGED <<plan, reports>>
      BY DEF Attempt
    <3>6. QED
      BY <3>3, <3>4, <3>5 DEF Only
  <2>2. Exit(o)' = Exit(o)
    BY <2>1 DEF Exit
  <2>3. AttemptsShape(o)'
    <3>1. carried[o] \in Seq(Exits)
      BY <1>1
    <3>2. /\ Len(carried'[o]) = Len(carried[o]) + 1
          /\ \A i \in 1 .. Len(carried[o]) : carried'[o][i] = carried[o][i]
          /\ carried'[o][Len(carried[o]) + 1] = Exit(o)
          /\ Len(carried[o]) \in Nat
      BY <1>1, <2>1, <3>1
    <3>3. \A i \in 1 .. Len(carried'[o]) : carried'[o][i] = Exit(o)
      <4>1. \A i \in 1 .. Len(carried[o]) : carried[o][i] = Exit(o)
        BY <1>1 DEF OpHistory, AttemptsShape
      <4>2. QED
        BY <3>2, <4>1
    <3>4. QED
      BY <1>1, <2>1, <2>2, <3>2, <3>3 DEF OpHistory, AttemptsShape
  <2>4. QED
    BY <1>1, <2>1, <2>3, OthersKeep DEF OpHistory, ReportShape, TunnelShape
<1>4. QED
  BY <1>2, <1>3

\* record_health is the one place that reports, once per exit settled on.
LEMMA ObserveKeeps ==
    ASSUME SafetyInv, HistoryInv, NEW o \in Ops, Observe(o)
    PROVE  HistoryInv'
<1> DEFINE entry == [exit |-> Exit(o), result |-> Health[op[o].outcome]]
           out == op[o].outcome
<1>1. /\ OpType /\ OpShape(o) /\ OpHistory(o) /\ op[o].pc = "observe"
      /\ reports[o] \in Seq([exit: Exits, result: Results]) /\ op[o].idx \in Nat
      /\ Len(reports[o]) \in Nat
  <2>1. OpType /\ OpShape(o) /\ OpHistory(o) /\ op[o].pc = "observe"
    BY DEF SafetyInv, TypeOK, OpType, Shape, HistoryInv, Observe
  <2>2. reports[o] \in Seq([exit: Exits, result: Results])
    BY DEF SafetyInv, TypeOK
  <2>3. op[o] \in Task
    BY DEF SafetyInv, TypeOK
  <2>4. QED
    BY <2>1, <2>2, <2>3 DEF Task
<1>2. /\ UNCHANGED <<plan, carried>> /\ Return(o, out)
      /\ reports' = [reports EXCEPT ![o] = Append(@, entry)]
  BY DEF Observe
<1>3. /\ op'[o].attempt = op[o].attempt
      /\ \A q \in Ops \ {o} : op'[q] = op[q]
      /\ \/ op'[o].pc = "done" /\ op'[o].idx = op[o].idx
         \/ plan[o].tunnel /\ op'[o].pc = "look" /\ op'[o].idx = op[o].idx + 1
      /\ ~plan[o].tunnel => op'[o].outcome \in {"response", "failed"}
  <2>1. CASE TryNext(o) /\ plan[o].tunnel
    BY <1>1, <2>1, TryNextPlace
  <2>2. CASE \E how \in {"response", "failed"} : Finish(o, how)
    BY <1>1, <2>2 DEF Finish, OpType, Task
  <2>3. QED
    BY <1>2, <2>1, <2>2 DEF Return
<1>4. /\ reports'[o] = Append(reports[o], entry)
      /\ \A q \in Ops \ {o} : reports'[q] = reports[q]
  BY <1>2 DEF SafetyInv, TypeOK
<1>5. Only(o)
  BY <1>2, <1>3, <1>4 DEF Only
<1>6. Len(reports'[o]) = Len(reports[o]) + 1
  BY <1>1, <1>4
<1>7. CASE plan[o].tunnel
  <2>1. op[o].attempt = 0
    BY <1>1, <1>7 DEF OpShape
  <2>2. AttemptsShape(o)'
    BY <1>1, <1>2, <1>3, <2>1 DEF OpHistory, AttemptsShape
  <2>3. TunnelShape(o)'
    BY <1>1, <1>3, <1>6, <1>7 DEF OpHistory, TunnelShape
  <2>4. QED
    BY <1>2, <1>5, <1>7, <2>2, <2>3, OthersKeep DEF OpHistory
<1>8. CASE ~plan[o].tunnel
  <2>1. /\ op'[o].pc = "done" /\ op'[o].idx = op[o].idx
        /\ op'[o].outcome \in {"response", "failed"}
    BY <1>3, <1>8
  <2>2. Exit(o)' = Exit(o)
    BY <1>2, <2>1 DEF Exit
  <2>3. AttemptsShape(o)'
    BY <1>1, <1>2, <1>3, <2>1, <2>2 DEF OpHistory, AttemptsShape
  <2>4. reports[o] = <<>>
    BY <1>1, <1>8 DEF OpHistory, ReportShape
  <2>5. Len(reports'[o]) = 1 /\ reports'[o][1].exit = Exit(o)
    BY <1>4, <2>4
  <2>6. ReportShape(o)'
    BY <2>1, <2>2, <2>5 DEF ReportShape
  <2>7. QED
    BY <1>2, <1>5, <1>8, <2>3, <2>6, OthersKeep DEF OpHistory
<1>9. QED
  BY <1>7, <1>8
-----------------------------------------------------------------------------
(* The theorems. *)

LEMMA InitHistory == Init => HistoryInv
<1> SUFFICES ASSUME Init, NEW o \in Ops PROVE OpHistory(o)
  BY DEF HistoryInv
<1>1. /\ op[o].pc = "idle" /\ op[o].idx = 1 /\ op[o].attempt = 0
      /\ carried[o] = <<>> /\ reports[o] = <<>>
  BY DEF Init
<1>2. QED
  BY <1>1 DEF OpHistory, AttemptsShape, ReportShape, TunnelShape

\* The monitor, the clock and the network move no operation.
LEMMA StandsStill ==
    ASSUME HistoryInv, UNCHANGED <<op, plan, carried, reports>>
    PROVE  HistoryInv'
BY DEF HistoryInv, OpHistory, AttemptsShape, ReportShape, TunnelShape, Exit

LEMMA NextHistory == SafetyInv /\ HistoryInv /\ [Next]_vars => HistoryInv'
<1> SUFFICES ASSUME SafetyInv, HistoryInv, [Next]_vars PROVE HistoryInv'
  OBVIOUS
<1>1. CASE \E o \in Ops : OpStep(o)
  <2>1. PICK o \in Ops : OpStep(o)
    BY <1>1
  <2>2. QED
    BY <2>1, QuietSteps, ExpireKeeps, LookSteps, SelectSteps, GateStep, AnswerSteps,
       AttemptKeeps, ObserveKeeps DEF OpStep
<1>2. CASE \/ RoundBegins
           \/ \E c \in Cells : MonitorStep(c) \/ Elapse(c)
           \/ \E e \in Exits, w \in Weather : Turn(e, w)
  <2>1. UNCHANGED <<op, plan, carried, reports>>
    BY <1>2 DEF RoundBegins, MonitorStep, Inspect, Commit, Elapse, Turn, historyVars
  <2>2. QED
    BY <2>1, StandsStill
<1>3. CASE UNCHANGED vars
  BY <1>3, StandsStill DEF vars
<1>4. QED
  BY <1>1, <1>2, <1>3 DEF Next

LEMMA HistoryKept == Spec => [](SafetyInv /\ HistoryInv)
<1>1. Init => SafetyInv /\ HistoryInv
  BY InitSafety, InitHistory
<1>2. SafetyInv /\ HistoryInv /\ [Next]_vars => (SafetyInv /\ HistoryInv)'
  BY NextSafety, NextHistory
<1>3. QED
  BY <1>1, <1>2, PTL DEF Spec

\* A logical request contributes one observation, however many attempts it
\* made, of the exit that carried the last one; one that was given up none.
THEOREM ObservedOnce == Spec => []OneObservation
<1>1. SafetyInv /\ HistoryInv => OneObservation
  <2> SUFFICES ASSUME SafetyInv, HistoryInv, NEW o \in Ops
               PROVE  /\ ~plan[o].tunnel =>
                           /\ Len(reports[o]) = (IF op[o].outcome \in {"response", "failed"} THEN 1 ELSE 0)
                           /\ reports[o] # <<>> /\ carried[o] # <<>> =>
                                reports[o][1].exit = carried[o][Len(carried[o])]
                      /\ plan[o].tunnel => Len(reports[o]) <= op[o].idx
    BY DEF OneObservation
  <2>1. /\ OpShape(o) /\ OpHistory(o) /\ op[o].idx \in Nat
        /\ Len(reports[o]) \in Nat /\ carried[o] \in Seq(Exits)
    BY DEF SafetyInv, TypeOK, Shape, HistoryInv, Task
  <2>2. CASE plan[o].tunnel
    BY <2>1, <2>2 DEF OpHistory, TunnelShape
  <2>3. CASE ~plan[o].tunnel
    <3>1. ReportShape(o) /\ AttemptsShape(o)
      BY <2>1, <2>3 DEF OpHistory
    <3>2. Len(reports[o]) = (IF op[o].outcome \in {"response", "failed"} THEN 1 ELSE 0)
      BY <2>1, <3>1 DEF ReportShape, OpShape, Outcomes
    <3>3. ASSUME reports[o] # <<>>, carried[o] # <<>>
          PROVE  reports[o][1].exit = carried[o][Len(carried[o])]
      <4>1. reports[o][1].exit = Exit(o)
        BY <3>1, <3>3 DEF ReportShape
      <4>2. Len(carried[o]) \in 1 .. Len(carried[o])
        BY <2>1, <3>3
      <4>3. QED
        BY <3>1, <4>1, <4>2 DEF AttemptsShape
    <3>4. QED
      BY <2>3, <3>2, <3>3
  <2>4. QED
    BY <2>2, <2>3
<1>2. QED
  BY <1>1, HistoryKept, PTL

\* A request's payload goes to one exit, at most three times, and only a
\* plain GET goes there more than once.
THEOREM SentThroughOne == Spec => []NoReplay
<1>1. SafetyInv /\ HistoryInv => NoReplay
  <2> SUFFICES ASSUME SafetyInv, HistoryInv, NEW o \in Ops
               PROVE  /\ \A i, j \in 1 .. Len(carried[o]) : carried[o][i] = carried[o][j]
                      /\ Len(carried[o]) <= (IF plan[o].retryable THEN Attempts ELSE 1)
    BY DEF NoReplay
  <2>1. AttemptsShape(o) /\ op[o].attempt \in 0 .. Attempts
    BY DEF HistoryInv, OpHistory, SafetyInv, TypeOK, Task
  <2>2. QED
    BY <2>1 DEF AttemptsShape, Attempts
<1>2. QED
  BY <1>1, HistoryKept, PTL
=============================================================================
