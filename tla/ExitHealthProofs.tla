-------------------------- MODULE ExitHealthProofs --------------------------
(***************************************************************************)
(* The route health cache implements ExitHealth, and stays bounded, for    *)
(* every number of operations, exits and cells and every capacity.         *)
(***************************************************************************)
EXTENDS RouteHealthProofs, FiniteSetTheorems

\* Short of its verdict, a cell has counted few failures, and none before it
\* has heard anything.
GradeShape(h) ==
    /\ ~h.initialized => h.failures = 0 /\ ~h.unavailable
    /\ h.initialized /\ ~h.unavailable => h.failures <= 2

\* Routes share no cell, and there are not too many of them.
CacheInv ==
    /\ \A j, k \in Keys : probes[j] = probes[k] /\ probes[j] # NoCell => j = k
    /\ \A c \in Cells : GradeShape(health[c])
    /\ IsFiniteSet(Cached) /\ Cardinality(Cached) <= Capacity
-----------------------------------------------------------------------------
(* Every step is one of three kinds                                        *)

\* The verdict of no cell changes.
Quiet ==
    /\ UNCHANGED <<probes, heard>>
    /\ \A c \in Cells : /\ health'[c].initialized = health[c].initialized
                        /\ health'[c].failures    = health[c].failures
                        /\ health'[c].unavailable = health[c].unavailable

Hears(c, r) == probes' = probes /\ ObserveCell(c, r)

LEMMA QuietFlag ==
    ASSUME SafetyInv, UNCHANGED <<probes, heard>>, NEW c \in Cells, NEW flag \in BOOLEAN,
           \/ health' = [health EXCEPT ![c].monitored = flag]
           \/ health' = [health EXCEPT ![c].due = flag]
    PROVE  Quiet
<1>1. health \in [Cells -> ProbeHealth]
  BY DEF SafetyInv, TypeOK
<1>2. health[c] \in ProbeHealth
  BY <1>1
<1>3. ASSUME NEW h \in ProbeHealth, health' = [health EXCEPT ![c] = h],
             h.initialized = health[c].initialized, h.failures = health[c].failures,
             h.unavailable = health[c].unavailable
      PROVE  Quiet
  BY <1>1, <1>3 DEF Quiet
<1>4. CASE health' = [health EXCEPT ![c].monitored = flag]
  <2> DEFINE h == [health[c] EXCEPT !.monitored = flag]
  <2>1. /\ h \in ProbeHealth /\ h.initialized = health[c].initialized
        /\ h.failures = health[c].failures /\ h.unavailable = health[c].unavailable
    BY <1>2 DEF ProbeHealth
  <2>2. health' = [health EXCEPT ![c] = h]
    BY <1>4
  <2> HIDE DEF h
  <2>3. QED
    BY <1>3, <2>1, <2>2
<1>5. CASE health' = [health EXCEPT ![c].due = flag]
  <2> DEFINE h == [health[c] EXCEPT !.due = flag]
  <2>1. /\ h \in ProbeHealth /\ h.initialized = health[c].initialized
        /\ h.failures = health[c].failures /\ h.unavailable = health[c].unavailable
    BY <1>2 DEF ProbeHealth
  <2>2. health' = [health EXCEPT ![c] = h]
    BY <1>5
  <2> HIDE DEF h
  <2>3. QED
    BY <1>3, <2>1, <2>2
<1>6. QED
  BY <1>4, <1>5

LEMMA StepKinds ==
    ASSUME SafetyInv, [Next]_vars
    PROVE  \/ Quiet
           \/ \E c \in Cells, r \in Results : Hears(c, r)
           \/ \E k \in Keys, c \in Cells : HealthState(k, c)
<1>t. TypeOK /\ \A o \in Ops : OpShape(o)
  BY DEF SafetyInv, Shape
<1>q. ASSUME UNCHANGED <<probes, health, heard>> PROVE Quiet
  BY <1>q DEF Quiet
<1>1. ASSUME NEW o \in Ops, Begin(o) \/ Expire(o) \/ Cancel(o) \/ SelectTimeout(o) \/ NoClient(o)
                            \/ Attempt(o) \/ \E out \in Outcomes : Answered(o, out) \/ Dialed(o, out)
      PROVE  Quiet
  BY <1>1, <1>q DEF Begin, Expire, Cancel, SelectTimeout, NoClient, Attempt, Answered, Dialed, historyVars
<1>2. ASSUME NEW o \in Ops, NEW c \in Cells, SelectLook(o, c) \/ ConnectLook(o, c) \/ Report(o, c)
      PROVE  Quiet \/ HealthState(Route(o), c)
  BY <1>2, <1>q DEF SelectLook, ConnectLook, Report
<1>3. ASSUME NEW o \in Ops, SelectLock(o) \/ ConnectGate(o)
      PROVE  Quiet
  <2>1. op[o].cell \in Cells /\ op[o].pc \in {"lock", "gate"}
    BY <1>3, <1>t DEF SelectLock, ConnectGate, OpShape
  <2>2. UNCHANGED <<probes, heard>>
    BY <1>3 DEF SelectLock, ConnectGate, historyVars
  <2>3. PICK c \in Cells : c = op[o].cell
    BY <2>1
  <2>4. CASE SelectLock(o)
    BY <2>2, <2>3, <2>4, QuietFlag DEF SelectLock
  <2>5. CASE ConnectGate(o)
    <3>1. (health[c].monitored \/ plan[o].list) \in BOOLEAN
      BY <1>t, KeyTypes DEF TypeOK, ProbeHealth, PlanType
    <3>2. health' = [health EXCEPT ![c].monitored = (health[c].monitored \/ plan[o].list)]
      BY <2>3, <2>5 DEF ConnectGate
    <3>3. QED
      BY <2>2, <3>1, <3>2, QuietFlag
  <2>6. QED
    BY <1>3, <2>4, <2>5
<1>4. ASSUME NEW o \in Ops, NEW r \in Results, SelectProbed(o, r)
      PROVE  \E c \in Cells : Hears(c, r)
  BY <1>4, <1>t DEF SelectProbed, OpShape, Hears
<1>5. ASSUME NEW o \in Ops, Observe(o)
      PROVE  \E c \in Cells, r \in Results : Hears(c, r)
  <2>1. op[o].cell \in Cells /\ op[o].outcome \in Outcomes
    BY <1>5, <1>t DEF Observe, OpShape
  <2>2. Health[op[o].outcome] \in Results
    BY <2>1 DEF Outcomes, Health, Results
  <2>3. Hears(op[o].cell, Health[op[o].outcome])
    BY <1>5 DEF Observe, Hears
  <2>4. QED
    BY <2>1, <2>2, <2>3
<1>6. ASSUME NEW o \in Ops, OpStep(o)
      PROVE  \/ Quiet
             \/ \E c \in Cells, r \in Results : Hears(c, r)
             \/ \E k \in Keys, c \in Cells : HealthState(k, c)
  <2>1. Route(o) \in Keys
    BY <1>t, KeyTypes
  <2>2. QED
    BY <1>1, <1>2, <1>3, <1>4, <1>5, <1>6, <2>1 DEF OpStep
<1>7. CASE RoundBegins
  BY <1>7, <1>q DEF RoundBegins, historyVars
<1>8. ASSUME NEW c \in Cells, MonitorStep(c)
      PROVE  Quiet \/ \E r \in Results : Hears(c, r)
  <2>1. CASE Inspect(c)
    BY <2>1, <1>q DEF Inspect
  <2>2. CASE \E r \in Results : Commit(c, r)
    BY <2>2, <1>q DEF Commit, Hears
  <2>3. QED
    BY <1>8, <2>1, <2>2 DEF MonitorStep
<1>9. ASSUME NEW c \in Cells, Elapse(c)
      PROVE  Quiet
  BY <1>9, QuietFlag DEF Elapse, historyVars
<1>10. ASSUME NEW e \in Exits, NEW w \in Weather, Turn(e, w)
       PROVE  Quiet
  BY <1>10, <1>q DEF Turn, historyVars
<1>11. CASE UNCHANGED vars
  BY <1>11, <1>q DEF vars, historyVars
<1>12. QED
  BY <1>6, <1>7, <1>8, <1>9, <1>10, <1>11 DEF Next
-----------------------------------------------------------------------------
(* The invariant of the cache *)

LEMMA Grades ==
    ASSUME NEW h
    PROVE  /\ h.initialized = FALSE => Grade(h) = "unknown"
           /\ h.initialized = TRUE /\ h.unavailable = TRUE => Grade(h) = "unavailable"
           /\ h.initialized = TRUE /\ h.unavailable = FALSE =>
                 /\ h.failures = 0 => Grade(h) = "healthy"
                 /\ h.failures = 1 => Grade(h) = "suspect1"
                 /\ h.failures = 2 => Grade(h) = "suspect2"
<1>1. CASE h.initialized = TRUE /\ h.unavailable = FALSE
  <2>1. Grade(h) = <<"healthy", "suspect1", "suspect2">>[h.failures + 1]
    BY <1>1 DEF Grade
  <2>2. CASE h.failures = 0
    BY <1>1, <2>1, <2>2
  <2>3. CASE h.failures = 1
    BY <1>1, <2>1, <2>3
  <2>4. CASE h.failures = 2
    BY <1>1, <2>1, <2>4
  <2>5. QED
    BY <1>1, <2>2, <2>3, <2>4
<1>2. CASE ~(h.initialized = TRUE /\ h.unavailable = FALSE)
  BY <1>2 DEF Grade
<1>3. QED
  BY <1>1, <1>2

LEMMA Judgements ==
    /\ \A v : Promise!Judge(v, "Healthy") = "healthy" /\ Promise!Judge(v, "HardFailure") = "unavailable"
    /\ Promise!Judge("unknown", "Transient") = "suspect1"
    /\ Promise!Judge("healthy", "Transient") = "suspect1"
    /\ Promise!Judge("suspect1", "Transient") = "suspect2"
    /\ Promise!Judge("suspect2", "Transient") = "unavailable"
    /\ Promise!Judge("unavailable", "Transient") = "unavailable"
BY DEF Promise!Judge, Promise!Worse

\* What one observation makes of a cell, and of its grade.
LEMMA ObservedGrade ==
    ASSUME NEW h \in ProbeHealth, NEW r \in Results, GradeShape(h)
    PROVE  /\ GradeShape(Observed(h, r))
           /\ Grade(Observed(h, r)) = Promise!Judge(Grade(h), r)
<1> DEFINE f == IF r = "Healthy" THEN 0 ELSE SaturatingSucc(h.failures)
           g == Observed(h, r)
<1>1. /\ g.initialized = TRUE /\ g.failures = f
      /\ g.unavailable = (r = "HardFailure" \/ (r = "Transient" /\ (h.unavailable \/ f >= 3)))
  BY DEF Observed, ProbeHealth
<1>2. /\ h.failures \in Nat /\ (h.failures <= 2 => SaturatingSucc(h.failures) = h.failures + 1)
      /\ h.initialized \in BOOLEAN /\ h.unavailable \in BOOLEAN
  BY ConstantsAssumption DEF ProbeHealth, SaturatingSucc
<1> HIDE DEF g
<1>3. CASE r = "Healthy"
  <2>1. g.initialized = TRUE /\ g.unavailable = FALSE /\ g.failures = 0
    BY <1>1, <1>3
  <2>2. Grade(g) = "healthy"
    BY <2>1, Grades
  <2>3. GradeShape(g)
    BY <2>1 DEF GradeShape
  <2>4. QED
    BY <1>3, <2>2, <2>3, Judgements DEF g
<1>4. CASE r = "HardFailure"
  <2>1. g.initialized = TRUE /\ g.unavailable = TRUE
    BY <1>1, <1>4
  <2>2. Grade(g) = "unavailable" /\ GradeShape(g)
    BY <2>1, Grades DEF GradeShape
  <2>3. QED
    BY <1>4, <2>2, Judgements DEF g
<1>5. CASE r = "Transient"
  <2>1. CASE h.unavailable = TRUE
    <3>1. g.initialized = TRUE /\ g.unavailable = TRUE /\ h.initialized = TRUE
      BY <1>1, <1>2, <1>5, <2>1 DEF GradeShape
    <3>2. Grade(g) = "unavailable" /\ GradeShape(g) /\ Grade(h) = "unavailable"
      BY <2>1, <3>1, Grades DEF GradeShape
    <3>3. QED
      BY <1>5, <3>2, Judgements DEF g
  <2>2. CASE h.unavailable = FALSE
    <3>1. h.failures \in {0, 1, 2} /\ f = h.failures + 1
      BY <1>2, <1>5, <2>2 DEF GradeShape
    <3> HIDE DEF f
    <3>0. g.unavailable = (f >= 3)
      <4>1. (r = "HardFailure" \/ (r = "Transient" /\ (h.unavailable \/ f >= 3))) = (f >= 3)
        BY <1>5, <2>2
      <4>2. QED
        BY <1>1, <4>1
    <3>2. /\ h.failures = 2 => g.unavailable = TRUE
          /\ h.failures # 2 => g.unavailable = FALSE
      <4>1. /\ h.failures = 2 => (f >= 3) = TRUE
            /\ h.failures # 2 => (f >= 3) = FALSE
        BY <3>1
      <4>2. QED
        BY <3>0, <4>1
    <3>3. CASE h.failures = 2
      <4>1. g.unavailable = TRUE /\ h.initialized = TRUE
        BY <1>2, <3>2, <3>3 DEF GradeShape
      <4>2. Grade(g) = "unavailable" /\ GradeShape(g) /\ Grade(h) = "suspect2"
        BY <1>1, <2>2, <3>3, <4>1, Grades DEF GradeShape
      <4>3. QED
        BY <1>5, <4>2, Judgements DEF g
    <3>4. CASE h.failures = 1
      <4>1. g.unavailable = FALSE /\ h.initialized = TRUE
        BY <1>2, <3>2, <3>4 DEF GradeShape
      <4>0. g.failures = 2
        BY <1>1, <3>1, <3>4
      <4>2. Grade(g) = "suspect2" /\ Grade(h) = "suspect1"
        BY <1>1, <2>2, <3>4, <4>0, <4>1, Grades
      <4>3. GradeShape(g)
        BY <1>1, <4>0, <4>1 DEF GradeShape
      <4>4. QED
        BY <1>5, <4>2, <4>3, Judgements DEF g
    <3>5. CASE h.failures = 0
      <4>0. g.failures = 1
        BY <1>1, <3>1, <3>5
      <4>1. g.unavailable = FALSE
        BY <3>2, <3>5
      <4>2. Grade(g) = "suspect1" /\ Grade(h) \in {"unknown", "healthy"}
        BY <1>1, <1>2, <2>2, <3>5, <4>0, <4>1, Grades
      <4>3. GradeShape(g)
        BY <1>1, <4>0, <4>1 DEF GradeShape
      <4>4. QED
        BY <1>5, <4>2, <4>3, Judgements DEF g
    <3>6. QED
      BY <3>1, <3>3, <3>4, <3>5
  <2>3. QED
    BY <1>2, <2>1, <2>2
<1>6. QED
  BY <1>3, <1>4, <1>5 DEF Results

\* A lookup leaves the cache alone or gives route k a fresh cell, in the
\* place of another route's if need be.
LEMMA LookupEffect ==
    ASSUME CacheInv, NEW k \in Keys, NEW c \in Cells, HealthState(k, c)
    PROVE  \/ UNCHANGED <<probes, health, heard>>
           \/ /\ probes[k] = NoCell /\ Free(c)
              /\ health' = [health EXCEPT ![c] = Fresh(k)]
              /\ heard' = [heard EXCEPT ![c] = "none"]
              /\ \/ /\ Cardinality(Cached) < Capacity
                    /\ probes' = [probes EXCEPT ![k] = c]
                 \/ \E old \in Cached : probes' = [probes EXCEPT ![old] = NoCell, ![k] = c]
<1>1. CASE ~(Cardinality(Cached) >= Capacity)
  <2>1. Cardinality(Cached) \in Nat
    BY FS_CardinalityType DEF CacheInv
  <2>2. Cardinality(Cached) < Capacity
    BY <1>1, <2>1, ConstantsAssumption
  <2>3. QED
    BY <1>1, <2>2 DEF HealthState
<1>2. CASE Cardinality(Cached) >= Capacity
  BY <1>2 DEF HealthState
<1>3. QED
  BY <1>1, <1>2

LEMMA InitCache == Init => CacheInv
<1> SUFFICES ASSUME Init PROVE CacheInv
  OBVIOUS
<1>1. Cached = {}
  BY DEF Init, Cached
<1>2. IsFiniteSet(Cached) /\ Cardinality(Cached) <= Capacity
  BY <1>1, FS_EmptySet, ConstantsAssumption
<1>3. \A c \in Cells : GradeShape(health[c])
  BY DEF Init, Fresh, GradeShape
<1>4. QED
  BY <1>2, <1>3 DEF Init, CacheInv

LEMMA CacheStep ==
    ASSUME SafetyInv, CacheInv, [Next]_vars
    PROVE  CacheInv'
<1>t. TypeOK
  BY DEF SafetyInv
<1>1. CASE Quiet
  <2>1. Cached' = Cached
    BY <1>1 DEF Quiet, Cached
  <2>2. \A c \in Cells : GradeShape(health[c])'
    BY <1>1 DEF Quiet, GradeShape, CacheInv
  <2>3. QED
    BY <1>1, <2>1, <2>2 DEF Quiet, CacheInv
<1>2. ASSUME NEW c \in Cells, NEW r \in Results, Hears(c, r)
      PROVE  CacheInv'
  <2>1. probes' = probes /\ health' = [health EXCEPT ![c] = Observed(health[c], r)]
    BY <1>2 DEF Hears, ObserveCell
  <2>2. GradeShape(Observed(health[c], r))
    BY <1>t, ObservedGrade DEF TypeOK, CacheInv
  <2>3. \A d \in Cells : GradeShape(health'[d])
    BY <1>t, <2>1, <2>2 DEF TypeOK, CacheInv
  <2>4. Cached' = Cached
    BY <2>1 DEF Cached
  <2>5. QED
    BY <2>1, <2>3, <2>4 DEF CacheInv
<1>3. ASSUME NEW k \in Keys, NEW c \in Cells, HealthState(k, c)
      PROVE  CacheInv'
  <2>1. CASE UNCHANGED <<probes, health, heard>>
    <3>1. Cached' = Cached
      BY <2>1 DEF Cached
    <3>2. QED
      BY <2>1, <3>1 DEF CacheInv
  <2>2. CASE /\ probes[k] = NoCell /\ Free(c)
             /\ health' = [health EXCEPT ![c] = Fresh(k)]
             /\ \E old \in Cached : probes' = [probes EXCEPT ![old] = NoCell, ![k] = c]
    <3>1. PICK old \in Cached : probes' = [probes EXCEPT ![old] = NoCell, ![k] = c]
      BY <2>2
    <3>2. old \in Keys /\ old # k /\ c # NoCell
      BY <2>2, ConstantsAssumption DEF Cached
    <3>3. /\ probes'[old] = NoCell /\ probes'[k] = c
          /\ \A j \in Keys \ {old, k} : probes'[j] = probes[j]
      BY <1>t, <3>1, <3>2 DEF TypeOK
    <3>4. \A j \in Keys : probes[j] # c
      BY <2>2 DEF Free
    <3>5. \A i, j \in Keys : probes'[i] = probes'[j] /\ probes'[i] # NoCell => i = j
      BY <3>3, <3>4 DEF CacheInv
    <3>6. Cached' = (Cached \ {old}) \cup {k} /\ k \notin Cached
      BY <2>2, <3>2, <3>3 DEF Cached
    <3>7. IsFiniteSet(Cached') /\ Cardinality(Cached') = Cardinality(Cached)
      <4>1. IsFiniteSet(Cached \ {old}) /\ Cardinality(Cached \ {old}) = Cardinality(Cached) - 1
        BY FS_RemoveElement DEF CacheInv
      <4>2. /\ IsFiniteSet((Cached \ {old}) \cup {k})
            /\ Cardinality((Cached \ {old}) \cup {k}) = Cardinality(Cached \ {old}) + 1
        BY <3>6, <4>1, FS_AddElement
      <4>3. Cardinality(Cached) \in Nat
        BY FS_CardinalityType DEF CacheInv
      <4>4. QED
        BY <3>6, <4>1, <4>2, <4>3
    <3>8. \A d \in Cells : GradeShape(health'[d])
      BY <1>t, <2>2 DEF TypeOK, CacheInv, GradeShape, Fresh
    <3>9. QED
      BY <3>5, <3>7, <3>8 DEF CacheInv
  <2>3. CASE /\ probes[k] = NoCell /\ Free(c)
             /\ health' = [health EXCEPT ![c] = Fresh(k)]
             /\ Cardinality(Cached) < Capacity /\ probes' = [probes EXCEPT ![k] = c]
    <3>1. c # NoCell /\ (\A j \in Keys : probes[j] # c)
      BY <2>3, ConstantsAssumption DEF Free
    <3>2. probes'[k] = c /\ \A j \in Keys \ {k} : probes'[j] = probes[j]
      BY <1>t, <2>3 DEF TypeOK
    <3>3. \A i, j \in Keys : probes'[i] = probes'[j] /\ probes'[i] # NoCell => i = j
      BY <3>1, <3>2 DEF CacheInv
    <3>4. Cached' = Cached \cup {k} /\ k \notin Cached
      BY <2>3, <3>1, <3>2 DEF Cached
    <3>5. IsFiniteSet(Cached') /\ Cardinality(Cached') = Cardinality(Cached) + 1
      BY <3>4, FS_AddElement DEF CacheInv
    <3>6. Cardinality(Cached) \in Nat
      BY FS_CardinalityType DEF CacheInv
    <3>7. Cardinality(Cached') <= Capacity
      BY <2>3, <3>5, <3>6, ConstantsAssumption
    <3>8. \A d \in Cells : GradeShape(health'[d])
      BY <1>t, <2>3 DEF TypeOK, CacheInv, GradeShape, Fresh
    <3>9. QED
      BY <3>3, <3>5, <3>7, <3>8 DEF CacheInv
  <2>4. QED
    BY <1>3, <2>1, <2>2, <2>3, LookupEffect
<1>4. QED
  BY <1>1, <1>2, <1>3, StepKinds

LEMMA CacheSound == Spec => [](SafetyInv /\ CacheInv)
<1>1. Init => SafetyInv /\ CacheInv
  BY InitSafety, InitCache
<1>2. (SafetyInv /\ CacheInv) /\ [Next]_vars => (SafetyInv /\ CacheInv)'
  BY NextSafety, CacheStep
<1>3. QED
  BY <1>1, <1>2, PTL DEF Spec

\* The cache never has more than Capacity routes, whatever number of
\* operations make entries while others use theirs.
THEOREM NeverOverfull == Spec => []CacheBounded
<1>1. CacheInv => CacheBounded
  BY DEF CacheInv, CacheBounded
<1>2. QED
  BY <1>1, CacheSound, PTL
-----------------------------------------------------------------------------
(* The refinement *)

Verdict == [k \in Keys |-> IF probes[k] = NoCell THEN "unknown" ELSE Grade(health[probes[k]])]

Evidence == [k \in Keys |-> IF probes[k] = NoCell THEN "none" ELSE heard[probes[k]]]

\* An observation of a cell is heard by its route, or by none if the route
\* has been dropped or given another cell since.
LEMMA HearsMaps ==
    ASSUME SafetyInv, CacheInv, NEW c \in Cells, NEW r \in Results, Hears(c, r)
    PROVE  \/ UNCHANGED <<Verdict, Evidence>>
           \/ \E k \in Keys : Promise!Hear(k, r)
<1>t. TypeOK
  BY DEF SafetyInv
<1>1. /\ probes' = probes
      /\ health' = [health EXCEPT ![c] = Observed(health[c], r)]
      /\ heard' = [heard EXCEPT ![c] = r]
  BY DEF Hears, ObserveCell
<1>2. /\ health'[c] = Observed(health[c], r) /\ heard'[c] = r
      /\ \A d \in Cells \ {c} : health'[d] = health[d] /\ heard'[d] = heard[d]
  BY <1>t, <1>1 DEF TypeOK
<1>3. \A j \in Keys : probes[j] \in Cells \cup {NoCell}
  BY <1>t DEF TypeOK
<1>4. CASE \A k \in Keys : probes[k] # c
  <2>1. \A k \in Keys : probes[k] # NoCell => /\ health'[probes[k]] = health[probes[k]]
                                              /\ heard'[probes[k]] = heard[probes[k]]
    BY <1>2, <1>3, <1>4
  <2>2. \A k \in Keys : Verdict'[k] = Verdict[k] /\ Evidence'[k] = Evidence[k]
    BY <1>1, <2>1 DEF Verdict, Evidence, Grade
  <2>3. QED
    BY <2>2 DEF Verdict, Evidence
<1>5. ASSUME NEW k \in Keys, probes[k] = c
      PROVE  Promise!Hear(k, r)
  <2>1. c # NoCell /\ \A j \in Keys \ {k} : probes[j] # c
    BY <1>5, ConstantsAssumption DEF CacheInv
  <2>2. \A j \in Keys \ {k} : Verdict'[j] = Verdict[j] /\ Evidence'[j] = Evidence[j]
    BY <1>1, <1>2, <1>3, <2>1 DEF Verdict, Evidence, Grade
  <2>3. Verdict[k] = Grade(health[c]) /\ Verdict'[k] = Grade(health[c])' /\ Evidence'[k] = r
    BY <1>1, <1>2, <1>5, <2>1 DEF Verdict, Evidence, Grade
  <2>4. Grade(health[c])' = Promise!Judge(Grade(health[c]), r)
    <3>1. Grade(Observed(health[c], r)) = Promise!Judge(Grade(health[c]), r)
      BY <1>t, ObservedGrade DEF TypeOK, CacheInv
    <3>2. Grade(health[c])' = Grade(Observed(health[c], r))
      BY <1>2 DEF Grade
    <3>3. QED
      BY <3>1, <3>2
  <2>5. Verdict' = [Verdict EXCEPT ![k] = Promise!Judge(@, r)]
    BY <2>2, <2>3, <2>4 DEF Verdict
  <2>6. Evidence' = [Evidence EXCEPT ![k] = r]
    BY ZenonT(60), <2>2, <2>3 DEF Evidence
  <2>7. QED
    BY <2>5, <2>6 DEF Promise!Hear, Verdict, Evidence
<1>6. QED
  BY <1>4, <1>5

\* A lookup that makes room drops what is known of one route; a fresh cell
\* says of its route what no cell does.
LEMMA LookupMaps ==
    ASSUME SafetyInv, CacheInv, NEW k \in Keys, NEW c \in Cells, HealthState(k, c)
    PROVE  \/ UNCHANGED <<Verdict, Evidence>>
           \/ \E old \in Keys : Promise!Forget(old)
<1>t. TypeOK
  BY DEF SafetyInv
<1>1. CASE UNCHANGED <<probes, health, heard>>
  BY <1>1 DEF Verdict, Evidence, Grade
<1>2. CASE /\ probes[k] = NoCell /\ Free(c)
           /\ health' = [health EXCEPT ![c] = Fresh(k)]
           /\ heard' = [heard EXCEPT ![c] = "none"]
           /\ \/ probes' = [probes EXCEPT ![k] = c]
              \/ \E old \in Cached : probes' = [probes EXCEPT ![old] = NoCell, ![k] = c]
  <2>1. /\ health'[c] = Fresh(k) /\ heard'[c] = "none"
        /\ \A d \in Cells \ {c} : health'[d] = health[d] /\ heard'[d] = heard[d]
    BY <1>t, <1>2 DEF TypeOK
  <2>2. c # NoCell /\ \A j \in Keys : probes[j] \in Cells \cup {NoCell} /\ probes[j] # c
    BY <1>t, <1>2, ConstantsAssumption DEF TypeOK, Free
  <2>3. Grade(health[c])' = "unknown"
    BY <2>1 DEF Grade, Fresh
  <2>4. ASSUME probes'[k] = c
        PROVE  Verdict'[k] = Verdict[k] /\ Evidence'[k] = Evidence[k]
    BY <1>2, <2>1, <2>2, <2>3, <2>4 DEF Verdict, Evidence, Grade
  <2>5. ASSUME NEW j \in Keys, probes'[j] = probes[j]
        PROVE  Verdict'[j] = Verdict[j] /\ Evidence'[j] = Evidence[j]
    BY <2>1, <2>2, <2>5 DEF Verdict, Evidence, Grade
  <2>6. CASE probes' = [probes EXCEPT ![k] = c]
    <3>1. probes'[k] = c /\ \A j \in Keys \ {k} : probes'[j] = probes[j]
      BY <1>t, <2>6 DEF TypeOK
    <3>2. \A j \in Keys : Verdict'[j] = Verdict[j] /\ Evidence'[j] = Evidence[j]
      BY <2>4, <2>5, <3>1
    <3>3. QED
      BY <3>2 DEF Verdict, Evidence
  <2>7. CASE \E old \in Cached : probes' = [probes EXCEPT ![old] = NoCell, ![k] = c]
    <3>1. PICK old \in Cached : probes' = [probes EXCEPT ![old] = NoCell, ![k] = c]
      BY <2>7
    <3>2. old \in Keys /\ old # k
      BY <1>2, <3>1 DEF Cached
    <3>3. /\ probes'[old] = NoCell /\ probes'[k] = c
          /\ \A j \in Keys \ {old, k} : probes'[j] = probes[j]
      BY <1>t, <3>1, <3>2 DEF TypeOK
    <3>4. \A j \in Keys \ {old} : Verdict'[j] = Verdict[j] /\ Evidence'[j] = Evidence[j]
      BY <2>4, <2>5, <3>3
    <3>5. Verdict'[old] = "unknown" /\ Evidence'[old] = "none"
      BY <3>2, <3>3 DEF Verdict, Evidence
    <3>6. Verdict' = [Verdict EXCEPT ![old] = "unknown"] /\ Evidence' = [Evidence EXCEPT ![old] = "none"]
      BY ZenonT(60), <3>4, <3>5 DEF Verdict, Evidence
    <3>7. QED
      BY <3>2, <3>6 DEF Promise!Forget, Verdict, Evidence
  <2>8. QED
    BY <1>2, <2>6, <2>7
<1>3. QED
  BY <1>1, <1>2, LookupEffect

\* For any number of requests, probes and entries, whatever their timing:
\* what the cache says of a route is the judgement of the observations heard
\* for it, one by one, until it is dropped.
THEOREM CacheImplementsExitHealth == Spec => ImplementsExitHealth
<1>1. Init => Promise!Init
  BY DEF Init, Promise!Init
<1>2. SafetyInv /\ CacheInv /\ [Next]_vars => [Promise!Next]_(Promise!vars)
  <2>1. SUFFICES ASSUME SafetyInv, CacheInv, [Next]_vars PROVE [Promise!Next]_(Promise!vars)
    OBVIOUS
  <2>2. ASSUME UNCHANGED <<Verdict, Evidence>> PROVE [Promise!Next]_(Promise!vars)
    BY <2>2 DEF Promise!vars, Verdict, Evidence
  <2>3. CASE Quiet
    <3>1. \A k \in Keys : probes[k] # NoCell => probes[k] \in Cells
      BY <2>1 DEF SafetyInv, TypeOK
    <3>2. \A c \in Cells : Grade(health[c])' = Grade(health[c])
      BY <2>3 DEF Quiet, Grade
    <3>3. \A k \in Keys : Verdict'[k] = Verdict[k] /\ Evidence'[k] = Evidence[k]
      BY <2>3, <3>1, <3>2 DEF Quiet, Verdict, Evidence, Grade
    <3>4. QED
      BY <2>2, <3>3 DEF Verdict, Evidence
  <2>4. ASSUME NEW c \in Cells, NEW r \in Results, Hears(c, r) PROVE [Promise!Next]_(Promise!vars)
    <3>1. r \in Promise!Results
      BY DEF Results, Promise!Results
    <3>2. QED
      BY <2>1, <2>2, <2>4, <3>1, HearsMaps DEF Promise!Next
  <2>5. ASSUME NEW k \in Keys, NEW c \in Cells, HealthState(k, c) PROVE [Promise!Next]_(Promise!vars)
    BY <2>1, <2>2, <2>5, LookupMaps DEF Promise!Next
  <2>6. QED
    BY <2>1, <2>3, <2>4, <2>5, StepKinds
<1>3. QED
  BY CacheSound, <1>1, <1>2, PTL DEF Spec, ImplementsExitHealth, Promise!Spec
=============================================================================
