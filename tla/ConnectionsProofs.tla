-------------------------- MODULE ConnectionsProofs --------------------------
(***************************************************************************)
(* Theorems about Connections, for any number of connections and permits.  *)
(*                                                                         *)
(* Each action changes the record of at most one connection, so the        *)
(* invariant is that of the single records (Sound) and the count of the    *)
(* permits; ConnStep shows once that a step keeps both.                    *)
(***************************************************************************)
EXTENDS Connections, FiniteSetTheorems, TLAPS

ConnRec == [stage : Stages, client : Clients, received : BOOLEAN, ends : Seq(Outcomes)]

\* What a connection's record says of itself.  A log exists from the head that
\* the handler receives on, and not before; a request that is over has one
\* last event, and none that is not.
Sound(r) ==
    /\ r.stage \in Open => r.received
    /\ r.stage \in {"absent", "backlog", "head"} => ~r.received
    /\ Len(r.ends) = IF r.received /\ r.stage \notin Open THEN 1 ELSE 0

\* Why a cancelled request was cancelled.
Caused(r) == "request_cancelled" \in Range(r.ends) => r.client = "gone" \/ server # "serving"

Busy == {c \in Conns : conn[c].stage \in Tasked}

Inv ==
    /\ TypeOK
    /\ permits + Cardinality(Busy) = Limit
    /\ \A c \in Conns : Sound(conn[c]) /\ Caused(conn[c])

Held(r) == IF r.stage \in Tasked THEN 1 ELSE 0

----------------------------------------------------------------------------
\* Nobody is connected, and every permit is free.
LEMMA InitInv == Init => Inv
<1> SUFFICES ASSUME Init PROVE Inv
  OBVIOUS
<1>1. TypeOK
  <2>1. [stage |-> "absent", client |-> "reads", received |-> FALSE, ends |-> <<>>] \in ConnRec
    BY DEF ConnRec, Stages, Clients
  <2>2. conn \in [Conns -> ConnRec]
    BY <2>1 DEF Init
  <2>3. permits \in 0 .. Limit
    BY LimitAssumption DEF Init
  <2>4. server \in Servers /\ stopped \in BOOLEAN
    BY DEF Init, Servers
  <2> QED
    BY <2>2, <2>3, <2>4 DEF TypeOK, ConnRec
<1>2. Busy = {}
  BY DEF Init, Busy, Tasked, Open
<1>3. permits + Cardinality(Busy) = Limit
  BY <1>2, FS_EmptySet, LimitAssumption DEF Init
<1>4. ASSUME NEW c \in Conns PROVE Sound(conn[c]) /\ Caused(conn[c])
  BY DEF Init, Sound, Caused, Range, Open
<1> QED
  BY <1>1, <1>3, <1>4 DEF Inv

\* The permits add up when one connection's record changes from conn[c] to r.
LEMMA BusyStep ==
    ASSUME TypeOK, NEW c \in Conns, NEW r \in ConnRec, conn' = [conn EXCEPT ![c] = r]
    PROVE  /\ Cardinality(Busy) \in Nat /\ Cardinality(Busy') \in Nat
           /\ Cardinality(Busy') = Cardinality(Busy) + Held(r) - Held(conn[c])
           /\ c \in Busy => Cardinality(Busy) > 0
<1>1. IsFiniteSet(Busy) /\ Cardinality(Busy) \in Nat
  BY FS_Subset, FS_CardinalityType, LimitAssumption DEF Busy
<1>2. \A d \in Conns : conn'[d] = IF d = c THEN r ELSE conn[d]
  BY DEF TypeOK
<1>3. CASE c \in Busy /\ r.stage \in Tasked
  <2>1. Busy' = Busy
    BY <1>2, <1>3 DEF Busy
  <2>2. Cardinality(Busy') = Cardinality(Busy) /\ Cardinality(Busy) # 0
    BY <2>1, <1>1, <1>3, FS_EmptySet
  <2>3. Held(r) = 1 /\ Held(conn[c]) = 1
    BY <1>3 DEF Held, Busy
  <2> QED
    BY <2>2, <2>3, <1>1
<1>4. CASE c \in Busy /\ r.stage \notin Tasked
  <2>1. Busy' = Busy \ {c}
    BY <1>2, <1>4 DEF Busy
  <2>2. Cardinality(Busy') = Cardinality(Busy) - 1
    BY <2>1, <1>1, <1>4, FS_RemoveElement
  <2>3. Cardinality(Busy) # 0
    BY <1>1, <1>4, FS_EmptySet
  <2> QED
    BY <2>2, <2>3, <1>1, <1>4 DEF Held, Busy
<1>5. CASE c \notin Busy /\ r.stage \in Tasked
  <2>1. Busy' = Busy \cup {c}
    BY <1>2, <1>5 DEF Busy
  <2>2. Cardinality(Busy') = Cardinality(Busy) + 1
    BY <2>1, <1>1, <1>5, FS_AddElement
  <2> QED
    BY <2>2, <1>1, <1>5 DEF Held, Busy
<1>6. CASE c \notin Busy /\ r.stage \notin Tasked
  <2>1. Busy' = Busy
    BY <1>2, <1>6 DEF Busy
  <2>2. Cardinality(Busy') = Cardinality(Busy)
    BY <2>1
  <2>3. Held(r) = 0 /\ Held(conn[c]) = 0
    BY <1>6 DEF Held, Busy
  <2> QED
    BY <2>2, <2>3, <1>1, <1>6
<1> QED
  BY <1>3, <1>4, <1>5, <1>6

\* A step that replaces the record of c by r, and returns or takes a permit as
\* the two stages demand.
LEMMA ConnStep ==
    ASSUME Inv, NEW c \in Conns, NEW r \in ConnRec,
           conn' = [conn EXCEPT ![c] = r], UNCHANGED <<server, stopped>>,
           permits' = permits + Held(conn[c]) - Held(r),
           permits > 0 \/ Held(r) <= Held(conn[c]),
           Sound(r), Caused(r)
    PROVE  Inv'
<1> USE DEF Inv
<1>1. \A d \in Conns : conn'[d] = IF d = c THEN r ELSE conn[d]
  BY DEF TypeOK
<1>2. Held(r) \in {0, 1} /\ Held(conn[c]) \in {0, 1} /\ permits \in Nat /\ Limit \in Nat
  BY LimitAssumption DEF Held, TypeOK
<1>3. /\ Cardinality(Busy) \in Nat /\ Cardinality(Busy') \in Nat
      /\ Cardinality(Busy') = Cardinality(Busy) + Held(r) - Held(conn[c])
  BY BusyStep
<1>4. permits' \in Nat /\ permits' + Cardinality(Busy') = Limit
  BY <1>2, <1>3
<1>5. TypeOK'
  <2>1. conn' \in [Conns -> ConnRec]
    BY DEF TypeOK, ConnRec
  <2>2. permits' \in 0 .. Limit
    BY <1>2, <1>3, <1>4
  <2> QED
    BY <2>1, <2>2 DEF TypeOK, ConnRec
<1>6. ASSUME NEW d \in Conns PROVE Sound(conn'[d]) /\ Caused(conn[d])'
  BY <1>1 DEF Caused
<1> QED
  BY <1>4, <1>5, <1>6 DEF Sound

\* No step but those of the connections changes a record or a permit.
LEMMA ServerStep ==
    ASSUME Inv, UNCHANGED <<conn, permits>>, server' \in Servers, stopped' \in BOOLEAN,
           server # "serving" => server' # "serving"
    PROVE  Inv'
<1>1. TypeOK'
  BY DEF Inv, TypeOK
<1>2. Busy' = Busy
  BY DEF Busy
<1>3. ASSUME NEW c \in Conns PROVE Sound(conn'[c]) /\ Caused(conn[c])'
  BY DEF Inv, Caused
<1> QED
  BY <1>1, <1>2, <1>3 DEF Inv, Sound

\* A connection that moves to another stage.
LEMMA MoveFields ==
    ASSUME TypeOK, NEW c \in Conns, NEW stage \in Stages
    PROVE  LET r == [conn[c] EXCEPT !.stage = stage]
           IN  /\ r \in ConnRec /\ r.stage = stage
               /\ r.client = conn[c].client /\ r.received = conn[c].received /\ r.ends = conn[c].ends
  BY DEF TypeOK, ConnRec

LEMMA MoveStep ==
    ASSUME Inv, NEW c \in Conns, NEW stage \in Stages, Move(c, stage), UNCHANGED <<server, stopped>>,
           stage \in Open => conn[c].stage \in Open,
           stage \notin Open => conn[c].stage \notin Open,
           stage \in {"absent", "backlog", "head"} => conn[c].stage \in {"absent", "backlog", "head"},
           permits' = permits + (IF conn[c].stage \in Tasked THEN 1 ELSE 0) - (IF stage \in Tasked THEN 1 ELSE 0),
           permits > 0 \/ conn[c].stage \in Tasked \/ stage \notin Tasked
    PROVE  Inv'
<1> DEFINE r == [conn[c] EXCEPT !.stage = stage]
<1>1. /\ r \in ConnRec /\ r.stage = stage
      /\ r.client = conn[c].client /\ r.received = conn[c].received /\ r.ends = conn[c].ends
  BY MoveFields DEF Inv
<1>2. conn' = [conn EXCEPT ![c] = r]
  BY DEF Move
<1> HIDE DEF r
<1>3. Sound(r) /\ Caused(r)
  BY <1>1 DEF Inv, Sound, Caused
<1>4. permits' = permits + Held(conn[c]) - Held(r) /\ (permits > 0 \/ Held(r) <= Held(conn[c]))
  BY <1>1 DEF Held
<1> QED
  BY <1>1, <1>2, <1>3, <1>4, ConnStep

\* A client that leaves, stops reading or reads again disturbs no stage and
\* no log.
LEMMA ClientFields ==
    ASSUME TypeOK, NEW d \in Conns, Leave(d) \/ Stall(d), NEW c \in Conns
    PROVE  conn'[c].stage = conn[c].stage /\ conn'[c].ends = conn[c].ends /\ server' = server
<1>1. PICK client : conn' = [conn EXCEPT ![d].client = client]
  BY DEF Leave, Stall
<1>2. CASE c = d
  <2>1. conn'[c] = [conn[c] EXCEPT !.client = client]
    BY <1>1, <1>2 DEF TypeOK
  <2> QED BY <2>1 DEF TypeOK, Leave, Stall
<1>3. CASE c # d
  BY <1>1, <1>3 DEF TypeOK, Leave, Stall
<1> QED BY <1>2, <1>3

\* The end of a request that had a log.
LEMMA ReportStep ==
    ASSUME Inv, NEW c \in Conns, NEW stage \in {"writing", "closed"}, NEW outcome \in Outcomes,
           Report(c, outcome, stage), UNCHANGED <<server, stopped>>, conn[c].stage \in Open,
           outcome = "request_cancelled" => Gone(c) \/ server # "serving",
           permits' = permits + (IF stage = "closed" THEN 1 ELSE 0)
    PROVE  Inv'
<1> DEFINE r == [conn[c] EXCEPT !.stage = stage, !.ends = Append(@, outcome)]
<1>1. conn[c] \in ConnRec /\ conn[c].received /\ conn[c].ends \in Seq(Outcomes) /\ Len(conn[c].ends) = 0
  BY DEF Inv, TypeOK, ConnRec, Sound
<1>2. conn[c].ends = <<>>
  BY <1>1
<1>3. /\ r \in ConnRec /\ r.stage = stage
      /\ r.client = conn[c].client /\ r.received = TRUE /\ r.ends = <<outcome>>
  <2>1. Append(conn[c].ends, outcome) = <<outcome>> /\ <<outcome>> \in Seq(Outcomes)
    BY <1>2
  <2>2. stage \in Stages
    BY DEF Stages, Tasked
  <2> QED
    BY <1>1, <2>1, <2>2 DEF ConnRec
<1>4. conn' = [conn EXCEPT ![c] = r]
  BY DEF Report
<1> HIDE DEF r
<1>5. Sound(r)
  BY <1>3 DEF Sound, Open
<1>6. Caused(r)
  BY <1>3 DEF Caused, Range, Gone
<1>7. permits' = permits + Held(conn[c]) - Held(r) /\ Held(r) <= Held(conn[c])
  <2>1. Held(conn[c]) = 1
    BY DEF Held, Tasked
  <2>2. Held(r) = IF stage = "closed" THEN 0 ELSE 1
    BY <1>3 DEF Held, Tasked, Open
  <2>3. permits \in Nat
    BY LimitAssumption DEF Inv, TypeOK
  <2> QED
    BY <2>1, <2>2, <2>3
<1> QED
  BY <1>3, <1>4, <1>5, <1>6, <1>7, ConnStep

----------------------------------------------------------------------------
\* The stages that the steps below lead to.
LEMMA StageTypes ==
    /\ Tasked \subseteq Stages /\ Open \subseteq Tasked
    /\ {"absent", "backlog", "closed"} \subseteq Stages /\ {"absent", "backlog", "closed"} \cap Tasked = {}
    /\ {"head", "refusing", "writing"} \subseteq Tasked /\ {"head", "refusing", "writing"} \cap Open = {}
    /\ Open = {"handling", "streaming", "upgrading", "relaying"}
    /\ {"request_rejected", "request_failed", "request_finished", "request_cancelled"} \subseteq Outcomes
  BY DEF Stages, Tasked, Open, Outcomes

\* The client leaves, stops reading or reads again: its record says so, and
\* nothing else changes.
LEMMA ClientStep == ASSUME Inv, NEW c \in Conns, Leave(c) \/ Stall(c) PROVE Inv'
<1>1. PICK client \in Clients :
        /\ conn' = [conn EXCEPT ![c].client = client]
        /\ conn[c].client = "gone" => client = "gone"
  BY DEF Leave, Stall, Gone, Clients
<1> DEFINE r == [conn[c] EXCEPT !.client = client]
<1>2. conn[c] \in ConnRec
  BY DEF Inv, TypeOK, ConnRec
<1>3. /\ r \in ConnRec /\ r.stage = conn[c].stage /\ r.client = client
      /\ r.received = conn[c].received /\ r.ends = conn[c].ends
  BY <1>2 DEF ConnRec
<1>4. conn' = [conn EXCEPT ![c] = r] /\ UNCHANGED <<permits, server, stopped>>
  BY <1>1 DEF Leave, Stall
<1> HIDE DEF r
<1>5. Sound(r) /\ Caused(r)
  BY <1>1, <1>3 DEF Inv, Sound, Caused
<1>6. Held(r) = Held(conn[c]) /\ Held(r) \in {0, 1} /\ Held(r) <= Held(conn[c])
  BY <1>3 DEF Held
<1>7. permits' = permits + Held(conn[c]) - Held(r)
  BY <1>4, <1>6, LimitAssumption DEF Inv, TypeOK
<1> QED
  BY <1>3, <1>4, <1>5, <1>6, <1>7, ConnStep

\* The head is complete: a health check is answered, or the handler logs the
\* request's first event.
LEMMA HeadReadStep == ASSUME Inv, NEW c \in Conns, HeadRead(c) PROVE Inv'
<1> DEFINE r == [conn[c] EXCEPT !.stage = "handling", !.received = TRUE]
<1>0. permits \in Nat
  BY LimitAssumption DEF Inv, TypeOK
<1>1. CASE Move(c, "writing")
  BY <1>0, <1>1, StageTypes, MoveStep DEF HeadRead, At
<1>2. CASE conn' = [conn EXCEPT ![c] = r]
  <2>1. conn[c] \in ConnRec /\ conn[c].stage = "head" /\ ~conn[c].received /\ Len(conn[c].ends) = 0
    BY StageTypes DEF HeadRead, At, Inv, TypeOK, ConnRec, Sound
  <2>2. /\ r \in ConnRec /\ r.stage = "handling" /\ r.client = conn[c].client
        /\ r.received = TRUE /\ r.ends = conn[c].ends
    BY <2>1, StageTypes DEF ConnRec
  <2> HIDE DEF r
  <2>3. Sound(r) /\ Caused(r)
    BY <2>1, <2>2, StageTypes DEF Inv, Sound, Caused
  <2>4. Held(r) = 1 /\ Held(conn[c]) = 1 /\ Held(r) <= Held(conn[c])
    BY <2>1, <2>2, StageTypes DEF Held
  <2>5. permits' = permits + Held(conn[c]) - Held(r) /\ UNCHANGED <<server, stopped>>
    BY <2>4, <1>0 DEF HeadRead
  <2> QED
    BY <1>2, <2>2, <2>3, <2>4, <2>5, ConnStep
<1> QED
  BY <1>1, <1>2 DEF HeadRead

\* The service ends while it admits c: two things change, and both are of the
\* kinds above; c is not admitted.
LEMMA AcceptFailsStep == ASSUME Inv, NEW c \in Conns, AcceptFails(c) PROVE Inv'
<1> DEFINE r == [conn[c] EXCEPT !.stage = "closed"]
<1>1. /\ r \in ConnRec /\ r.stage = "closed" /\ conn[c].stage = "backlog"
      /\ r.client = conn[c].client /\ r.received = conn[c].received /\ r.ends = conn[c].ends
  BY StageTypes, MoveFields DEF Inv, AcceptFails, At
<1>2. conn' = [conn EXCEPT ![c] = r] /\ permits' = permits /\ server' = "failed" /\ stopped' = stopped
  BY DEF AcceptFails, Move
<1> HIDE DEF r
<1>3. \A d \in Conns : conn'[d] = IF d = c THEN r ELSE conn[d]
  BY <1>2 DEF Inv, TypeOK
<1>4. Sound(r)
  BY <1>1, StageTypes DEF Inv, Sound
<1>5. TypeOK'
  <2>1. conn' \in [Conns -> ConnRec]
    BY <1>1, <1>2 DEF Inv, TypeOK, ConnRec
  <2> QED
    BY <2>1, <1>2 DEF Inv, TypeOK, ConnRec, Servers
<1>6. Busy' = Busy
  BY <1>1, <1>3, StageTypes DEF Busy
<1>7. ASSUME NEW d \in Conns PROVE Sound(conn'[d]) /\ Caused(conn[d])'
  BY <1>2, <1>3, <1>4 DEF Inv, Caused
<1> QED
  BY <1>2, <1>5, <1>6, <1>7 DEF Inv, Sound

\* Every step keeps the invariant, one action at a time.
LEMMA NextInv == Inv /\ [Next]_vars => Inv'
<1> SUFFICES ASSUME Inv, [Next]_vars PROVE Inv'
  OBVIOUS
<1>0. permits \in Nat /\ Limit \in Nat
  BY LimitAssumption DEF Inv, TypeOK
<1>1. ASSUME NEW c \in Conns, Connect(c) PROVE Inv'
  BY <1>0, <1>1, StageTypes, MoveStep DEF Connect, At
<1>2. ASSUME NEW c \in Conns, Accept(c) PROVE Inv'
  <2>1. CASE permits > 0
    BY <1>0, <1>2, <2>1, StageTypes, MoveStep DEF Accept, At
  <2>2. CASE ~(permits > 0)
    BY <1>0, <1>2, <2>2, StageTypes, MoveStep DEF Accept, At
  <2> QED
    BY <2>1, <2>2
<1>4. ASSUME NEW c \in Conns, HeadRefused(c) PROVE Inv'
  BY <1>0, <1>4, StageTypes, MoveStep DEF HeadRefused, At
<1>5. ASSUME NEW c \in Conns, Handled(c) PROVE Inv'
  <2>1. conn[c].stage \in Open /\ UNCHANGED <<permits, server, stopped>>
    BY <1>5, StageTypes DEF Handled, At
  <2>2. ASSUME NEW outcome \in {"request_rejected", "request_failed", "request_finished"},
               Report(c, outcome, "writing")
        PROVE  Inv'
    BY <1>0, <2>1, <2>2, StageTypes, ReportStep
  <2>3. ASSUME NEW stage \in {"streaming", "upgrading"}, Move(c, stage) PROVE Inv'
    BY <1>0, <2>1, <2>3, StageTypes, MoveStep
  <2> QED
    BY <1>5, <2>2, <2>3 DEF Handled
<1>6. ASSUME NEW c \in Conns, StreamEnds(c) PROVE Inv'
  <2>1. PICK outcome \in {"request_finished", "request_failed"} : Report(c, outcome, "writing")
    BY <1>6 DEF StreamEnds
  <2>2. conn[c].stage \in Open /\ UNCHANGED <<permits, server, stopped>>
    BY <1>6, StageTypes DEF StreamEnds, At
  <2> QED
    BY <1>0, <2>1, <2>2, StageTypes, ReportStep
<1>11. ASSUME NEW c \in Conns, RelayEnds(c) \/ UpgradeFails(c) PROVE Inv'
  <2>1. PICK outcome \in {"request_finished", "request_failed"} : Conclude(c, outcome)
    BY <1>11 DEF RelayEnds, UpgradeFails
  <2>2. conn[c].stage \in Open /\ UNCHANGED <<server, stopped>>
    BY <1>11, StageTypes DEF RelayEnds, UpgradeFails, At
  <2> QED
    BY <1>0, <2>1, <2>2, StageTypes, ReportStep DEF Conclude
<1>7. ASSUME NEW c \in Conns, Upgraded(c) PROVE Inv'
  BY <1>0, <1>7, StageTypes, MoveStep DEF Upgraded, At
<1>8. ASSUME NEW c \in Conns, Abandoned(c) PROVE Inv'
  BY <1>0, <1>8, StageTypes, ReportStep DEF Abandoned, Gone
<1>9. ASSUME NEW c \in Conns, Written(c) PROVE Inv'
  BY <1>0, <1>9, StageTypes, MoveStep DEF Written, Close
<1>10. ASSUME NEW c \in Conns, Aborted(c) PROVE Inv'
  <2>1. server # "serving" /\ conn[c].stage \in Tasked /\ permits' = permits + 1 /\ UNCHANGED <<server, stopped>>
    BY <1>10 DEF Aborted, Active, Conclude, Close
  <2>2. CASE conn[c].stage \in Open
    BY <1>0, <1>10, <2>1, <2>2, StageTypes, ReportStep DEF Aborted, Logged, Conclude
  <2>3. CASE conn[c].stage \notin Open
    BY <1>0, <1>10, <2>1, <2>3, StageTypes, MoveStep DEF Aborted, Logged, Close
  <2> QED
    BY <2>2, <2>3
<1>12. CASE Shutdown \/ Drained \/ DrainTimesOut \/ WriteStopped
  BY <1>12, ServerStep DEF Shutdown, Drained, DrainTimesOut, WriteStopped, Servers, Inv, TypeOK
<1>13. CASE UNCHANGED vars
  BY <1>13, ServerStep DEF vars, Inv, TypeOK
<1> QED
  BY <1>1, <1>2, AcceptFailsStep, ClientStep, HeadReadStep, <1>4, <1>5, <1>6, <1>7, <1>8, <1>9, <1>10, <1>11, <1>12, <1>13
     DEF Next, Service, Task, Runs, Writes, Client

\* The records of the connections stay sound, and the permits add up.
THEOREM Invariant == Spec => []Inv
  BY InitInv, NextInv, PTL DEF Spec

\* Every variable keeps its type; in particular there are never more permits
\* than the semaphore was made with, and never fewer than none.
THEOREM ConnectionsTyped == Spec => []TypeOK
<1>1. Inv => TypeOK
  BY DEF Inv
<1> QED
  BY Invariant, <1>1, PTL

\* For any limit and any number of connections: no way in which a task of
\* serve() ends loses its permit or returns it twice.
THEOREM NoPermitLost == Spec => []PermitsCounted
<1>1. Inv => PermitsCounted
  <2>1. Busy = {c \in Conns : Active(c)}
    BY DEF Busy, Active
  <2>2. Inv => permits >= 0
    BY DEF Inv, TypeOK
  <2>3. QED
    BY <2>1, <2>2 DEF Inv, PermitsCounted
<1> QED
  BY Invariant, <1>1, PTL

\* Every request that has a first event in the log gets exactly one last
\* event, whoever drops its RequestLog.
THEOREM EndedOnce == Spec => []OneTerminalEvent
<1>1. Inv => OneTerminalEvent
  BY DEF Inv, OneTerminalEvent, Sound, Logged
<1> QED
  BY Invariant, <1>1, PTL

\* A request is reported as cancelled for a reason.
THEOREM CancelledForCause == Spec => []CancelledWithCause
<1>1. Inv => CancelledWithCause
  BY DEF Inv, CancelledWithCause, Caused, Gone
<1> QED
  BY Invariant, <1>1, PTL

----------------------------------------------------------------------------
(* The end of the service.  serve returns only when its tasks are joined,  *)
(* and from then on nobody is admitted, so no task is left that could      *)
(* write an event.                                                         *)

Joined == server = "ended" => \A c \in Conns : ~Active(c)

LEMMA NextKeepsJoined == TypeOK /\ Joined /\ [Next]_vars => Joined'
<1> SUFFICES ASSUME TypeOK, Joined, [Next]_vars, server' = "ended", NEW c \in Conns
             PROVE  ~Active(c)'
  BY DEF Joined
<1> USE DEF Active, Joined
<1>1. CASE UNCHANGED vars \/ Drained \/ WriteStopped
  BY <1>1 DEF vars, Drained, WriteStopped
<1>2. CASE Shutdown \/ DrainTimesOut
  BY <1>2 DEF Shutdown, DrainTimesOut
<1>3. CASE \E d \in Conns : Accept(d) \/ AcceptFails(d) \/ Connect(d)
  BY <1>3 DEF Accept, AcceptFails, Connect
<1>4. ASSUME NEW d \in Conns, Leave(d) \/ Stall(d) PROVE ~Active(c)'
  <2>1. conn'[c].stage = conn[c].stage /\ server' = server
    BY <1>4, ClientFields
  <2> QED BY <2>1
<1>5. ASSUME NEW d \in Conns, Task(d) PROVE ~Active(c)'
  <2>1. Active(d) /\ server' = server
    BY <1>5, StageTypes
       DEF Task, Runs, Writes, HeadRead, HeadRefused, Handled, StreamEnds, Upgraded, UpgradeFails, RelayEnds,
           Abandoned, Written, Aborted, At
  <2> QED BY <2>1
<1> QED BY <1>1, <1>2, <1>3, <1>4, <1>5 DEF Next, Service, Client

\* After a clean stop the log is complete: whatever clients do afterwards, no
\* request's event follows server_stopped.
THEOREM CompleteLog == Spec => StoppedLast
<1>1. Init => Joined
  BY DEF Init, Joined
<1>2. TypeOK /\ Joined /\ [Next]_vars
        => [stopped /\ server = "ended" => \A c \in Conns : conn'[c].ends = conn[c].ends]_vars
  <2> SUFFICES ASSUME TypeOK, Joined, Next, server = "ended", NEW c \in Conns
               PROVE  conn'[c].ends = conn[c].ends
    BY DEF vars
  <2>1. CASE Service
    BY <2>1 DEF Service, Accept, AcceptFails, Shutdown, Drained, DrainTimesOut, WriteStopped
  <2>2. ASSUME NEW d \in Conns, Leave(d) \/ Stall(d) PROVE conn'[c].ends = conn[c].ends
    BY <2>2, ClientFields
  <2>3. ASSUME NEW d \in Conns, Task(d) PROVE FALSE
    BY <2>3, StageTypes
       DEF Joined, Active, Task, Runs, Writes, HeadRead, HeadRefused, Handled, StreamEnds, Upgraded,
           UpgradeFails, RelayEnds, Abandoned, Written, Aborted, At
  <2> QED BY <2>1, <2>2, <2>3 DEF Next, Client, Connect
<1> QED BY <1>1, <1>2, NextKeepsJoined, ConnectionsTyped, PTL DEF Spec, StoppedLast
=============================================================================
