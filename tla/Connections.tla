---------------------------- MODULE Connections ----------------------------
(***************************************************************************)
(* The listener of the proxy (src/server.rs, serve) and the life of one    *)
(* connection: the permit that admits it, the head that is read before     *)
(* Hyper sees it, the handler, the response or the relay that follows, and *)
(* the RequestLog whose last owner reports how the request ended           *)
(* (src/logger.rs).  Route selection and sending are in RouteHealth: here  *)
(* a handler only returns one of the things it can return.                 *)
(*                                                                         *)
(* A connection carries one request: every response closes it.             *)
(***************************************************************************)
EXTENDS Naturals, Sequences, FiniteSets, Functions

CONSTANTS
    Conns,      \* connections, each made at most once
    Limit       \* of the semaphore: 128 in the code

ASSUME LimitAssumption == Limit \in Nat \ {0} /\ IsFiniteSet(Conns)

VARIABLES
    conn,       \* each connection: its stage, what its client does, and the
                \* events its request has written to the log
    permits,    \* free permits
    server,     \* how far serve() is
    stopped     \* server_stopped has been written

vars == <<conn, permits, server, stopped>>

----------------------------------------------------------------------------
Outcomes == {"request_finished", "request_failed", "request_rejected", "request_cancelled"}

\* "backlog" is the system's; from "head" on a task owns the connection.
\* "refusing" and "writing" are about the last bytes to the client.  In the
\* stages of Sending a task waits until its client takes what is written.
Open   == {"handling", "streaming", "upgrading", "relaying"}
Tasked == {"head", "refusing", "writing"} \cup Open
Sending == {"refusing", "streaming", "upgrading", "writing"}
Stages == {"absent", "backlog", "closed"} \cup Tasked

\* A client reads what it is sent, does not, or has left.
Clients == {"reads", "stalls", "gone"}

\* "draining" waits for the tasks it has aborted; after "abandoned" and
\* "failed" the tasks are aborted and nobody waits.
Servers == {"serving", "draining", "ended", "abandoned", "failed"}

At(c, stage) == conn[c].stage = stage
Gone(c) == conn[c].client = "gone"

\* The request's RequestLog exists: its owner is the handler's future, the
\* response body or the relay.
Logged(c) == conn[c].stage \in Open
Active(c) == conn[c].stage \in Tasked

Move(c, stage) == conn' = [conn EXCEPT ![c].stage = stage]

\* The RequestLog is dropped, which writes its outcome.
Report(c, outcome, stage) ==
    conn' = [conn EXCEPT ![c].stage = stage, ![c].ends = Append(@, outcome)]

----------------------------------------------------------------------------
(* Clients.                                                                *)

Connect(c) ==
    /\ At(c, "absent") /\ server = "serving"
    /\ Move(c, "backlog")
    /\ UNCHANGED <<permits, server, stopped>>

\* A client may leave at any time; the task learns it later, or never.
Leave(c) ==
    /\ conn[c].stage \in {"backlog"} \cup Tasked /\ ~Gone(c)
    /\ conn' = [conn EXCEPT ![c].client = "gone"]
    /\ UNCHANGED <<permits, server, stopped>>

\* Or it stops to read what it is sent, and goes on later, or never.
Stall(c) ==
    /\ conn[c].stage \in Sending \cup {"relaying"} /\ ~Gone(c)
    /\ \E client \in {"reads", "stalls"} \ {conn[c].client} :
            conn' = [conn EXCEPT ![c].client = client]
    /\ UNCHANGED <<permits, server, stopped>>

----------------------------------------------------------------------------
(* The accept loop.                                                        *)

\* Without a free permit the socket is dropped.
Accept(c) ==
    /\ server = "serving" /\ At(c, "backlog")
    /\ IF permits > 0
       THEN Move(c, "head") /\ permits' = permits - 1
       ELSE Move(c, "closed") /\ UNCHANGED permits
    /\ UNCHANGED <<server, stopped>>

\* An error of accept or of set_nodelay ends the service.  The set of tasks is
\* dropped, which aborts them.
AcceptFails(c) ==
    /\ server = "serving" /\ At(c, "backlog")
    /\ Move(c, "closed")
    /\ server' = "failed"
    /\ UNCHANGED <<permits, stopped>>

----------------------------------------------------------------------------
(* The task of a connection.                                               *)

\* The task ends, and its permit is free again.
Close(c) == Move(c, "closed") /\ permits' = permits + 1

\* So it does when a relay has written the outcome: nothing is left to send.
Conclude(c, outcome) == Report(c, outcome, "closed") /\ permits' = permits + 1

\* A complete, unambiguous head goes to Hyper.  What Hyper itself refuses and
\* health checks leave no trace; the handler logs anything else.
HeadRead(c) ==
    /\ At(c, "head")
    /\ \/ Move(c, "writing")
       \/ conn' = [conn EXCEPT ![c].stage = "handling", ![c].received = TRUE]
    /\ UNCHANGED <<permits, server, stopped>>

\* A bad head, its end, or 30 s: a bare status line, and no event.
HeadRefused(c) ==
    /\ At(c, "head")
    /\ Move(c, "refusing")
    /\ UNCHANGED <<permits, server, stopped>>

\* Variant with a bug: a rejection is written to the log where it is made, too.
HandledTwice(c) ==
    /\ At(c, "handling")
    /\ \/ conn' = [conn EXCEPT ![c].stage = "writing",
                              ![c].ends = @ \o <<"request_rejected", "request_rejected">>]
       \/ Move(c, "streaming")
       \/ Move(c, "upgrading")
    /\ UNCHANGED <<permits, server, stopped>>

\* The handler returns: an error, a response without a body, one whose body
\* owns the log from now on, or the head of an upgrade with a relay in the
\* channel that owns it.
Handled(c) ==
    /\ At(c, "handling")
    /\ \/ \E outcome \in {"request_rejected", "request_failed", "request_finished"} :
            Report(c, outcome, "writing")
       \/ Move(c, "streaming")
       \/ Move(c, "upgrading")
    /\ UNCHANGED <<permits, server, stopped>>

\* The upstream body ends, or fails, or runs into the request's deadline.
\* The body is polled only as fast as the client reads, so that no deadline is
\* noticed while it does not.
StreamEnds(c) ==
    /\ At(c, "streaming")
    /\ \E outcome \in {"request_finished", "request_failed"} : Report(c, outcome, "writing")
    /\ UNCHANGED <<permits, server, stopped>>

\* Variant with a bug: the relay runs in a task of its own.
UpgradedDetached(c) ==
    /\ At(c, "upgrading")
    /\ Move(c, "relaying") /\ permits' = permits + 1
    /\ UNCHANGED <<server, stopped>>

\* Hyper has written the head and hands the connection over.
Upgraded(c) ==
    /\ At(c, "upgrading")
    /\ Move(c, "relaying")
    /\ UNCHANGED <<permits, server, stopped>>

\* Hyper fails before that: the relay is taken from the channel all the same
\* and fails on the upgrade.
UpgradeFails(c) ==
    /\ At(c, "upgrading") /\ Gone(c)
    /\ Conclude(c, "request_failed")
    /\ UNCHANGED <<server, stopped>>

\* Variant with a bug: a relay has no time limit.
RelayUnlimited(c) ==
    /\ At(c, "relaying") /\ Gone(c)
    /\ Conclude(c, "request_failed")
    /\ UNCHANGED <<server, stopped>>

\* Variant with a bug: a relay that times out leaves the outcome as it was.
RelayUnreported(c) ==
    /\ At(c, "relaying")
    /\ Conclude(c, "request_cancelled")
    /\ UNCHANGED <<server, stopped>>

\* Both directions are closed, or one fails, or the time is up, whether or not
\* bytes wait for a peer that does not take them.
RelayEnds(c) ==
    /\ At(c, "relaying")
    /\ \E outcome \in {"request_finished", "request_failed"} : Conclude(c, outcome)
    /\ UNCHANGED <<server, stopped>>

\* Hyper notices that the client has left and drops the handler or the body.
Abandoned(c) ==
    /\ conn[c].stage \in {"handling", "streaming"} /\ Gone(c)
    /\ Report(c, "request_cancelled", "writing")
    /\ UNCHANGED <<permits, server, stopped>>

\* The rest is written, or cannot be.  There is no time limit.
Written(c) ==
    /\ conn[c].stage \in {"refusing", "writing"}
    /\ Close(c)
    /\ UNCHANGED <<server, stopped>>

\* An aborted task is dropped where it stands, with the log it owns.
Aborted(c) ==
    /\ server # "serving" /\ Active(c)
    /\ IF Logged(c) THEN Conclude(c, "request_cancelled") ELSE Close(c)
    /\ UNCHANGED <<server, stopped>>

----------------------------------------------------------------------------
(* The end of the service, and what the daemon does about it.              *)

\* The shutdown future resolves: the listener takes nothing more, and every
\* task is aborted.
Shutdown ==
    /\ server = "serving"
    /\ server' = "draining"
    /\ UNCHANGED <<conn, permits, stopped>>

\* Variant with a bug: serve returns without waiting for its tasks.
DrainedAtOnce ==
    /\ server = "draining"
    /\ server' = "ended"
    /\ UNCHANGED <<conn, permits, stopped>>

\* Every task has been joined, and serve returns.
Drained ==
    /\ server = "draining" /\ \A c \in Conns : ~Active(c)
    /\ server' = "ended"
    /\ UNCHANGED <<conn, permits, stopped>>

\* The daemon waits 5 s for that.
DrainTimesOut ==
    /\ server = "draining"
    /\ server' = "abandoned"
    /\ UNCHANGED <<conn, permits, stopped>>

\* It writes server_stopped once serve has returned or was given up, and goes
\* on to its end.
WriteStopped ==
    /\ server \in {"ended", "abandoned", "failed"} /\ ~stopped
    /\ stopped' = TRUE
    /\ UNCHANGED <<conn, permits, server>>

----------------------------------------------------------------------------
Init ==
    /\ conn = [c \in Conns |-> [stage |-> "absent", client |-> "reads", received |-> FALSE, ends |-> <<>>]]
    /\ permits = Limit /\ server = "serving" /\ stopped = FALSE

\* Steps that depend on the client's reading what has been written.
Writes(c) == StreamEnds(c) \/ Upgraded(c) \/ UpgradeFails(c) \/ Written(c)

\* Steps that do not: they are made at once, or when a time limit has passed.
Runs(c) ==
    \/ HeadRead(c) \/ HeadRefused(c) \/ Handled(c) \/ RelayEnds(c)
    \/ Abandoned(c) \/ Aborted(c)

Task(c) == Runs(c) \/ Writes(c)

Client(c) == Connect(c) \/ Leave(c) \/ Stall(c)

Service ==
    \/ \E c \in Conns : Accept(c) \/ AcceptFails(c)
    \/ Shutdown \/ Drained \/ DrainTimesOut \/ WriteStopped

Next == Service \/ \E c \in Conns : Task(c) \/ Client(c)

Spec == Init /\ [][Next]_vars

\* Tasks are polled and timers fire.  What waits for a client makes progress
\* whenever the client reads, and fails when it has left; nothing is promised
\* of clients.
Fairness ==
    /\ \A c \in Conns : SF_vars(Runs(c) \/ (conn[c].client # "stalls" /\ Writes(c)))
    /\ WF_vars(Drained \/ WriteStopped)

FairSpec == Spec /\ Fairness

----------------------------------------------------------------------------
(* Properties.                                                             *)

TypeOK ==
    /\ conn \in [Conns -> [stage : Stages, client : Clients, received : BOOLEAN, ends : Seq(Outcomes)]]
    /\ permits \in 0 .. Limit
    /\ server \in Servers /\ stopped \in BOOLEAN

\* A permit is held by every task, relays included, and by nothing else: none
\* leaks when a task is refused, cancelled or aborted, so that the listener
\* never ends up refusing everybody, and none is returned early or handed out
\* twice, so that never more than Limit connections are served.
PermitsCounted ==
    permits >= 0 /\ permits + Cardinality({c \in Conns : Active(c)}) = Limit

\* The log has one last event for each request that it has a first event for,
\* written when the request is over, whichever of its successive owners is
\* the last.
OneTerminalEvent ==
    \A c \in Conns : Len(conn[c].ends) = IF conn[c].received /\ ~Logged(c) THEN 1 ELSE 0

\* A request is reported as cancelled only if its client has left or the
\* service stops.
CancelledWithCause ==
    \A c \in Conns :
        "request_cancelled" \in Range(conn[c].ends) => Gone(c) \/ server # "serving"

\* After a clean stop the log is complete: no request's event follows
\* server_stopped.
StoppedLast ==
    [][stopped /\ server = "ended" => \A c \in Conns : conn'[c].ends = conn[c].ends]_vars

\* The task has something to write to a client that neither reads nor leaves,
\* and no shutdown ends it.
Unread(c) ==
    /\ conn[c].stage \in Sending /\ conn[c].client = "stalls"
    /\ server = "serving"

\* Every connection that was admitted ends and returns its permit, unless it
\* has something to write to a client that neither reads it nor leaves, for
\* ever: a slow head, an upstream that is silent and the peers of a relay, which
\* may neither read nor leave, do not keep it, and a shutdown ends it anyway.
RequestsEnd == \A c \in Conns : Active(c) ~> (At(c, "closed") \/ []Unread(c))
=============================================================================
