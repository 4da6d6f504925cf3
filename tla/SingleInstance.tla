--------------------------- MODULE SingleInstance ---------------------------
(***************************************************************************)
(* One app per user (gui/src/single_instance.rs).  Every launch tries      *)
(* gui.lock.  The one that gets it binds a port of the system's choice,    *)
(* writes it to gui.port and, once it is set up, listens there; any other  *)
(* reads gui.port, sends "show" to that port and ends.  Processes end at   *)
(* any point: the lock goes with its process, gui.port stays as it is.     *)
(***************************************************************************)
EXTENDS Naturals, Sequences

CONSTANTS
    Procs,     \* processes; a number is used again when nothing refers to it
    Ports,     \* ports of the local host that the system may hand out
    NoProc, NoPort,
    MaxQueue   \* bound: connections that wait at a port while strangers call

ASSUME InstanceAssumption ==
    NoProc \notin Procs /\ NoPort \notin Ports /\ MaxQueue \in Nat

VARIABLES
    proc,      \* each process: where it stands, its port, the port it read,
               \* and, history, the app it found listening, and if that showed
    holder,    \* who has gui.lock
    portFile,  \* what can be read from gui.port
    queue      \* at each port, the connections not yet dealt with

instanceVars == <<proc, holder, portFile, queue>>

Absent == [pc |-> "off", port |-> NoPort, seen |-> NoPort, met |-> NoProc, shown |-> FALSE]

Stands(p, pc) == proc[p].pc = pc

\* A connection from a process, or from a program that is no launch.
Call(p, said) == [from |-> p, said |-> said]

Listens(p, port) == port # NoPort /\ proc[p].port = port
Bound(port) == \E p \in Procs : Listens(p, port)

From(p) == {port \in Ports : \E i \in DOMAIN queue[port] : queue[port][i].from = p}

\* A process ends: its lock is released, its port is closed and with it every
\* connection there, and a connection of its own that says nothing is closed.
Without(p) ==
    [port \in Ports |->
        IF Listens(p, port) THEN <<>>
        ELSE [i \in DOMAIN queue[port] |->
                IF queue[port][i] = Call(p, "nothing") THEN Call(p, "closed") ELSE queue[port][i]]]

\* History: those who found p listening need no answer from it any more.
Forgotten(p) == [q \in Procs |-> IF proc[q].met = p THEN [proc[q] EXCEPT !.met = NoProc] ELSE proc[q]]

-----------------------------------------------------------------------------
(* acquire *)

StartProcess(p) ==
    /\ Stands(p, "off")
    /\ proc' = [proc EXCEPT ![p].pc = "lock"]
    /\ UNCHANGED <<holder, portFile, queue>>

\* Variant with a bug: a shared lock, which is granted beside another.
SharedLock(p) ==
    /\ Stands(p, "lock")
    /\ holder' = p
    /\ proc' = [proc EXCEPT ![p].pc = "bind"]
    /\ UNCHANGED <<portFile, queue>>

\* The lock is taken ...
Lock(p) ==
    /\ Stands(p, "lock") /\ holder = NoProc
    /\ holder' = p
    /\ proc' = [proc EXCEPT ![p].pc = "bind"]
    /\ UNCHANGED <<portFile, queue>>

\* The app p can be found: it has written its port and the file names it.
Found(p) == proc[p].pc \in {"setup", "up"} /\ Listens(p, portFile)

\* ... or it is not free.  History: whether its holder can be found already.
WouldBlock(p) ==
    /\ Stands(p, "lock") /\ holder \notin {NoProc, p}
    /\ proc' = [proc EXCEPT ![p].pc = "read",
                            ![p].met = IF Found(holder) THEN holder ELSE NoProc]
    /\ UNCHANGED <<holder, portFile, queue>>

\* "Without a lock file, run anyway": an app that no other launch can find.
LockFails(p) ==
    /\ Stands(p, "lock")
    /\ proc' = [proc EXCEPT ![p].pc = "unguarded"]
    /\ UNCHANGED <<holder, portFile, queue>>

Bind(p) ==
    /\ Stands(p, "bind")
    /\ \E port \in Ports :
        /\ ~Bound(port)
        /\ proc' = [proc EXCEPT ![p].pc = "truncate", ![p].port = port]
    /\ UNCHANGED <<holder, portFile, queue>>

\* No listener: gui.port keeps whatever an earlier app wrote.
BindFails(p) ==
    /\ Stands(p, "bind")
    /\ proc' = [proc EXCEPT ![p].pc = "setup"]
    /\ UNCHANGED <<holder, portFile, queue>>

\* fs::write empties the file, then writes; either may fail, which is ignored.
Truncate(p) ==
    /\ Stands(p, "truncate")
    /\ portFile' = NoPort
    /\ proc' = [proc EXCEPT ![p].pc = "publish"]
    /\ UNCHANGED <<holder, queue>>

Publish(p) ==
    /\ Stands(p, "publish")
    /\ portFile' = proc[p].port
    /\ proc' = [proc EXCEPT ![p].pc = "setup"]
    /\ UNCHANGED <<holder, queue>>

PublishFails(p) ==
    /\ Stands(p, "truncate") \/ Stands(p, "publish")
    /\ proc' = [proc EXCEPT ![p].pc = "setup"]
    /\ UNCHANGED <<holder, portFile, queue>>

\* Tauri, the state and the tray are set up; then the thread listens.
Listen(p) ==
    /\ Stands(p, "setup")
    /\ proc' = [proc EXCEPT ![p].pc = "up"]
    /\ UNCHANGED <<holder, portFile, queue>>

\* A launch that is not the first reads the port ...
ReadPort(p) ==
    /\ Stands(p, "read")
    /\ proc' = [proc EXCEPT ![p].seen = portFile,
                            ![p].pc = IF portFile = NoPort THEN "ended" ELSE "connect"]
    /\ UNCHANGED <<holder, portFile, queue>>

\* ... and connects to it; if no app listens there, nobody or another program does.
Connect(p) ==
    /\ Stands(p, "connect")
    /\ IF Bound(proc[p].seen)
       THEN /\ queue' = [queue EXCEPT ![proc[p].seen] = Append(@, Call(p, "nothing"))]
            /\ proc'  = [proc EXCEPT ![p].pc = "write"]
       ELSE /\ proc'  = [proc EXCEPT ![p].pc = "ended"]
            /\ UNCHANGED queue
    /\ UNCHANGED <<holder, portFile>>

\* It writes "show" and ends, whether or not the connection is still there.
Write(p) ==
    /\ Stands(p, "write")
    /\ queue' = [port \in Ports |-> [i \in DOMAIN queue[port] |->
                    IF queue[port][i] = Call(p, "nothing") THEN Call(p, "show") ELSE queue[port][i]]]
    /\ proc' = [proc EXCEPT ![p].pc = "ended"]
    /\ UNCHANGED <<holder, portFile>>

-----------------------------------------------------------------------------
(* Guard::listen: one connection after the other. *)

Next1(p) == Head(queue[proc[p].port])

Waits(p) == Stands(p, "up") /\ proc[p].port # NoPort /\ queue[proc[p].port] # <<>>

Drop(p) == queue' = [queue EXCEPT ![proc[p].port] = Tail(@)]

\* Four bytes that say "show": the panel is shown.
Show(p) ==
    /\ Waits(p) /\ Next1(p).said = "show"
    /\ Drop(p)
    /\ proc' = [q \in Procs |-> IF q = Next1(p).from THEN [proc[q] EXCEPT !.shown = TRUE] ELSE proc[q]]
    /\ UNCHANGED <<holder, portFile>>

\* Variant with a bug: there is no limit to the wait for the four bytes.
IgnoreClosed(p) ==
    /\ Waits(p) /\ Next1(p).said = "closed"
    /\ Drop(p)
    /\ UNCHANGED <<proc, holder, portFile>>

\* The connection ends or is silent for a second.  History: a launch that is
\* slower than that to write has lost its turn.
Ignore(p) ==
    /\ Waits(p) /\ Next1(p).said # "show"
    /\ Drop(p)
    /\ proc' = [q \in Procs |-> IF q = Next1(p).from THEN [proc[q] EXCEPT !.met = NoProc] ELSE proc[q]]
    /\ UNCHANGED <<holder, portFile>>

\* Another local program connects and may stay silent.
StrangerCalls(port) ==
    /\ Bound(port) /\ Len(queue[port]) < MaxQueue
    /\ queue' = [queue EXCEPT ![port] = Append(@, Call(NoProc, "nothing"))]
    /\ UNCHANGED <<proc, holder, portFile>>

\* The end of a process: quit, failed setup, kill or crash.
End(p) ==
    /\ proc[p].pc \notin {"off", "ended"}
    /\ proc'   = [Forgotten(p) EXCEPT ![p] = [Absent EXCEPT !.pc = "ended"]]
    /\ holder' = IF holder = p THEN NoProc ELSE holder
    /\ queue'  = Without(p)
    /\ UNCHANGED portFile

\* The number of a process that is gone is free again.
Reuse(p) ==
    /\ Stands(p, "ended") /\ From(p) = {}
    /\ proc' = [proc EXCEPT ![p] = Absent]
    /\ UNCHANGED <<holder, portFile, queue>>

-----------------------------------------------------------------------------
\* gui.port may be left over from earlier days.
InstanceInit ==
    /\ proc = [p \in Procs |-> Absent]
    /\ holder = NoProc
    /\ portFile \in Ports \cup {NoPort}
    /\ queue = [port \in Ports |-> <<>>]

\* What a launch goes on to do before it is an app, or instead of being one.
Acquire(p) ==
    \/ Lock(p) \/ WouldBlock(p) \/ LockFails(p)
    \/ Bind(p) \/ BindFails(p) \/ Truncate(p) \/ Publish(p) \/ PublishFails(p)
    \/ ReadPort(p) \/ Connect(p) \/ Write(p)

ListenStep(p) == Show(p) \/ Ignore(p)

-----------------------------------------------------------------------------
(* Properties. *)

\* "A later launch asks the running instance to show its window, then exits"
\* (single_instance.rs:1): a launch that met an app which was listening at the
\* published port, and is still there, has its request before the app or
\* answered when it is over, whatever else starts, ends or writes meanwhile.
LaunchAnswered ==
    \A p \in Procs :
        Stands(p, "ended") /\ proc[p].met # NoProc =>
            \/ proc[p].shown
            \/ \E port \in Ports :
                /\ Listens(proc[p].met, port)
                /\ \E i \in DOMAIN queue[port] : queue[port][i] = Call(p, "show")

\* A request to show the window is never stuck behind a silent connection: it
\* is served, or the app that it was sent to is gone.
Requested(p) == \E port \in Ports : \E i \in DOMAIN queue[port] : queue[port][i] = Call(p, "show")

ShowsArrive == \A p \in Procs : Requested(p) ~> ~Requested(p)
=============================================================================
