------------------------------- MODULE Daemon -------------------------------
(***************************************************************************)
(* The detached proxy process, gui/src/daemon.rs: at most one of them      *)
(* serves, elected by the exclusive lock on daemon.lock, and a client      *)
(* finds it through daemon.json, which names its control port and token.   *)
(*                                                                         *)
(* The lock is released by the system when a process dies; daemon.json is  *)
(* not removed then.  A clean end removes daemon.json first, releases the  *)
(* lock next, and only then answers the client that asked for the end.     *)
(*                                                                         *)
(* An element of Daemons stands for one process with its token: a number   *)
(* is used again only once nothing refers to the process that had it.      *)
(***************************************************************************)
EXTENDS Integers, FiniteSets

CONSTANTS
    Daemons,    \* processes
    Configs,    \* configuration files; each names a proxy port of its own
    NoOne,      \* no process
    Edited,     \* bound: the configuration files that change
    Contested   \* bound: those whose ports other programs use

ASSUME DaemonAssumption ==
    /\ NoOne \notin Daemons
    /\ Configs # {} /\ Edited \subseteq Configs /\ Contested \subseteq Configs

VARIABLES
    daemon,     \* of each process, its stage, its configuration, whether its
                \* proxy port is open, the stop requests sent to it and the one
                \* it has taken
    holder,     \* who holds daemon.lock
    endpoint,   \* whom daemon.json names
    usable,     \* the configuration files that would be accepted now
    taken       \* the proxy ports that other programs listen on

daemonVars == <<daemon, holder, endpoint, usable, taken>>

----------------------------------------------------------------------------
(* serve() runs through these stages in order; it leaves the line of       *)
(* startup, or of service, for "released" whenever it returns.             *)

Starting == {"forked", "locked", "read", "bound"}
Ending   == {"stopping", "released", "unlisted", "unlocked"}
Stages   == {"gone", "serving"} \cup Starting \cup Ending

At(d, stage) == daemon[d].stage = stage

\* Who owns a Registration: the lock file and the duty to remove daemon.json.
Registered(d) ==
    daemon[d].stage \in {"locked", "read", "bound", "serving", "stopping", "released", "unlisted"}

\* Some task of the process listens on the proxy port.
Listening(d) == daemon[d].open

\* The control loop takes requests only here: it is entered after daemon.json
\* is written and left before the listeners are dropped.
Answers(d) == At(d, "serving")

\* Its control port is open: what is sent is queued until it is read.
Connects(d) == daemon[d].stage \in {"serving", "stopping"}

\* A connection to the control port is refused: the port is closed.
Refuses(d) == daemon[d].stage \in {"released", "unlisted", "unlocked", "gone"}

\* Stop requests that are sent and not read: the client waits, or has left; it
\* may have left any number of them.
Requests == {"awaited", "given up"}

\* No stop request of a client that still waits has been taken; "asked" one is
\* held, "timeout" it is held and the server did not end in time; the other two
\* are answers on the wire.
Replies == {"none", "asked", "timeout", "stopped", "error"}

Move(d, stage) == daemon' = [daemon EXCEPT ![d].stage = stage]

\* Its proxy port is closed with that, and its control port: the connections
\* whose requests were not read are reset.
Leave(d, stage, reply) ==
    daemon' = [daemon EXCEPT ![d] = [stage |-> stage, config |-> daemon[d].config, open |-> FALSE,
                                     queue |-> {}, reply |-> reply]]

----------------------------------------------------------------------------
(* Startup.                                                                *)

\* start(): the process is created for a configuration.
Fork(d, c) ==
    /\ At(d, "gone")
    /\ daemon' = [daemon EXCEPT ![d] = [stage |-> "forked", config |-> c, open |-> FALSE,
                                        queue |-> {}, reply |-> "none"]]
    /\ UNCHANGED <<holder, endpoint, usable, taken>>

\* Variant with a bug: the guard that removes daemon.json is made first.
LockAfterRegistration(d) ==
    /\ At(d, "forked")
    /\ IF holder = NoOne
       THEN /\ Move(d, "locked") /\ holder' = d
            /\ UNCHANGED endpoint
       ELSE /\ Move(d, "gone") /\ endpoint' = NoOne
            /\ UNCHANGED holder
    /\ UNCHANGED <<usable, taken>>

\* Variant with a bug: the result of try_lock is dropped.
LockIgnored(d) ==
    /\ At(d, "forked")
    /\ Move(d, "locked") /\ holder' = d
    /\ UNCHANGED <<endpoint, usable, taken>>

\* The lock is taken, or the process ends with nothing to undo.
Lock(d) ==
    /\ At(d, "forked")
    /\ IF holder = NoOne
       THEN Move(d, "locked") /\ holder' = d
       ELSE Move(d, "gone") /\ UNCHANGED holder
    /\ UNCHANGED <<endpoint, usable, taken>>

\* The configuration is read again, by the daemon itself.
ReadConfig(d) ==
    /\ At(d, "locked")
    /\ Move(d, IF daemon[d].config \in usable THEN "read" ELSE "released")
    /\ UNCHANGED <<holder, endpoint, usable, taken>>

\* Both listeners are bound; the proxy port may belong to another program.
Bind(d) ==
    /\ At(d, "read")
    /\ IF \/ daemon[d].config \in taken
          \/ \E e \in Daemons : Listening(e) /\ daemon[e].config = daemon[d].config
       THEN Move(d, "released")
       ELSE daemon' = [daemon EXCEPT ![d].stage = "bound", ![d].open = TRUE]
    /\ UNCHANGED <<holder, endpoint, usable, taken>>

\* daemon.json is replaced atomically, after both listeners are bound.
Publish(d) ==
    /\ At(d, "bound")
    /\ Move(d, "serving") /\ endpoint' = d
    /\ UNCHANGED <<holder, usable, taken>>

\* Any other error on the way ends the startup: files, sockets.  The server's
\* task, once spawned, is not waited for: it listens until the process ends.
StartupFails(d) ==
    /\ daemon[d].stage \in {"locked", "read", "bound"}
    /\ Move(d, "released")
    /\ UNCHANGED <<holder, endpoint, usable, taken>>

----------------------------------------------------------------------------
(* Service and its end.                                                    *)

\* Client::request: an authenticated Stop is sent.  One client at a time waits.
Request(d) ==
    /\ Connects(d)
    /\ daemon' = [daemon EXCEPT ![d].queue = @ \cup {"awaited"}]
    /\ UNCHANGED <<holder, endpoint, usable, taken>>

\* The client that waits gives up, or dies: its request stays what it is, and
\* the answer will reach nobody.
Forsake(d) ==
    /\ daemon' = [daemon EXCEPT
            ![d].queue = IF "awaited" \in @ THEN {"given up"} ELSE @,
            ![d].reply = IF @ \in {"asked", "timeout"} THEN "none" ELSE @]
    /\ UNCHANGED <<holder, endpoint, usable, taken>>

\* The request that was sent first leaves the control loop, which keeps its
\* stream; the others are not read any more.  Those that were given up were
\* sent before the one that is awaited.
TakeStop(d) ==
    /\ At(d, "serving") /\ daemon[d].queue # {}
    /\ LET first == IF "given up" \in daemon[d].queue THEN "given up" ELSE "awaited"
       IN daemon' = [daemon EXCEPT ![d].stage = "stopping",
                                   ![d].queue = @ \ {first},
                                   ![d].reply = IF first = "awaited" THEN "asked" ELSE "none"]
    /\ UNCHANGED <<holder, endpoint, usable, taken>>

\* SIGTERM or Ctrl-C leaves it with nobody to answer.
Signal(d) ==
    /\ At(d, "serving")
    /\ Move(d, "stopping")
    /\ UNCHANGED <<holder, endpoint, usable, taken>>

\* The server itself returns, on a failing accept: serve returns at once.
ServerEnds(d) ==
    /\ At(d, "serving")
    /\ Leave(d, "released", daemon[d].reply)
    /\ UNCHANGED <<holder, endpoint, usable, taken>>

\* Variant with a bug: the answer is sent as soon as the server has ended.
DrainAnswers(d) ==
    /\ At(d, "stopping")
    /\ Leave(d, "released", IF daemon[d].reply = "asked" THEN "stopped" ELSE "none")
    /\ UNCHANGED <<holder, endpoint, usable, taken>>

\* The server has 5 s to end before it is aborted; either way its listener
\* is gone afterwards, and the control listener is dropped too.
Drain(d) ==
    /\ At(d, "stopping")
    /\ \/ Leave(d, "released", daemon[d].reply)
       \/ Leave(d, "released", IF daemon[d].reply = "asked" THEN "timeout" ELSE "none")
    /\ UNCHANGED <<holder, endpoint, usable, taken>>

\* Registration::drop removes daemon.json, whosever it is; its lock file is
\* dropped after that.
Unlist(d) ==
    /\ At(d, "released")
    /\ Move(d, "unlisted") /\ endpoint' = NoOne
    /\ UNCHANGED <<holder, usable, taken>>

\* The lock file is closed.
Unlock(d) ==
    /\ At(d, "unlisted")
    /\ Move(d, "unlocked") /\ holder' = NoOne
    /\ UNCHANGED <<endpoint, usable, taken>>

\* The client that asked is answered, and the process ends.
Acknowledge(d) ==
    /\ At(d, "unlocked")
    /\ Leave(d, "gone", CASE daemon[d].reply = "asked" -> "stopped"
                          [] daemon[d].reply = "timeout" -> "error"
                          [] OTHER -> "none")
    /\ UNCHANGED <<holder, endpoint, usable, taken>>

\* The process dies: the system closes its sockets and its lock.
Crash(d) ==
    /\ ~At(d, "gone")
    /\ Leave(d, "gone", "none")
    /\ holder' = IF holder = d THEN NoOne ELSE holder
    /\ UNCHANGED <<endpoint, usable, taken>>

----------------------------------------------------------------------------
(* The environment: files are edited, ports are taken and released.        *)

EditConfig(c) ==
    /\ usable' = IF c \in usable THEN usable \ {c} ELSE usable \cup {c}
    /\ UNCHANGED <<daemon, holder, endpoint, taken>>

\* A port can be taken only while no daemon listens on it.
TakePort(c) ==
    /\ \A d \in Daemons : Listening(d) => daemon[d].config # c
    /\ taken' = IF c \in taken THEN taken \ {c} ELSE taken \cup {c}
    /\ UNCHANGED <<daemon, holder, endpoint, usable>>

----------------------------------------------------------------------------
DaemonInit ==
    /\ daemon \in [Daemons -> [stage : {"gone"}, config : {CHOOSE c \in Configs : TRUE},
                             open : {FALSE}, queue : {{}}, reply : {"none"}]]
    /\ holder = NoOne /\ endpoint = NoOne
    /\ usable = Configs /\ taken = {}

\* What the process does by itself.
DaemonStep(d) ==
    \/ Lock(d) \/ ReadConfig(d) \/ Bind(d) \/ Publish(d)
    \/ TakeStop(d) \/ Drain(d) \/ Unlist(d) \/ Unlock(d) \/ Acknowledge(d)

\* What befalls it.
Mishap(d) == StartupFails(d) \/ Signal(d) \/ ServerEnds(d) \/ Crash(d)

Environment ==
    \/ \E c \in Edited : EditConfig(c)
    \/ \E c \in Contested : TakePort(c)

DaemonNext ==
    \/ \E d \in Daemons : DaemonStep(d) \/ Mishap(d) \/ Request(d) \/ Forsake(d)
    \/ \E d \in Daemons, c \in Configs : Fork(d, c)
    \/ Environment

DaemonSpec == DaemonInit /\ [][DaemonNext]_daemonVars

----------------------------------------------------------------------------
(* Properties.                                                             *)

DaemonTypeOK ==
    /\ daemon \in [Daemons -> [stage : Stages, config : Configs, open : BOOLEAN,
                             queue : SUBSET Requests, reply : Replies]]
    /\ \A d \in Daemons : daemon[d].reply = "none" \/ daemon[d].stage \in Ending \cup {"gone"}
    /\ holder \in Daemons \cup {NoOne}
    /\ endpoint \in Daemons \cup {NoOne}
    /\ usable \subseteq Configs /\ taken \subseteq Configs

\* Processes that start and stop at the same time never listen at the same
\* time, whatever ports their configurations name: the lock comes first and
\* goes last.  (One whose startup has failed may still listen when it has
\* released the lock.)
OneListener ==
    \A d, e \in Daemons :
        Listening(d) /\ Listening(e) /\ Registered(d) /\ Registered(e) => d = e

\* A daemon that serves is the one that daemon.json names: neither the end of
\* an older daemon, nor a newer one that cannot get the lock, nor a crash
\* hides it, so a client can always reach it and stop it.
ListedWhileServing == \A d \in Daemons : At(d, "serving") => endpoint = d

\* The owner of the Registration is the holder of the lock.
LockDiscipline == \A d \in Daemons : Registered(d) <=> holder = d
=============================================================================
