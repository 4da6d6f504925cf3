-------------------------------- MODULE App --------------------------------
(***************************************************************************)
(* The app as a whole (gui/src/main.rs): the launch protocol of            *)
(* SingleInstance and, in the app that has the lock, the state that Panel  *)
(* describes.  An app without the lock file has a panel of its own, which  *)
(* is not followed.                                                        *)
(*                                                                         *)
(* Bounds: launches race while no panel was opened yet; afterwards one app *)
(* at a time comes and goes, as process Follow at port FollowAt, and it    *)
(* either manages the daemon or tests proxies and credentials.             *)
(***************************************************************************)
EXTENDS SingleInstance, Panel

CONSTANTS Follow, FollowAt, FirstPath, FirstContent

ASSUME FollowAssumption == Follow \in Procs /\ FollowAt \in Ports /\ FirstPath \in Paths /\ FirstContent \in Contents

vars == <<instanceVars, panelVars>>

\* The bounds named above.
Early ==
    /\ daemon = NoDaemon /\ core.started = None /\ probes = NoProbes /\ check = NoCheck
    /\ clock = 1
Alone == \A p \in Procs \ {Follow} : proc[p] = Absent
Followed ==
    /\ Alone /\ queue[FollowAt] = <<>>
    /\ \/ proc[Follow] = Absent
       \/ proc[Follow].pc \in {"setup", "up"} /\ portFile = FollowAt /\ proc[Follow].port = FollowAt

Idle     == Is("idle") /\ Followed /\ Stands(Follow, "up")
Testing  == ~daemon.alive /\ core.phase = "stopped"
Starting == probes = NoProbes /\ check = NoCheck

-----------------------------------------------------------------------------

Launch(p) ==
    /\ StartProcess(p)
    /\ Early \/ (Alone /\ p = Follow)
    /\ UNCHANGED panelVars

Race(p) == Acquire(p) /\ UNCHANGED panelVars

\* main.rs: Core::new and what it starts come first, then the thread listens.
OpenApp(p) ==
    /\ Stands(p, "setup") /\ holder = p
    /\ \E path \in Paths : (Early => path = FirstPath) /\ Open(path)
    /\ UNCHANGED instanceVars

ListenApp(p) ==
    /\ Is("idle") /\ Listen(p)
    /\ UNCHANGED panelVars

EndApp(p) ==
    /\ End(p)
    /\ IF holder = p /\ ~Is("off") THEN Close ELSE UNCHANGED panelVars

Serve(p) == ListenStep(p) /\ UNCHANGED panelVars

Stranger(port) ==
    /\ Early
    /\ StrangerCalls(port)
    /\ UNCHANGED panelVars

Forget(p) == Reuse(p) /\ UNCHANGED panelVars

\* What the panel does, and what happens around it.
Asked == Idle /\ (Refresh("state") \/ (Starting /\ Starts) \/ (Testing /\ Tests)) /\ UNCHANGED instanceVars

Around ==
    /\ Followed
    /\ Edits \/ DaemonEnds \/ MonitorLoses \/ SecondPasses \/ \E n \in Names : GetsOld(n)
    /\ UNCHANGED instanceVars

Goes  == CommandStep /\ UNCHANGED instanceVars

Ends(n) == (\E e \in Endpoints, asked \in BOOLEAN : ProbeEnds(n, e, asked)) /\ UNCHANGED instanceVars
Checks  == (CheckEnds \/ \E ok \in BOOLEAN : CheckReads(ok)) /\ UNCHANGED instanceVars

Init ==
    /\ InstanceInit /\ PanelInit
    /\ \A path \in Paths : Content(path) \in (IF path = FirstPath THEN {Missing} ELSE {FirstContent})

Next ==
    \/ \E p \in Procs :
        \/ Launch(p) \/ Race(p) \/ OpenApp(p) \/ ListenApp(p)
        \/ EndApp(p) \/ Serve(p) \/ Forget(p)
    \/ \E port \in Ports : Stranger(port)
    \/ Asked \/ Around \/ Goes
    \/ (\E n \in Names : Ends(n)) \/ Checks

\* A launch that has bound its port goes on to publish it, to set the app up
\* and to listen.
Proceed(p) ==
    \/ (Truncate(p) \/ Publish(p) \/ PublishFails(p)) /\ UNCHANGED panelVars
    \/ OpenApp(p) \/ ListenApp(p) \/ Serve(p)

\* Code that is under way runs on: launches, commands, probes, checks.  Probes
\* and checks have time limits of their own; a command waits for no one.
Fairness ==
    /\ \A p \in Procs : WF_vars(Proceed(p))
    /\ WF_vars(Goes)
    /\ \A n \in Names : WF_vars(Ends(n))
    /\ WF_vars(Checks)

Spec == Init /\ [][Next]_vars /\ Fairness
=============================================================================
