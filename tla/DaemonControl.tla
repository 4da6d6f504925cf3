---------------------------- MODULE DaemonControl ----------------------------
(***************************************************************************)
(* The desktop app's side of the daemon: the Controller of                 *)
(* gui/src/proxy.rs, which attaches to a daemon, starts and stops one and  *)
(* watches it; gui/src/core.rs, which switches configurations and undoes a *)
(* switch that fails; and the launch and the exit of gui/src/main.rs.      *)
(*                                                                         *)
(* Commands run on the main thread, one at a time, but each of them waits  *)
(* for other processes several times.  Meanwhile the monitors, tasks of    *)
(* the Controller's runtime, poll the daemons they were made for, daemons  *)
(* come and go, configuration files are edited, the app itself is killed   *)
(* and launched again, and a second launch writes the settings file before *)
(* it finds that it is the second.                                         *)
(***************************************************************************)
EXTENDS Daemon

CONSTANTS
    NoConfig,       \* no configuration was named
    MaxGeneration   \* bound: no command starts in a later generation than this

ASSUME ControlAssumption == NoConfig \notin Configs /\ MaxGeneration \in Nat

VARIABLES
    gui,        \* the app: where its command stands, and what it believes
    monitors,   \* the watching tasks
    disk        \* the configuration gui.json names

vars == <<daemonVars, gui, monitors, disk>>
guiVars == <<gui, monitors, disk>>

----------------------------------------------------------------------------
(* A command is a sequence of these points: the target configuration is    *)
(* validated, the running daemon is asked to stop, its answer is awaited,  *)
(* a new daemon is created and polled for.                                 *)

Points == {"down", "idle", "check", "ask", "wait", "fork", "poll"}
Jobs   == {"none", "start", "stop", "quit", "switch", "restore"}
Phases == {"stopped", "running", "failed"}

Down == [pc |-> "down", job |-> "none", phase |-> "stopped", generation |-> 0,
         running |-> NoOne, child |-> NoOne, setting |-> NoConfig, target |-> NoConfig,
         previous |-> NoConfig, named |-> NoConfig, missed |-> FALSE]

Is(pc) == gui.pc = pc

\* The main thread is free for a command.
Idle == Is("idle") /\ gui.generation <= MaxGeneration

\* core.start: try_start for the configuration of the settings.
Begin(job, target, g) == [g EXCEPT !.pc = "check", !.job = job, !.target = target]

\* attach: a new generation, and a monitor for it.  (missed is no variable of
\* the code: it records that a request to the daemon attached now has failed.)
Attached(d, g) ==
    [g EXCEPT !.running = d, !.generation = @ + 1, !.phase = "running", !.missed = FALSE]
Monitor(d, g) == [of |-> d, generation |-> g.generation, lost |-> FALSE]

\* A command is over.
Done(g) == [g EXCEPT !.pc = "idle", !.child = NoOne, !.target = NoConfig, !.previous = NoConfig]

\* Variant with a bug: a failed switch is never undone.
NotRestored(g) == Done(g)

\* try_start has failed.  A failed switch writes the old settings back and,
\* if the old daemon was stopped for it, starts that configuration again.
TryFailed(g) ==
    IF g.job = "switch" /\ g.running = NoOne
    THEN [g EXCEPT !.pc = "check", !.job = "restore", !.target = g.previous, !.child = NoOne]
    ELSE Done(g)
Unsave(g) == disk' = IF g.job = "switch" THEN g.setting ELSE disk

----------------------------------------------------------------------------
(* Launch.                                                                 *)

\* Settings are loaded and --config replaces the path in them, also on disk.
\* Core::new attaches to a daemon that answers, which a live one need not do in
\* time, and takes over its path; then main starts a daemon if --config named
\* another path, or if none was found and auto-start is on.
Launch(named) ==
    /\ Is("down")
    /\ LET setting == IF named = NoConfig THEN disk ELSE named
           fresh   == [Down EXCEPT !.pc = "idle", !.setting = setting, !.named = named]
           live    == daemon[endpoint].config
           found   == [Attached(endpoint, fresh) EXCEPT !.setting = live]
       IN \/ /\ endpoint # NoOne /\ Answers(endpoint)
             /\ monitors' = {Monitor(endpoint, found)}
             /\ IF named \notin {NoConfig, live}
                THEN /\ gui' = Begin("start", named, [found EXCEPT !.setting = named])
                     /\ disk' = named
                ELSE gui' = found /\ disk' = live
          \/ /\ monitors' = {} /\ disk' = setting
             /\ gui' \in {fresh, Begin("start", setting, fresh)}
    /\ UNCHANGED daemonVars

\* Another process is launched with --config: it saves the path, finds that
\* it is not alone, and ends.
SecondLaunch(named) ==
    /\ ~Is("down")
    /\ disk' = named
    /\ UNCHANGED <<daemonVars, gui, monitors>>

----------------------------------------------------------------------------
(* Commands.                                                               *)

\* Start and Restart are the same command.
Start ==
    /\ Idle
    /\ gui' = Begin("start", gui.setting, gui)
    /\ UNCHANGED <<daemonVars, monitors, disk>>

Stop ==
    /\ Idle /\ gui.running # NoOne
    /\ gui' = [gui EXCEPT !.pc = "ask", !.job = "stop"]
    /\ UNCHANGED <<daemonVars, monitors, disk>>

\* Variant with a bug: the new path is in the settings before it is in use.
SwitchSettingFirst(c) ==
    /\ Idle /\ c \in usable
    /\ disk' = c
    /\ gui' = IF gui.running = NoOne
              THEN [gui EXCEPT !.setting = c, !.named = NoConfig]
              ELSE [Begin("switch", c, gui) EXCEPT !.previous = daemon[gui.running].config,
                                                   !.setting = c]
    /\ UNCHANGED <<daemonVars, monitors>>

\* apply_config_path: the file is validated and the settings are saved before
\* anything is touched; a daemon under control is replaced.
Switch(c) ==
    /\ Idle /\ c \in usable
    /\ disk' = c
    /\ gui' = IF gui.running = NoOne
              THEN [gui EXCEPT !.setting = c, !.named = NoConfig]
              ELSE [Begin("switch", c, gui) EXCEPT !.previous = daemon[gui.running].config]
    /\ UNCHANGED <<daemonVars, monitors>>

\* update_settings writes all the settings, as this process has them.
SavePreferences ==
    /\ Is("idle")
    /\ disk' = gui.setting
    /\ UNCHANGED <<daemonVars, gui, monitors>>

\* Quit leaves the daemon alone or stops it, and stays if it cannot.
Quit(keep) ==
    /\ Is("idle")
    /\ gui' = IF keep THEN Down
              ELSE IF gui.running = NoOne THEN [Down EXCEPT !.job = "quit"]
              ELSE [gui EXCEPT !.pc = "ask", !.job = "quit"]
    /\ monitors' = IF keep \/ gui.running = NoOne THEN {} ELSE monitors
    /\ UNCHANGED <<daemonVars, disk>>

\* The app is killed; what it started goes on, and what it asked for.
Kill ==
    /\ ~Is("down")
    /\ gui' = Down /\ monitors' = {}
    /\ IF Is("wait") THEN Forsake(gui.running) ELSE UNCHANGED daemonVars
    /\ UNCHANGED disk

----------------------------------------------------------------------------
(* The steps of try_start and stop.                                        *)

\* "Validate before stopping the working listener."
Check ==
    /\ Is("check")
    /\ IF gui.target \in usable
       THEN /\ gui' = [gui EXCEPT !.pc = IF gui.running = NoOne THEN "fork" ELSE "ask"]
            /\ UNCHANGED disk
       ELSE /\ gui' = TryFailed([gui EXCEPT
                            !.phase = IF @ = "running" THEN @ ELSE "failed"])
            /\ Unsave(gui)
    /\ UNCHANGED <<daemonVars, monitors>>

\* stop() returned Ok: control is released.  Aborting a monitor has no effect
\* on one that is past its last wait.
Stopped ==
    LET free == [gui EXCEPT !.running = NoOne, !.generation = @ + 1, !.phase = "stopped",
                            !.missed = FALSE]
    IN CASE gui.job = "stop" -> gui' = Done(free) /\ monitors' = {m \in monitors : m.lost}
         [] gui.job = "quit" -> gui' = [Down EXCEPT !.job = "quit"] /\ monitors' = {}
         [] OTHER -> /\ gui' = [free EXCEPT !.pc = "fork"]
                     /\ monitors' = {m \in monitors : m.lost}

\* stop() returned an error: nothing is released.
NotStopped ==
    LET failed == [gui EXCEPT !.phase = "failed", !.missed = TRUE]
    IN /\ gui' = IF gui.job \in {"stop", "quit"} THEN Done(failed) ELSE TryFailed(failed)
       /\ Unsave(gui)
       /\ UNCHANGED monitors

\* The daemon is asked.  A closed port means that it has stopped.
AskRefused ==
    /\ Is("ask") /\ Refuses(gui.running)
    /\ Stopped
    /\ UNCHANGED <<daemonVars, disk>>

\* The connection fails in another way, or takes longer than 750 ms.
AskFails ==
    /\ Is("ask")
    /\ NotStopped
    /\ UNCHANGED daemonVars

AskSent ==
    /\ Is("ask") /\ Request(gui.running)
    /\ gui' = [gui EXCEPT !.pc = "wait"]
    /\ UNCHANGED <<monitors, disk>>

HasAnswer(d) == daemon[d].reply \in {"stopped", "error"}

\* The answer arrives: the daemon has stopped, or it had to abort its server.
Answered ==
    /\ Is("wait") /\ HasAnswer(gui.running)
    /\ IF daemon[gui.running].reply = "stopped"
       THEN Stopped /\ UNCHANGED disk
       ELSE NotStopped
    /\ UNCHANGED daemonVars

\* Variant with a bug: a wait that has been long enough passes for a stop.
TimeoutIgnored ==
    /\ Is("wait") /\ ~HasAnswer(gui.running)
    /\ Forsake(gui.running)
    /\ Stopped
    /\ UNCHANGED disk

\* Variant with a bug: reads have no timeout, only a reset ends the wait.
NoReadTimeout ==
    /\ Is("wait") /\ daemon[gui.running].reply = "none"
    /\ "awaited" \notin daemon[gui.running].queue
    /\ Forsake(gui.running)
    /\ NotStopped

\* The connection ends without an answer, or 7 s pass: nobody waits any more
\* for what was asked, which the daemon may still do.
Unanswered ==
    /\ Is("wait") /\ ~HasAnswer(gui.running)
    /\ Forsake(gui.running)
    /\ NotStopped

\* A number is reused only when nothing refers to it any more.
Unreferenced(d) ==
    /\ At(d, "gone")
    /\ d \notin {endpoint, gui.running} \cup {m.of : m \in monitors}

ForkDaemon ==
    /\ Is("fork")
    /\ \E d \in Daemons :
        /\ Unreferenced(d) /\ Fork(d, gui.target)
        /\ gui' = [gui EXCEPT !.pc = "poll", !.child = d]
    /\ UNCHANGED <<monitors, disk>>

StartFailed ==
    /\ gui' = TryFailed([gui EXCEPT !.phase = "failed"])
    /\ Unsave(gui)
    /\ UNCHANGED monitors

\* The process or its stderr file cannot be created.
ForkFails == Is("fork") /\ StartFailed /\ UNCHANGED daemonVars

\* Discovery finds the child itself: it is attached, and the command is over.
\* A switch takes effect in the settings only now.
Ready ==
    /\ Is("poll") /\ endpoint = gui.child /\ Answers(gui.child)
    /\ LET attached == Attached(gui.child, gui)
       IN /\ gui' = Done(IF gui.job = "switch"
                         THEN [attached EXCEPT !.setting = gui.target, !.named = NoConfig]
                         ELSE attached)
          /\ monitors' = monitors \cup {Monitor(gui.child, attached)}
    /\ UNCHANGED <<daemonVars, disk>>

ChildEnded == Is("poll") /\ At(gui.child, "gone") /\ StartFailed /\ UNCHANGED daemonVars

\* After 5 s the child is killed.
GiveUp == Is("poll") /\ Crash(gui.child) /\ StartFailed

----------------------------------------------------------------------------
(* Monitors: a failed status request, then the report under the lock.      *)

\* It fails whenever it takes longer than 750 ms, and surely if nobody answers.
MonitorLoses(m) ==
    /\ m \in monitors /\ ~m.lost
    /\ monitors' = (monitors \ {m}) \cup {[m EXCEPT !.lost = TRUE]}
    /\ gui' = [gui EXCEPT !.missed = @ \/ m.of = gui.running]
    /\ UNCHANGED <<daemonVars, disk>>

\* Variant with a bug: a monitor speaks for whatever is attached.
MonitorReportsAny(m) ==
    /\ m \in monitors /\ m.lost
    /\ monitors' = monitors \ {m}
    /\ gui' = [gui EXCEPT !.phase = "failed"]
    /\ UNCHANGED <<daemonVars, disk>>

\* Variant with a bug: generations are compared the wrong way round.
MonitorReportsOthers(m) ==
    /\ m \in monitors /\ m.lost
    /\ monitors' = monitors \ {m}
    /\ gui' = [gui EXCEPT !.phase = IF m.generation = gui.generation THEN @ ELSE "failed"]
    /\ UNCHANGED <<daemonVars, disk>>

MonitorReports(m) ==
    /\ m \in monitors /\ m.lost
    /\ monitors' = monitors \ {m}
    /\ gui' = [gui EXCEPT !.phase = IF m.generation = gui.generation THEN "failed" ELSE @]
    /\ UNCHANGED <<daemonVars, disk>>

----------------------------------------------------------------------------
Init ==
    /\ DaemonInit
    /\ gui = Down /\ monitors = {}
    /\ disk \in Configs

Command ==
    \/ \E c \in Configs \cup {NoConfig} : Launch(c)
    \/ Start \/ Stop \/ SavePreferences
    \/ \E c \in Configs : Switch(c)
    \/ \E keep \in BOOLEAN : Quit(keep)

Progress ==
    \/ Check \/ AskRefused \/ AskFails \/ AskSent \/ Answered \/ Unanswered
    \/ ForkDaemon \/ ForkFails \/ Ready \/ ChildEnded \/ GiveUp

Watch == \E m \in monitors : MonitorLoses(m) \/ MonitorReports(m)

World ==
    /\ \/ \E d \in Daemons : DaemonStep(d) \/ Mishap(d)
       \/ Environment
    /\ UNCHANGED guiVars

Next ==
    \/ Command \/ Progress \/ Watch \/ World
    \/ Kill \/ \E c \in Configs : SecondLaunch(c)

Spec == Init /\ [][Next]_vars

\* A command that waits goes on once its wait is over, the tasks of the monitors
\* are polled, and a status request that nobody answers fails.  The daemons owe
\* nothing: they may hang at any point.
Fairness ==
    /\ WF_vars(Progress)
    /\ WF_vars(\E m \in monitors : ~Answers(m.of) /\ MonitorLoses(m))
    /\ WF_vars(\E m \in monitors : MonitorReports(m))

LiveSpec == Spec /\ Fairness

----------------------------------------------------------------------------
(* Properties.                                                             *)

\* What the fields of gui say of each other: a command that waits knows for
\* which process, and a command that starts a daemon for which configuration.
Coherent ==
    /\ gui.pc # "down" => gui.setting \in Configs
    /\ gui.pc \in {"ask", "wait"} => gui.running # NoOne
    /\ gui.pc = "poll" => gui.child # NoOne
    /\ \/ gui.pc \in {"check", "fork", "poll"}
       \/ gui.pc \in {"ask", "wait"} /\ gui.job \notin {"stop", "quit"}
       => gui.job \in {"start", "switch", "restore"} /\ gui.target \in Configs
    /\ gui.job = "switch" /\ gui.pc \notin {"idle", "down"} => gui.previous \in Configs
    /\ gui.running = NoOne => gui.phase # "running"
    /\ gui.phase = "stopped" => gui.running = NoOne
    /\ gui.missed => gui.running # NoOne

TypeOK ==
    /\ DaemonTypeOK
    /\ gui \in [pc : Points, job : Jobs, phase : Phases, generation : Nat,
                running : Daemons \cup {NoOne}, child : Daemons \cup {NoOne},
                setting : Configs \cup {NoConfig}, target : Configs \cup {NoConfig},
                previous : Configs \cup {NoConfig}, named : Configs \cup {NoConfig},
                missed : BOOLEAN]
    /\ Coherent
    /\ monitors \subseteq [of : Daemons, generation : Nat, lost : BOOLEAN]
    /\ disk \in Configs

\* "Never launch a replacement unless the old listener has stopped": whenever
\* control of a daemon ends because it was stopped, its port is free for the
\* next one, whichever way its end was learnt.
OldListenerClosed ==
    [][\A d \in Daemons :
        d = gui.running /\ gui'.running = NoOne /\ gui'.phase = "stopped" /\ gui'.pc # "down"
            => ~Listening(d)]_vars

\* The answer to a stop request means more: the lock and the discovery file
\* are released too, so that a daemon started at once gets them.
AnswerReleasesAll ==
    \A d \in Daemons : daemon[d].reply = "stopped" => ~Registered(d) /\ endpoint # d

\* The app reports a daemon that it controls as failed only if a request to
\* that daemon, of its monitor or of a stop, has failed since it was attached:
\* a failure of an earlier daemon that is reported late says nothing of it, nor
\* does a command that failed before.
FailureHasCause == gui.phase = "failed" /\ gui.running # NoOne => gui.missed

\* A controlled daemon runs the configuration of the settings, across
\* switches that fail half way and relaunches, unless the user named another
\* one at launch, which may turn out to be unusable.
SettingIsLive ==
    Is("idle") /\ gui.running # NoOne
        => gui.setting \in {daemon[gui.running].config, gui.named}

\* A configuration that cannot be used never costs the user the running
\* daemon: a switch that has stopped it and has no other to show for it does
\* not end, but goes on to bring the old one back.
SwitchKeepsControl == Is("idle") /\ gui.job = "switch" => gui.running # NoOne

\* The app never claims for long that a daemon runs which does not.
LossNoticed ==
    (gui.phase = "running" /\ Is("idle") /\ ~Answers(gui.running))
        ~> (gui.phase # "running" \/ ~Is("idle"))

\* Every command returns, whatever the daemon does meanwhile, and also if it
\* does nothing any more.
CommandsReturn == ~(Is("idle") \/ Is("down")) ~> (Is("idle") \/ Is("down"))

\* README.md:705: "--config and files explicitly selected in Settings are
\* remembered": saving another preference leaves the path that is on disk.
PathRemembered == [][SavePreferences => UNCHANGED disk]_vars
=============================================================================
