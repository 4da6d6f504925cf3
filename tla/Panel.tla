-------------------------------- MODULE Panel --------------------------------
(***************************************************************************)
(* What the app knows and shows besides its log (gui/src/core.rs, the      *)
(* commands of gui/src/commands.rs, and the probes and checks of           *)
(* gui/src/proxy.rs): the cached configuration, whether the running proxy  *)
(* is out of date, the state of the outbound proxies, the result of a      *)
(* check.                                                                  *)
(*                                                                         *)
(* Commands run one at a time under the lock of the core, but the files    *)
(* are edited by other programs at any moment, the daemon reads them       *)
(* itself, and probes and checks are tasks that end when they end.         *)
(***************************************************************************)
EXTENDS Integers, FiniteSets, FiniteSetsExt

CONSTANTS
    Paths,       \* configuration files
    Contents,    \* valid configurations
    Broken,      \* the content of a file that is not one
    Missing,     \* the content of a file that is not there
    Unread,      \* a cache that has read nothing
    NoPath,
    Names,       \* names of outbound proxies
    Endpoints, NoEndpoint,
    Direct,      \* the endpoint "none", which a configuration may give: no address
    Endpoint,    \* the endpoint of each name in each configuration
    MaxStamp,    \* bound: edits of the files
    MaxTasks     \* bound: probes of one name at a time

ASSUME PanelAssumption ==
    /\ Contents \cap {Broken, Missing, Unread} = {} /\ NoPath \notin Paths
    /\ Broken # Missing /\ Broken # Unread /\ Missing # Unread
    /\ NoEndpoint \notin Endpoints /\ Direct \notin Endpoints /\ Direct # NoEndpoint
    /\ Endpoint \in [Contents -> [Names -> Endpoints \cup {Direct, NoEndpoint}]]
    /\ MaxStamp \in Nat /\ MaxTasks \in Nat

None == -1   \* no stamp was ever taken

VARIABLES
    clock,      \* the time of the last edit
    files,      \* each file's modification time, 0 if it is not there, and content
    daemon,     \* the daemon that runs: what it read, from where, and when that was written
    core,       \* path in the settings, stamp of the last start, phase, attached daemon
    cache,      \* the configuration as last read
    cmd,        \* the command under way
    probes,     \* the state of each outbound proxy, and if that is older than two minutes
    flight,     \* probes under way, by name, endpoint and whether they were asked for
    check,      \* the check of the credentials: under way, or its result
    overtaken   \* history: a file was edited after a switch's daemon had read it
                \* and before the switch took the file's time

panelVars == <<clock, files, daemon, core, cache, cmd, probes, flight, check, overtaken>>

fileVars  == <<clock, files, overtaken>>
taskVars  == <<probes, flight, check>>

\* Variant with a bug: times are compared in units that two edits can share.
CoarseStamp(path) == (files[path].stamp + 1) \div 2

Stamp(path)   == files[path].stamp
Content(path) == files[path].content
Valid(path)   == Content(path) \in Contents

NoDaemon == [alive |-> FALSE, path |-> NoPath, stamp |-> None, content |-> Unread]
NoCache  == [path |-> NoPath, stamp |-> 0, due |-> TRUE, parsed |-> Unread]
NoCmd    == [pc |-> "idle", job |-> "none", target |-> NoPath, previous |-> NoPath, seen |-> None]
OffCmd   == [NoCmd EXCEPT !.pc = "off"]

Is(pc) == cmd.pc = pc

Running == core.phase = "running"

\* The probes of a name that are under way.
UnderWay(n) == MapThenSumSet(LAMBDA e : flight[n][e][TRUE] + flight[n][e][FALSE], Endpoints)

-----------------------------------------------------------------------------
(* The world: files, daemons, time. *)

\* Every edit leaves a time of its own; a removed file has none.
Edit(path, content) ==
    /\ Content(path) # content
    /\ clock < MaxStamp
    /\ clock' = clock + 1
    /\ files' = [files EXCEPT ![path] =
                    [stamp |-> IF content = Missing THEN 0 ELSE clock', content |-> content]]
    /\ overtaken' = (overtaken \/ (Is("mark") /\ cmd.target = path))
    /\ UNCHANGED <<daemon, core, cache, cmd, taskVars>>

\* The daemon ends by itself.
DaemonEnds ==
    /\ daemon.alive
    /\ daemon' = NoDaemon
    /\ UNCHANGED <<fileVars, core, cache, cmd, taskVars>>

\* Its monitor gets no answer within 750 ms: the daemon is gone, or slow.
MonitorLoses ==
    /\ core.attached /\ Running
    /\ core' = [core EXCEPT !.phase = "failed"]
    /\ UNCHANGED <<fileVars, daemon, cache, cmd, taskVars>>

\* The second passes for which a look at the file is enough.
SecondPasses ==
    /\ ~cache.due /\ cmd.pc # "off"
    /\ cache' = [cache EXCEPT !.due = TRUE]
    /\ UNCHANGED <<fileVars, daemon, core, cmd, taskVars>>

\* A result becomes older than two minutes; a probe takes eight seconds at most.
GetsOld(n) ==
    /\ probes[n].state = "shown" /\ ~probes[n].old
    /\ \A e \in Endpoints, asked \in BOOLEAN : flight[n][e][asked] = 0
    /\ probes' = [probes EXCEPT ![n].old = TRUE]
    /\ UNCHANGED <<fileVars, daemon, core, cache, cmd, flight, check>>

-----------------------------------------------------------------------------
(* Core::refresh_config, and what asks for it: get_state, probe_proxy with *)
(* stale_only when the panel opens, get_traffic.                           *)

\* Controller::probe: pending at once, with a task of its own; an endpoint that
\* is no address is shown as "Invalid proxy URL" at once, and has no task.
Spawn(names, content, asked) ==
    LET probed == {n \in names : Endpoint[content][n] # Direct}
    IN /\ \A n \in probed : UnderWay(n) < MaxTasks
       /\ probes' = [n \in Names |-> IF n \notin names THEN probes[n] ELSE
                        [state |-> IF n \in probed THEN "pending" ELSE "shown", old |-> FALSE]]
       /\ flight' = [n \in Names |-> IF n \in probed
                        THEN [flight[n] EXCEPT ![Endpoint[content][n]][asked] = @ + 1]
                        ELSE flight[n]]

Named(content) == {n \in Names : Endpoint[content][n] # NoEndpoint}

\* Variant with a bug: a probe under way does not count as an answer.
IsStaleOrPending(n) == probes[n].state # "shown" \/ probes[n].old

\* probe_stale: no result yet, or an old one; pending is neither.
IsStale(n) == probes[n].state = "none" \/ (probes[n].state = "shown" /\ probes[n].old)

\* What a command goes on with, under the same lock, once the cache is fresh.
Continue(job, parsed) ==
    IF job = "open" /\ parsed \in Contents
    THEN Spawn({n \in Named(parsed) : IsStale(n)}, parsed, FALSE)
    ELSE UNCHANGED <<probes, flight>>

\* Fresh for a second, or the file has the time it had: nothing is read.
\* Otherwise its time is taken ...
Refresh(job) ==
    LET same == cache.path = core.path
    IN /\ Is("idle")
       /\ IF same /\ (~cache.due \/ (cache.stamp = Stamp(core.path) /\ cache.parsed # Unread))
          THEN /\ cache' = [cache EXCEPT !.due = FALSE]
               /\ Continue(job, cache.parsed)
               /\ UNCHANGED cmd
          ELSE /\ cmd' = [NoCmd EXCEPT !.pc = "load", !.job = job, !.seen = Stamp(core.path)]
               /\ UNCHANGED <<cache, probes, flight>>
       /\ UNCHANGED <<fileVars, daemon, core, check>>

\* ... and then the file is read.
Load ==
    /\ Is("load")
    /\ cache' = [path |-> core.path, stamp |-> cmd.seen, due |-> FALSE, parsed |-> Content(core.path)]
    /\ cmd' = IF cmd.job = "setup" THEN [cmd EXCEPT !.pc = "setup"] ELSE NoCmd
    /\ Continue(cmd.job, Content(core.path))
    /\ UNCHANGED <<fileVars, daemon, core, check>>

-----------------------------------------------------------------------------
(* Core::start and Core::apply_config_path over Controller::try_start. *)

Begin(job, target, previous) ==
    cmd' = [NoCmd EXCEPT !.pc = "validate", !.job = job, !.target = target, !.previous = previous]

\* Start and Restart: the file's time first.
Start ==
    /\ Is("idle")
    /\ core' = [core EXCEPT !.started = Stamp(core.path)]
    /\ Begin("start", core.path, NoPath)
    /\ UNCHANGED <<fileVars, daemon, cache, taskVars>>

\* Another file, or the same, is chosen in the settings: with no daemon to
\* replace it is only remembered.
Switch(path) ==
    /\ Is("idle") /\ Valid(path)
    /\ IF core.attached
       THEN /\ Begin("switch", path, core.of)
            /\ UNCHANGED <<core, cache>>
       ELSE /\ core' = [core EXCEPT !.path = path]
            /\ cache' = NoCache
            /\ UNCHANGED cmd
    /\ UNCHANGED <<fileVars, daemon, taskVars>>

Finish ==
    /\ cmd' = NoCmd
    /\ cache' = NoCache

\* try_start failed: a switch that has lost its daemon starts the old
\* configuration again; the stamp of the last start stays what it is.
Failed(attached) ==
    IF cmd.job = "switch" /\ ~attached
    THEN Begin("restore", cmd.previous, NoPath) /\ UNCHANGED cache
    ELSE Finish

\* "Validate before stopping the working listener."
Validate ==
    /\ Is("validate")
    /\ IF Valid(cmd.target)
       THEN /\ cmd' = [cmd EXCEPT !.pc = IF core.attached THEN "stop" ELSE "stamp"]
            /\ UNCHANGED <<core, cache>>
       ELSE /\ core' = [core EXCEPT !.phase = IF Running THEN @ ELSE "failed"]
            /\ Failed(core.attached)
    /\ UNCHANGED <<fileVars, daemon, taskVars>>

Detached == [core EXCEPT !.attached = FALSE, !.of = NoPath, !.phase = "stopped"]

\* The daemon is stopped ...
StopOld ==
    /\ Is("stop")
    /\ daemon' = NoDaemon
    /\ core' = Detached
    /\ cmd' = IF cmd.job = "stop" THEN NoCmd ELSE [cmd EXCEPT !.pc = "stamp"]
    /\ UNCHANGED <<fileVars, cache, taskVars>>

\* ... or cannot be, and then it stays attached.
StopFails ==
    /\ Is("stop")
    /\ core' = [core EXCEPT !.phase = "failed"]
    /\ IF cmd.job = "stop" THEN cmd' = NoCmd /\ UNCHANGED cache ELSE Failed(TRUE)
    /\ UNCHANGED <<fileVars, daemon, taskVars>>

Stop ==
    /\ Is("idle") /\ core.attached
    /\ cmd' = [NoCmd EXCEPT !.pc = "stop", !.job = "stop"]
    /\ UNCHANGED <<fileVars, daemon, core, cache, taskVars>>

\* The child takes the file's time (daemon::serve) ...
ChildStamps ==
    /\ Is("stamp") /\ Content(cmd.target) # Missing
    /\ cmd' = [cmd EXCEPT !.pc = "read", !.seen = Stamp(cmd.target)]
    /\ UNCHANGED <<fileVars, daemon, core, cache, taskVars>>

Child == [alive |-> TRUE, path |-> cmd.target, stamp |-> cmd.seen, content |-> Content(cmd.target)]

\* ... reads the file, binds and is found: it is attached.  A switch goes on
\* to take the file's time itself; any other command is over.
ChildServes ==
    /\ Is("read") /\ Valid(cmd.target)
    /\ daemon' = Child
    /\ core' = [core EXCEPT !.attached = TRUE, !.of = cmd.target, !.phase = "running"]
    /\ IF cmd.job = "switch"
       THEN cmd' = [cmd EXCEPT !.pc = "mark"] /\ UNCHANGED cache
       ELSE Finish
    /\ overtaken' = FALSE
    /\ UNCHANGED <<clock, files, taskVars>>

\* The file is gone or broken by now, the port is taken, the child dies or
\* is too slow.
ChildFails ==
    /\ Is("stamp") \/ Is("read")
    /\ core' = [core EXCEPT !.phase = "failed"]
    /\ Failed(FALSE)
    /\ UNCHANGED <<fileVars, daemon, taskVars>>

\* The switch succeeded: the time that the file has now, and the new path.
Mark ==
    /\ Is("mark")
    /\ core' = [core EXCEPT !.path = cmd.target, !.started = Stamp(cmd.target)]
    /\ Finish
    /\ UNCHANGED <<fileVars, daemon, taskVars>>

-----------------------------------------------------------------------------
(* Probes and checks. *)

\* "Test" and "Test All", for the configuration as cached.
Probe(names) ==
    /\ Is("idle") /\ cache.parsed \in Contents
    /\ names # {} /\ names \subseteq Named(cache.parsed)
    /\ Spawn(names, cache.parsed, TRUE)
    /\ UNCHANGED <<fileVars, daemon, core, cache, cmd, check>>

\* Variant with a bug: a result for an endpoint that is no longer configured
\* is dropped.
ProbeEndsIfCurrent(n, e, asked) ==
    /\ flight[n][e][asked] > 0
    /\ flight' = [flight EXCEPT ![n][e][asked] = @ - 1]
    /\ probes' = IF cache.parsed \in Contents /\ Endpoint[cache.parsed][n] = e
                 THEN [probes EXCEPT ![n] = [state |-> "shown", old |-> FALSE]]
                 ELSE probes
    /\ UNCHANGED <<fileVars, daemon, core, cache, cmd, check>>

\* An answer, an error or the time limit: shown under the name that was
\* probed, whatever was shown there meanwhile.
ProbeEnds(n, e, asked) ==
    /\ flight[n][e][asked] > 0
    /\ flight' = [flight EXCEPT ![n][e][asked] = @ - 1]
    /\ probes' = [probes EXCEPT ![n] = [state |-> "shown", old |-> FALSE]]
    /\ UNCHANGED <<fileVars, daemon, core, cache, cmd, check>>

\* "Check Credentials", which the panel does not offer while a check runs.
Check ==
    /\ Is("idle") /\ check.at \notin {"begun", "read"}
    /\ check' = [at |-> "begun", path |-> core.path, ok |-> FALSE]
    /\ UNCHANGED <<fileVars, daemon, core, cache, cmd, probes, flight>>

\* Its task reads the configuration that was in the settings then, and the
\* credentials, which may be at fault too.
CheckReads(ok) ==
    /\ check.at = "begun" /\ (ok => Valid(check.path))
    /\ check' = [check EXCEPT !.at = "read", !.ok = ok]
    /\ UNCHANGED <<fileVars, daemon, core, cache, cmd, probes, flight>>

CheckEnds ==
    /\ check.at = "read"
    /\ check' = [check EXCEPT !.at = "shown", !.path = NoPath]
    /\ UNCHANGED <<fileVars, daemon, core, cache, cmd, probes, flight>>

-----------------------------------------------------------------------------
(* The life of the app. *)

NoProbes == [n \in Names |-> [state |-> "none", old |-> FALSE]]
NoFlight == [n \in Names |-> [e \in Endpoints |-> [asked \in BOOLEAN |-> 0]]]
NoCheck  == [at |-> "none", path |-> NoPath, ok |-> FALSE]

NoCore == [path |-> NoPath, started |-> None, phase |-> "stopped", attached |-> FALSE, of |-> NoPath]

\* Variant with a bug: the time that the file has when the app attaches.
AttachedNow(path) ==
    IF daemon.alive
    THEN [path |-> daemon.path, started |-> Stamp(daemon.path), phase |-> "running",
          attached |-> TRUE, of |-> daemon.path]
    ELSE [NoCore EXCEPT !.path = path]

\* Core::new: a daemon that runs is attached, and gives the path and the stamp.
Attached(path) ==
    IF daemon.alive
    THEN [path |-> daemon.path, started |-> daemon.stamp, phase |-> "running",
          attached |-> TRUE, of |-> daemon.path]
    ELSE [NoCore EXCEPT !.path = path]

\* The app is set up with the path in its settings, and the file is read ...
Open(path) ==
    /\ Is("off")
    /\ core' = Attached(path)
    /\ cmd' = [NoCmd EXCEPT !.pc = "load", !.job = "setup", !.target = path,
                           !.seen = Stamp(Attached(path).path)]
    /\ UNCHANGED <<fileVars, daemon, cache, taskVars>>

\* ... to start a daemon if the settings say so and none runs; "--config" with
\* another path than the daemon's restarts in any case.
SetUp(requested, startsProxy) ==
    LET path == IF requested THEN cmd.target ELSE core.path
    IN /\ Is("setup")
       /\ IF path # core.path \/ (startsProxy /\ cache.parsed # Missing /\ ~Running)
          THEN /\ core' = [core EXCEPT !.path = path, !.started = Stamp(path)]
               /\ Begin("start", path, NoPath)
          ELSE /\ cmd' = NoCmd
               /\ UNCHANGED core
       /\ UNCHANGED <<fileVars, daemon, cache, taskVars>>

\* The app ends; the daemon need not, and a child that is on its way may
\* come to serve all the same.
Close ==
    /\ cmd.pc # "off"
    /\ daemon' \in {daemon} \cup (IF Is("read") /\ Valid(cmd.target) THEN {Child} ELSE {})
    /\ cmd' = OffCmd /\ core' = NoCore /\ cache' = NoCache
    /\ probes' = NoProbes /\ flight' = NoFlight /\ check' = NoCheck
    /\ overtaken' = FALSE
    /\ UNCHANGED <<clock, files>>

PanelInit ==
    /\ clock = 1
    /\ \E there \in Paths, content \in Contents :
        files = [path \in Paths |-> IF path = there THEN [stamp |-> 1, content |-> content]
                                                   ELSE [stamp |-> 0, content |-> Missing]]
    /\ daemon = NoDaemon /\ core = NoCore /\ cache = NoCache /\ cmd = OffCmd
    /\ probes = NoProbes /\ flight = NoFlight /\ check = NoCheck
    /\ overtaken = FALSE

Starts == Start \/ Stop \/ \E path \in Paths : Switch(path)

Tests ==
    \/ Refresh("open")
    \/ (\E names \in SUBSET Names : Probe(names)) \/ Check

CommandStep ==
    \/ (\E requested, startsProxy \in BOOLEAN : SetUp(requested, startsProxy))
    \/ Load \/ Validate \/ StopOld \/ StopFails
    \/ ChildStamps \/ ChildServes \/ ChildFails \/ Mark

Edits == \E path \in Paths, content \in Contents \cup {Broken, Missing} : Edit(path, content)

-----------------------------------------------------------------------------
(* Properties. *)

\* The panel's "Restart to Apply": changed_since_start.
Offered == Running /\ core.started # None /\ core.started # Stamp(core.path)

\* What runs is not what is in its file, which is the one in the settings and
\* could be used.  (They differ after "--config" could not replace a daemon.)
OutOfDate ==
    /\ Is("idle") /\ Running /\ daemon.alive /\ core.of = core.path
    /\ Valid(core.path) /\ daemon.content # Content(core.path)

\* "offers a restart when the running proxy is out of date" (README.md:703),
\* through starts, failed starts, switches and their undoing, lost daemons and
\* restarts of the app, unless an edit fell between the daemon's look at the
\* file and the switch's own.
RestartOffered == OutOfDate => Offered \/ overtaken

\* The same without that exception.
AlwaysOffered == OutOfDate => Offered

\* "validates it whenever the file changes" (README.md:702): a cached
\* configuration that is not the file's is one that the next look reads again,
\* whenever the file was edited while it was read or between two looks.  A
\* file that comes and goes around one look has no time before and after it:
\* its absence may be overlooked.
CacheSeesEdits ==
    cache.parsed # Unread /\ cache.stamp = Stamp(cache.path) /\ Content(cache.path) # Missing
        => cache.parsed = Content(cache.path)

\* Opening the panel again and again never has two probes of one name under way.
StaleProbeOnce ==
    \A n \in Names : \A e, f \in Endpoints :
        /\ flight[n][e][FALSE] <= 1
        /\ e # f => flight[n][e][FALSE] + flight[n][f][FALSE] <= 1

\* Whatever is asked meanwhile, a pending probe gets a result and a check ends.
TasksSettle ==
    /\ \A n \in Names : probes[n].state = "pending" ~> probes[n].state # "pending"
    /\ check.at \in {"begun", "read"} ~> check.at \notin {"begun", "read"}
=============================================================================
