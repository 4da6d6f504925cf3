# Formal models of the coding agent proxy

The repository is a local proxy for coding agents (Codex, Claude Code). It
recognises the credential of each request, picks the outbound proxy ("exit")
configured for that account or key, keeps health information about the exits,
and logs every request. A desktop app starts and watches the proxy as a detached
process and shows its log and statistics.

This directory holds TLA+ modules translated from the Rust sources, the TLC
configurations that check them on small instances, and TLAPS proofs of the
properties that matter most. `PROJECT.json` lists components, runs, mutants (the
plausible bugs each property was seen to catch), the lines every definition
stands for, findings, hazards and theorems.

To check one run: `tlc -config MCRouteHealth_operations.cfg MCRouteHealth`.
To check the proofs of a module: `tlapm RouteHealthProofs.tla`.

## 1. The system

| Component | Source | State | Operations | Interacts with |
|---|---|---|---|---|
| Route health and outbound transport | `src/src/server_transport.rs` | the map of health cells (`probes`, at most 256), each an async mutex around `ProbeHealth` | `select_transport`, `send_via`, `connect_via`, `monitor_probes`/`refresh_probes`, `record_health` | called by every request; the network behind each exit |
| Listener, connections, request log of one request | `src/src/server.rs`, `src/src/logger.rs` (`RequestLog`) | 128 permits, a set of tasks, one `RequestLog` per request that changes owners | `serve`, `handle`, `read_head`, `relay_stream`, shutdown | clients, routing, transport, logger, the daemon's shutdown |
| Credential and account routing | `src/src/routing.rs`, `identity.rs`, `claude.rs`, `Server::claude_route` | nothing of its own but the cache of profile answers (at most 128); it reads login files, `.env` files and variables that other programs write | `resolve`, `resolve_refresh`, `check_credentials`, profile lookup | login files, the profile API, the transport |
| Routing by upstream URL | `src/src/url_routing.rs`, `claude_api.rs` | none | `match_route`, `validate_routes`, the selection in `forward` | account routing |
| Request log on disk | `src/src/logger.rs` | `proxy.log`, `proxy.log.1`, dated archives | `write`, `rotate`, `prune`, `new` | every request; the scans and the view of another process |
| Traffic statistics | `src/gui/src/traffic.rs` | none between scans | `read`: dated records, then names and bars | files that another process renames and removes |
| Log view | `src/gui/src/logs.rs` | `LogStore` under a lock (path, entries, generation), a thread with an open file | `set_path`, `clear`, the thread's pass | the log on disk, the user |
| Proxy daemon | `src/gui/src/daemon.rs` | `daemon.lock`, `daemon.json`, control and proxy listeners | `serve`, `Client::stop`, `start` | clients of the control port, the file system, signals |
| Controller of the daemon | `src/gui/src/proxy.rs`, `core.rs` | attached daemon, phase, generation, monitors, settings | start, stop, restart, switch of configuration, detach | daemon processes, settings file |
| Launch, exit, settings commands | `src/gui/src/main.rs`, `commands.rs`, `settings.rs` | `gui.json`, settings in memory | `--config`, auto start, quit, preferences | controller, a second launch |
| Core of the app | `src/gui/src/core.rs`, the rest of `proxy.rs` and `commands.rs` | the cached configuration and its time, the time of the last start, the shown state of each outbound proxy, one check of the credentials | refresh, the offer of a restart, `test_proxies`, `check_credentials` | configuration files that are edited at any time, controller, probe tasks |
| Single-instance guard | `src/gui/src/single_instance.rs` | `gui.lock`, `gui.port`, the port's queue of connections | `acquire`, `listen` | launches, the panel |
| Configuration, `.env` parser, tunnel wire formats, command line, windows, web view, scripts | see `PROJECT.json` | - | - | - |

### What is hard about it, and what makes each part correct

* **Route health.** Requests, cold probes, a background monitor and CONNECT
  attempts change one cell's counter of consecutive failures in any order, across
  awaits, with deadlines, cancellations, retries and evictions in between. It is
  correct if a route's verdict is always the judgement of the observations heard
  one at a time, if a late background probe never undoes a live success, if a
  logical request counts once, is not replayed through another exit, and if an
  exit that works again is found again.
* **Connections.** A task ends in a dozen ways, and its permit and its last log
  event are released by destructors. It is correct if no permit is lost or
  returned early, if each logged request has exactly one last event, and if a
  clean stop completes the log.
* **Account routing.** Files are read one after the other, with awaits between,
  while other programs log in, rotate and log out. It is correct if a request is
  never routed as an account that its token does not belong to, if a request that
  meets no change gets the answer of the files as they are, if refreshes follow
  the requests of their login, if the credential check accepts exactly what
  requests can use, and if a URL that names its upstream takes the innermost
  declared route.
* **Log on disk, statistics, view.** The writer renames and removes files that
  two readers of another process follow by name. It is correct if nothing younger
  than the retention is lost, nothing is appended to an archive, a scan counts
  each line of its window exactly once and gives a name to one account only, and
  the view follows the live file.
* **Daemon and controller.** Several processes start, stop, fail and crash
  around one lock, one discovery file and one port; an app waits for them, is
  killed and launched again. It is correct if one daemon serves at a time and can
  be found, if the answer to a stop means that everything is released, if a
  failed switch of configuration is undone, if late monitors are ignored, and if
  commands return.
* **Core of the app and launches.** Configuration files change between any two
  looks at them; a failed start, a switch, a lost daemon and a restart of the app
  each leave another combination of remembered times behind. Probes end in any
  order. Launches race for a lock and for a port that is published later than the
  lock is taken. It is correct if a daemon that runs an old configuration is
  shown as out of date, if a cached configuration is never mistaken for the
  file's, if opening the panel does not multiply probes, if nothing stays pending,
  and if a launch that finds an app has its request answered.

## 2. The modules

| Module | Models | Checked by | Proofs |
|---|---|---|---|
| `ExitHealth` | the abstract promise of the health cache | refinement from `RouteHealth` | `ExitHealthProofs` |
| `RouteHealth` | `server_transport.rs` | `MCRouteHealth`, runs `operations`, `recovery` | `RouteHealthProofs`, `ExitHealthProofs` |
| `Connections` | `Server::serve`, `handle`, `relay_stream`, `RequestLog` | `MCConnections`, run `connections` | `ConnectionsProofs` |
| `UrlRouting` | `url_routing.rs` and its callers' choices, as operators | through `AccountRouting` | `AccountRoutingProofs` |
| `AccountRouting` (extends `UrlRouting`) | `routing.rs`, `identity.rs`, `claude.rs`, `Server::claude_route`, `cache_claude_profile`, part of `forward` and of `validate` | `MCAccountRouting`, runs `accounts`, `late_metadata` | `AccountRoutingProofs` |
| `TrafficReport` | names and bars of `traffic.rs`, as operators | through `LogStore` | - |
| `RetainedLog` | the abstract promise of the request log to a reader | refinement from `LogStore` | `LogStoreProofs` |
| `LogStore` (extends `TrafficReport`) | `logger.rs` and `traffic.rs` | `MCLogStore`, run `log_store` | `LogStoreProofs` |
| `LogFeed` | `logs.rs` | `MCLogFeed`, run `log_feed` | `LogFeedProofs` |
| `Daemon` | `daemon.rs`, the process | through `DaemonControl` | `DaemonProofs` |
| `DaemonControl` (extends `Daemon`) | `proxy.rs`, `core.rs`, launch and exit of `main.rs`, `commands.rs` | `MCDaemonControl`, runs `control`, `control_live`, `path_forgotten` | `DaemonProofs` |
| `SingleInstance` | `single_instance.rs` | through `App` | `AppProofs` |
| `Panel` | what `core.rs` caches and shows; probes and checks of `proxy.rs` | through `App` | `AppProofs` |
| `App` (extends `SingleInstance`, `Panel`) | `main.rs`: a launch becomes an app, and ends | `MCApp`, runs `app`, `restart_not_offered` | `AppProofs` |

In every module an action is what one task, thread or process does between two
points where another one can run: an await, the release of a lock, or, between
processes, each single operation on the file system or a socket. Definitions
named "Variant with a bug" are not part of a specification: they are the mutated
forms used to see that a property can fail.

### RouteHealth

`probes` is `Server.probes`, from route to the identity of a cell; `health` is
the `ProbeHealth` in each cell; `owner` is who holds the cell's mutex across an
await. `op` is where each logical operation's task stands: `look` (the cell is
looked up or created), `lock`, `probe` (a cold probe, mutex held), `send` and
`flight` (attempts), `report` and `observe` (`record_health`), and for CONNECT
`gate` and `dial`. `mon` and `current` are the monitor's round. `net` is what an
exit does now; `Turn` changes it at any time. A cancelled operation is a future
that is dropped where it stands; a deadline is a flag set at any time
(`Expire`). `trusted`, `heard`, `carried` and `reports` are history, read by no
action of the code. Abstracted: time between checks is a flag `due`, set by
`Elapse`; a client that cannot be built is an outcome; the errors of a transport
are the few kinds that the code tells apart.

`ExitHealth` is the promise: `verdict[k]` changes only by `Hear` of one
observation (one success restores, one hard failure or three transient ones in
a row disable) or by `Forget`. `ImplementsExitHealth` maps a route to the grade of
its cell. It is both checked and proved.

### Connections

`conn[c].stage` runs from `backlog` over `head` (read and checked before Hyper
sees it), `handling`, `streaming` (the body owns the log) or `upgrading` and
`relaying` to `writing` and `closed`. `conn[c].client` says whether the client reads
what it is sent, stalls, or has left. `permits` is the semaphore. `Report` is the
destructor of `RequestLog`. Shutdown aborts every task and joins it; the daemon
gives up on that after 5 s.

### UrlRouting and AccountRouting

A URL is an origin and a path of segments. `MatchRoute` is the longest declared
base that contains it; `Declaring`, `Service` and `BeginExplicit` are what
`forward` makes of a target that names its upstream: refused when both
applications declare it, routed without a look at any login when one does, left
to the logins and keys of the service whose request it is otherwise (`Finish`
and `Under` then compare the upstream).

A configuration names its account sources: directories with a login file
(`ReadHome`), `.env` files, and a variable that the process's environment, the
login shell or a file may give (`ReadVariable`). A request reads one source per
step (`ReadSource`), then decides. Claude goes on to the metadata in the other
file (`Identify`), the profile cache and the profile API. The command line clients
change the files at any moment; a Claude login is two writes, in either order.
`CheckCredentials` is the check that the command line and the app run on the same
sources. `Valid` is what `Config::validate`, `Claude::validate` and
`validate_directories` demand of a configuration, as far as routing depends on it.
A key is found in its variable or a provider's or settings file; one whose variable
only a login shell has is not looked for once a login has matched (`KeysFound`,
`routing.rs:74`, `claude.rs:470`), so it makes no request ambiguous then. A settings
file that is named and of no use (`broken`) refuses every Claude request that comes
to the keys, those of a saved login too (`claude.rs:466`). Each key has the upstream
of its provider or settings file (`base`), a login that of the accounts; `Finish`
compares that one with the URL that a request names, and a usage query goes only to
the accounts' upstream (`Queries`, `query_url`).
A login stands for its access and its refresh token. Abstracted: how a shell finds
the value of a variable, the parsing of files and tokens, and the shapes of URLs
beyond origin and segments.

### TrafficReport, LogStore, RetainedLog and LogFeed

Files have identities; names are variables (`live`, `backup`, `archives`). The
logger stamps a line before it takes its mutex, then writes, or rotates in single
steps (`Archive`, `Shift`, `Prune`, `Open`), each of which can fail or be the
last before a crash. A scan opens the two live names, lists the archives and
reads; `Import` lets another program put an old file into the directory. When it
has read the last file, `TrafficReport` gives each account key the name that is
shown, and counts the requests into the slots of the chart. The view looks keys and
accounts up in one table (`traffic.rs:270-276`): a key called as a recorded account is
would be given the account's name, and `OneName` leaves requests of such keys out
(`OfAccountOnly`).

`RetainedLog` is the promise of all this: one log, in which a line is stored at
most once (`Store`) and from which only what is older than the retention is ever
forgotten (`Forget`), and questions about a window of it. An answer counts each
request once: all that were in the log when the question was asked and are not
older than the retention when it is answered, and others only if they were stored.
The exception is real: the longest range is the retention (`traffic.rs:100`,
`logger.rs:10`), and the clock goes on while a scan runs. `ImplementsRetainedLog` takes for the log the lines of
all named files and for the question a scan, whose counts are an answer only when it
ends. It is both checked and proved.

`LogFeed` has the thread's pass in five steps (`Look`, `Stat`, `Open`, `Read`,
`Ingest`) against a daemon that appends and rotates by name and a user who
switches paths and clears. It has its own, simpler disk: composing it with
`LogStore` is planned.

### Daemon and DaemonControl

A process runs through the stages `forked`, `locked`, `read`, `bound`, `serving`,
`stopping`, `released`, `unlisted`, `unlocked`, `gone`, in the order of `serve`;
`Crash` can strike anywhere and leaves `daemon.json`. Its `queue` holds the stop
requests that it has not read, those that nobody waits for any more included
(`Forsake`): `TakeStop` needs one, so a daemon may end long after the command that
asked for it gave up, and a daemon may hang at every point.

`gui` is the app's one command at a time, in the points at which it waits for
another process, with the controller's fields; `monitors` are the tasks that poll
attached daemons; `disk` is the path in the settings file. A stop is refused
(`AskRefused`), cannot be sent (`AskFails`), is answered (`Answered`), or is not
(`Unanswered`: the connection is reset, or the 7 s of `STOP_TIMEOUT` pass, with the
daemon in any state). A monitor may lose a daemon at any time (`MonitorLoses`): its
request may fail or exceed 750 ms although the daemon lives, and so may the one
by which a launch looks for a daemon. `missed` is history: a request to the attached
daemon has failed since it was attached. `Kill` and `Launch` restart the app;
`SecondLaunch` writes the settings before it finds that it is the second.

### SingleInstance, Panel and App

`proc[p].pc` is where a launch stands: `lock`, then either `bind`, `truncate`,
`publish`, `setup`, `up`, or `read`, `connect`, `write`, and `ended`; `unguarded`
is the app that runs without a lock file. `holder` is who has `gui.lock`;
`portFile` is what `gui.port` says (`NoPort` while it is empty); `queue[port]` are
the connections that wait there, each with what it has said. `seen`, `met` and
`shown` are the port that a launch read and, as history, whether it met an app
that could be found and whether that app answered. Other programs may take a
connection at the port and be silent.

`Panel` has the files with their modification times, the daemon (what it read,
from where, with which time), `core` (path, time of the last start, phase,
attached or not), the cached configuration (`cache`), one command of the core at a
time (`cmd`, in the points at which files are looked at), the shown state of each
outbound proxy (`probes`), the probe tasks under way (`flight`) and the one check
of credentials (`check`). A probe of an endpoint that is no address (`Direct`:
`validate` lets only `none` through) is shown as invalid at once and has no task.
`Load` is `load_config`: the time first, then the
content. `overtaken` is history: an edit fell between a daemon's look at its file
and the switch's own.

`App` composes the two: an app that has the lock opens its panel, then listens;
when the process ends, the panel goes with it and the daemon stays. Three
operators of it are bounds, not code: `Early` (launches race only before anything
was done in a panel), `Alone` and `Followed` (afterwards one app at a time comes
and goes).

## 3. The runs

| Run | Question | Bounds, and why they are enough | States |
|---|---|---|---|
| `operations` | Is the health of a route right under every race? | Two operations, two exits, and the plans that put them on one exit with the monitor, or on lists in opposite order, or on three routes for a cache of two, so that entries evict each other while cells are in use. A cell is shared by at most an operation holding it, one waiting and the monitor, so two operations and the monitor give every pairwise race. `MaxFailures = 3` is the first value at which the counter saturates after disabling. The network is `foul` (any outcome at any time), which contains the other behaviours. | 826 k |
| `recovery` | Does everything end, and is a working exit found again? | Two operations and two exits, in three pairs (`Paired`): two cold requests that wait for the mutex of one exit; a retried list of two, whose first exit is slow and may become unavailable, against a request for that exit; two tunnels over both exits in opposite order, of which one goes down and comes back. So waits for a mutex, retries, the walk over a list and CONNECT all happen, and each pair ends. | 194 k |
| `log_store` | Are lines kept, in the right file, counted exactly once and named for one account, as if there were one log? | Four files of one line: a rotation per line, all three generations of a name and one pruned. Retention and window are 1, as long as each other as in the longest range, and the clock goes on during a scan: lines lie inside, at and beyond each cutoff, and a file that a scan still owes is pruned before it is read. With a scan, the daemon neither crashes nor tears lines (constraint `Focused`); without one, it does. | 3.6 M |
| `control` | Do start, stop, switch, crash and relaunch keep app and daemon consistent? | Two live processes (numbers are reused when nothing refers to them), two configurations of which one is edited and contested, two generations: a late monitor of the first meets the second. | 1.3 M |
| `control_live` | Do commands return, is a loss noticed? | Two processes, one configuration, one generation. | 103 k |
| `path_forgotten` | Is the remembered path kept? (finding) | Two configurations. | violation |
| `connections` | Permits, last events, the order of the last lines, the end of every request. | Three connections for two permits: one is refused. Two of the clients may stop reading and go on at any time (`OneReads`), so both permits can be held by clients that stall. | 240 k |
| `accounts` | Is every request routed as it should be, whatever changes meanwhile? | Eleven configurations of both services that between them use every routing rule, every kind of source and of key (a key that only a login shell has, or that is a login's token with an upstream of its own) and a broken settings file, and nine with tables of URLs; two requests (one for URLs), two directories, three logins for the cache of two, a key, two changes of the files. The constraint `Focused` says which combinations run together. | 388 k |
| `late_metadata` | Is metadata only used with its token? (finding) | As above. | violation |
| `log_feed` | Does the view show the live log, and catch up? | Three files of three lines, two paths, a view of two entries: overflow, backfill cut, two rotations, a switch. | 1.4 M |
| `app` | Does the app notice edits, does its panel settle, are launches answered? | Three processes: the holder of the lock, one that finds it, and one that takes the lock after it ended; two ports, so that `gui.port` can name one that is free or somebody else's. Two files with a first content and another, three times: an edit between any two looks of one command. A third configuration gives the proxy's endpoint as `none`, which validation accepts and no probe can reach. Two probes of one name at a time, at the endpoints of the others. | 403 k |
| `restart_not_offered` | Is a restart always offered? (finding) | As above. | violation |

Deadlock is checked except where a system may rest: `accounts`, `late_metadata`,
`connections`, `log_feed`, `log_store`, `app` and `restart_not_offered` have bounds
after which nothing is left to do. Symmetry is used for identities that no
definition orders, and in no run with a liveness property.

### What they show

* Route health: `ColdProbeHoldsLock`, `LiveSuccessStands`, `OneObservation`,
  `NoReplay`, `CacheBounded`, `ImplementsExitHealth`, `OperationsEnd`, `Recovers`.
* Connections: `PermitsCounted`, `OneTerminalEvent`, `CancelledWithCause`,
  `StoppedLast`, `RequestsEnd`.
* Routing: `OwnAccount`, `UrlRouted`, `SameRoute`, `SnapshotAnswer`,
  `CheckedRoutes`, `LeastRecentlyUsed`.
* Log: `AppendsToLive`, `ScanExact`, `OneName`, `ImplementsRetainedLog`; view:
  `FaithfulView`, `CatchesUp`. That a stored line stays for the retention
  (`Retained`) is a part of the refinement, so no run checks it again.
* Daemon and controller: `OneListener`, `ListedWhileServing`, `AnswerReleasesAll`,
  `OldListenerClosed`, `SettingIsLive`, `SwitchKeepsControl`, `FailureHasCause`,
  `LossNoticed`, `CommandsReturn`.
* App: `RestartOffered`, `CacheSeesEdits`, `StaleProbeOnce`, `LaunchAnswered`,
  `TasksSettle`, `ShowsArrive`.

The types are proved for every instance (section 4) and are not checked again by
the runs; `TypeOK` of `AccountRouting` carries the bound of the profile cache and
that no token is in it twice.

Six of the properties have an exception, which is the code's own and is named in
them:

* `FaithfulView` speaks of the passes that no rotation and no switch of the path
  crossed (the history variable `crossed`). In a crossed pass the code can show
  lines twice, or show lines of the old path in the new one's view; the repository
  promises nothing about those and `CatchesUp` holds all the same.
* `RestartOffered` excepts the daemon that was `overtaken` by an edit (the third
  finding), and speaks of daemons that run the file of the settings: after a
  `--config` or a switch that could not replace the daemon (`core.rs:164-171`) the
  two differ and the code compares the time of another file.
* `CacheSeesEdits` excepts a file that comes and goes around one look: no time is
  taken before or after it, so its absence may be overlooked until the next look.
* `LaunchAnswered` excepts a launch that needs more than a second to write its
  four bytes.
* `ScanExact` excepts requests that grow older than the retention while a scan runs
  (`Kept`): the longest range is as long as the retention, so their file may be
  pruned before the scan reads it.
* `RequestsEnd` excepts a connection whose client has stopped to read (`Unread`):
  the code puts no limit on writing to it (`server.rs:812`), until a shutdown.

### Findings

1. `late_metadata`: README.md:150 says that local metadata "is never reused for a
   different incoming token". `Claude::resolve` (`claude.rs:448`) reads it after
   the token, from another file; a login in between gives another account's proxy.
2. `path_forgotten`: README.md:705 says that `--config` is remembered. A second
   launch saves it (`main.rs:57`) before it finds that an app is running, whose
   next saved preference writes its own older path back.
3. `restart_not_offered`: README.md:702-703 says that the app "validates it whenever
   the file changes and offers a restart when the running proxy is out of date". A
   switch takes the file's time (`core.rs:177`) after the daemon has read it; an
   edit in between is never offered.

A related remark that no run is spent on: README.md:313 says that concurrent
initial lookups share a probe. `health_state` (`server_transport.rs:374`) evicts
any entry of a full cache, one under a cold probe included, and the next request
probes that route again.

### Fairness

* `RouteHealth`: tasks that can run do (weak fairness of their steps); deadlines
  pass (tokio timers); waiting for a cell's mutex is strongly fair, because
  tokio's mutex serves its queue in order. No answer of the network is assumed:
  an attempt ends because its deadline does.
* `Connections`: each task is polled; a head has 30 s, the handler's request and a
  relay have deadlines. What writes to a client goes on whenever the client reads
  (again and again suffices: strong fairness), and fails when it has left. Nothing is
  assumed of clients, and writing to one that stalls has no limit in the code:
  `RequestsEnd` names this case (`Unread`) as the only one in which a connection stays,
  and it stays only until a shutdown.
* `DaemonControl`: only the app's own tasks and time limits are fair: a command whose
  wait is over goes on, a wait for a stop ends after 7 s (`Unanswered`), one for a
  started process after its own limit (`GiveUp`), and a status request that nobody
  answers fails. The daemons owe nothing: they may hang for ever.
* `LogFeed`: the thread runs every 350 ms, for ever.
* `App`: a launch that has its port goes on; commands, each probe and the check
  go on. Probes and checks have time limits of their own; the listening thread
  waits at most a second for the four bytes of a connection. Nothing is assumed
  of launches that write, of strangers or of edits.
* Safety properties assume nothing.

## 4. The proofs

All of them hold for every value of the constants that satisfies the named
assumptions (one or two in each module, next to its constants), which TLC evaluates
on the instances of the runs.

* `RouteHealthProofs`: `TypeCorrect`, `LockDiscipline` (`ColdProbeHoldsLock`) and
  `LateProbesIgnored` (`LiveSuccessStands`). `TypeOK` is not inductive: that an
  attempt's counter stays in range depends on where an operation can be for what
  it was asked to do (`Shape`), and that a late probe is ignored depends on
  `trusted` excluding `current` and on the monitor probing initialized cells only
  (`MonitorShape`). `SafetyInv` is the conjunction; one lemma per action.
  `ObservedOnce` (`OneObservation`) and `SentThroughOne` (`NoReplay`) follow from an
  invariant that counts, for each place of an operation, what it has reported and
  carried so far.
* `ExitHealthProofs`: `NeverOverfull` (`CacheBounded`) and
  `CacheImplementsExitHealth`. `CacheInv` adds to `SafetyInv` that no two routes
  share a cell, that a cell belongs to the route it is filed under, and that its
  counter and its verdict fit together. `StepKinds` shows that, for the cache, any
  step is one of three: quiet, one observation of one cell, or a lookup that may
  evict. A quiet step is a stutter of `ExitHealth`, an observation is `Hear` and an
  eviction `Forget`.
* `LogStoreProofs`: `StoreTyped`, `OnlyTheLogGrows` (`AppendsToLive`),
  `KeptForRetention` (`Retained`), `ScanCountsOnce` (`ScanExact`),
  `CountedUnderOneName` (`OneName`), `LogImplementsRetainedLog`
  (`ImplementsRetainedLog`) and `SlotInChart`, that a counted request has a bar. `StoreInv` says where each identity of a file
  can be while a rotation is half done, and that the file of a line is not younger
  than the line (`Dated`). `ScanInv` says that a request of the window is counted or
  lies in a file still ahead of the scan, or is no longer kept. The hard case is a
  file pruned while the scan runs: its lines are older than the file (`Dated`), and
  so older than the retention (`~Kept`), which they stay. `LabelInv` does the same for names: an
  account in a file that the window reaches is known, or a file ahead tells it,
  or the line that tells it is no longer kept (`Hears`), and every name that is known was configured or given by a line (`Told`).
  What one file teaches is a recursion over its lines (`LearnAll`). That the recursion
  is well defined (`LearnAllRuns`) and what is known after each line (`LearnAllGrows`)
  are proved by induction on the line, as the absence of a least counterexample
  (`LeastNumber`, from the well-foundedness of the naturals).
  The refinement needs two more invariants: a line is written once and only
  stored lines can be read (`OnceInv`), and what a scan has counted was stored and
  ended in its window (`SoundInv`). `LogSteps` then shows that a step of the logger,
  an import or the clock is one of five things, a stutter, a stamp, a tick, a line
  stored, or lines forgotten that are old enough, and `ScanKinds` that of a scan only
  its begin, its end and its dropping are steps of the question.
* `ConnectionsProofs`: `ConnectionsTyped`, `NoPermitLost`, `EndedOnce`,
  `CancelledForCause`, `CompleteLog` (`StoppedLast`, from `Joined`: no task is left
  when serve returns). A step changes at most one connection's record, so the
  invariant is a predicate of single records (`Sound`, `Caused`) and a count.
  `Sound` strengthens `OneTerminalEvent`: a log exists only from the received
  head on. `ConnStep` shows once, with the cardinality theorems, that records and
  permits stay in step.
* `DaemonProofs`: `DaemonTyped`, `LockHeld` (`LockDiscipline`, inductive given
  the types), from which `AtMostOneListens` follows; `Discoverable` is a step on
  top: while a process serves, only the lock's holder can write or remove
  `daemon.json`. `ControlTyped` needs `Coherent`, the relation between the fields
  of a waiting command. `ControlledDaemons` shows that each step of the composed
  system is a step of the daemons or leaves them alone, so `ControlledSafety`
  carries the daemons' theorems over to the composition; so does
  `AnsweredWhenReleased` (`AnswerReleasesAll`) with `AnsweredReleased`.
  `FailuresHaveCause` (`FailureHasCause`), `SettingsAreLive` (`SettingIsLive`),
  `SwitchesKeepControl` (`SwitchKeepsControl`) and `PortFreeAfterStop`
  (`OldListenerClosed`) are about what the app believes of its daemon and rest on
  `ControlInv`: the attached daemon has been serving, can from there only end and
  closes its port on the way (`Settled`), its number is not used again while
  something refers to it, what a command aims at agrees with the settings and with
  the daemon it replaces, only monitors of the present generation watch the
  attached daemon, and one of them that has lost it, which it may report at any later
  time, has missed an answer of that daemon and no other. The invariant is stated of the app's record and the daemons'
  records as separate arguments, so that a step of the daemons and a step of the
  app are proved apart (`DaemonsGoOn`, `StillBelieves`).
* `AccountRoutingProofs`, first part: `ChosenIsInnermost` and `ChoiceIsUnique`, about
  the matcher for any set of routes: two prefixes of one path nest (`PrefixesNest`),
  so the longest base lies within all others that contain the URL, and distinct bases
  cannot tie. The order in which the code walks its map therefore does not matter.
* `AccountRoutingProofs`, second part: `RoutingTyped`, `OwnAccountHeld` (`OwnAccount`)
  and `UrlsRouted` (`UrlRouted`). `RoutingInv` is the types, the cache (an entry
  belongs to a token that its account holds) and one invariant per request
  (`ReqInv`): only logins of the request's token match a source, a request goes on
  to metadata only after a match, Codex never does, and a request whose upstream
  is still to be chosen by its login names none that a table declares. `UrlsRouted`
  then rests on `ChosenIsInnermost`.
* `AccountRoutingProofs`, third part: `SnapshotsAnswered` (`SnapshotAnswer`),
  `CheckedAreRouted` (`CheckedRoutes`), `SameRouteHeld` (`SameRoute`) and `OldestLeaves`. Logins are
  read one source after the other, so `RoutingInv` alone knows nothing of the whole.
  `ReadInv` (`ReadInvariant`) says it of a request that no change has overtaken: what
  it has found is each source before the next one that holds its token, once
  (`Lists`), the variable is as far as the directories agree on it (`Agreed`), and
  later what it concluded from that is what the files still say (`Concludes`). It
  claims nothing of a request that a change has overtaken, as the properties do not. A
  sequence that lists a set has as many places as the set elements (`ListedCount`),
  which turns the code's comparison of lengths into the property's count of routes.
  Each way of answering is then judged in a lemma (`AnswerJudged`), and both action
  properties follow. `SameRoute` compares two answers given at different times;
  `RouteInv` adds that an answer of the present files is the one of its only source
  (`Settled`), a model request's and a refresh's alike, until the files change.
  `OldestLeaves` (`LeastRecentlyUsed`) rests on `UsedInv`: the cache is in the order of
  the last answers. The history variable `served` tells for each token which others
  had an answer since it had one; removing an entry wherever it stands, and the
  first one, keep the order (`RemovedOrder`, `TailOrder`), and what is used goes last
  (`ServedOrder`).
* `LogFeedProofs`: `FeedTyped` and `ViewIsFaithful` (`FaithfulView`). The property says
  nothing of the thread, which reads from one file while the view's log may have
  become another; `PassInv` relates the two as long as nothing crossed a pass: the
  view ends in the thread's file exactly where the thread is in it (`EndsAt`), the
  lines in the thread's hands are the next ones, and the log's present file is the
  one that is open or is not in the view at all. A thread that has not seen the last
  switch stands between two passes and the view is empty. That lines are shown
  without gaps is stated as an order of neighbours (`Gapless`), so that appending and
  cutting from the front (`Keep`) are two lemmas about sequences (`LinesFit`,
  `KeepNewest`).
* `AppProofs`: `RestartIsOffered` (`RestartOffered`), `CacheIsFresh` (`CacheSeesEdits`),
  `StaleProbesAreSingle` (`StaleProbeOnce`) and `LaunchIsAnswered` (`LaunchAnswered`).
  `StartInv` is what makes the offer right: outside a start that still has the old
  daemon, the remembered time is the file's only if the daemon has the file's
  content, unless an edit overtook the switch; it needs the order of all times
  (`FilesInv`, `DaemonInv`: a time was taken before now and goes with one content)
  and where a command can be for what it does (`CmdInv`). `ProbeInv` says that a name
  whose result is missing or old has no probe under way that nobody asked for.
  `MetInv` follows a launch from the published port over the connection to the
  answer, and rests on `LockInv`: only the holder of the lock has a port. The steps
  are proved for the actions without `App`'s bounds (`NextPanel`, `NextInstance`: a
  step of `App` is one of these, or leaves the part alone), so the bounds play no part.

Only model-checked: everything under fairness (`OperationsEnd`, `Recovers`,
`RequestsEnd`, `LossNoticed`, `CommandsReturn`, `CatchesUp`, `TasksSettle`,
`ShowsArrive`), since liveness under fairness and ENABLED are beyond the prover. Every
invariant and action property of the runs is proved.

## 5. Not modelled

* Parsing (YAML, TOML, the `.env` dialect, JWT, HTTP heads, the handshakes of
  tunnels), header filtering and redaction are functions from data to data without
  state, and are represented by their outcomes. So are the overrides and the
  normalisation of the configuration, and the labels of credentials in the
  statistics (`traffic_credential_labels`).
* Windows, tray, icons, placement, web view, service files and scripts are
  presentation or packaging.
* The login shell is asked for a variable once; only whether it is asked, and its
  answer, are in the model.
* Lines cut by a full disk or a crash are in `LogStore` (`Tear`), but no property
  is about them.

Each component's note in `PROJECT.json` says what is left out of it.

## 6. Plan

Done, in the order of importance:

1. `ExitHealth`, `RouteHealth`, its runs and proofs, the refinement step by step.
2. `LogStore` with the scan, `TrafficReport`, `RetainedLog`, and their proofs.
3. `Daemon`, `DaemonControl`, lock and discovery proofs, composition.
4. `Connections` and its proofs.
5. `AccountRouting` with directories, `.env` files and variables, `UrlRouting`, and
   their proofs.
6. `LogFeed`.
7. `SingleInstance`, `Panel` and their composition `App`, and their proofs, those of
   `LogFeed`, and of what the routing answers while no file changes.

Left:

8. `LogFeed` on the disk of `LogStore`: the crossed passes, crashes and archives
   seen by one module.
9. `Connections` composed with `Daemon` (the drain, the 5 s limit, the answer to
   the stop request).
