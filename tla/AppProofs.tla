------------------------------ MODULE AppProofs ------------------------------
(***************************************************************************)
(* What the app promises, for any number of processes, ports, files,       *)
(* configurations and edits: no launch that met a findable app is lost, an *)
(* out-of-date proxy is offered a restart, the cache hides no edit, and    *)
(* opening the panel starts one probe of a name.                           *)
(***************************************************************************)
EXTENDS App, SequenceTheorems, TLAPS

-----------------------------------------------------------------------------
(* The launch protocol: only the holder of the lock has a port, and as long *)
(* as an app can be found nobody else touches gui.port.                    *)

ProcType ==
    [pc : {"off", "lock", "bind", "truncate", "publish", "setup", "up", "unguarded",
           "read", "connect", "write", "ended"},
     port : Ports \cup {NoPort}, seen : Ports \cup {NoPort},
     met : Procs \cup {NoProc}, shown : BOOLEAN]

CallType == [from : Procs \cup {NoProc}, said : {"nothing", "show", "closed"}]

InstanceTypeOK ==
    /\ proc \in [Procs -> ProcType] /\ holder \in Procs \cup {NoProc}
    /\ portFile \in Ports \cup {NoPort} /\ queue \in [Ports -> Seq(CallType)]

LockInv ==
    \A p \in Procs :
        /\ proc[p].pc \in {"bind", "truncate", "publish", "setup", "up"} => holder = p
        /\ proc[p].port # NoPort => proc[p].pc \in {"truncate", "publish", "setup", "up"}

Has(s, call) == \E i \in DOMAIN s : s[i] = call

\* What p may count on after it has met the app q.
Met(p, q) ==
    /\ q \in Procs /\ Found(q)
    /\ proc[p].pc = "connect" => proc[p].seen = proc[q].port
    /\ proc[p].pc = "write" => Has(queue[proc[q].port], Call(p, "nothing"))
    /\ proc[p].pc = "ended" => proc[p].shown \/ Has(queue[proc[q].port], Call(p, "show"))

MetBy(p) ==
    proc[p].met # NoProc /\ proc[p].pc \in {"read", "connect", "write", "ended"} => Met(p, proc[p].met)

MetInv == \A p \in Procs : MetBy(p)

InstanceInv == InstanceTypeOK /\ LockInv /\ MetInv

-----------------------------------------------------------------------------
(* The panel. *)

FileContents == Contents \cup {Broken, Missing}
Somewhere    == Paths \cup {NoPath}

FileType   == [stamp : Nat, content : FileContents]
DaemonType == [alive : BOOLEAN, path : Somewhere, stamp : Int, content : FileContents \cup {Unread}]
CoreType   == [path : Somewhere, started : Int, phase : {"stopped", "running", "failed"},
               attached : BOOLEAN, of : Somewhere]
CacheType  == [path : Somewhere, stamp : Int, due : BOOLEAN, parsed : FileContents \cup {Unread}]
CmdType    == [pc : {"off", "idle", "load", "setup", "validate", "stop", "stamp", "read", "mark"},
               job : {"none", "state", "open", "setup", "start", "stop", "switch", "restore"},
               target : Somewhere, previous : Somewhere, seen : Int]

PanelTypeOK ==
    /\ clock \in Nat /\ files \in [Paths -> FileType] /\ daemon \in DaemonType
    /\ core \in CoreType /\ cache \in CacheType /\ cmd \in CmdType /\ overtaken \in BOOLEAN

\* A time was taken before now, and goes with one content.
FilesInv == \A path \in Paths : Stamp(path) <= clock /\ (Stamp(path) = 0 <=> Content(path) = Missing)

Busy == cmd.pc \in {"validate", "stop", "stamp", "read", "mark"}

CmdInv ==
    /\ cmd.pc # "off" => core.path \in Paths
    /\ cmd.pc = "load" => 0 <= cmd.seen /\ cmd.seen <= clock
    /\ cmd.pc = "read" => 1 <= cmd.seen /\ cmd.seen <= clock
    /\ cmd.pc \in {"load", "setup"} /\ cmd.job = "setup" => cmd.target \in Paths
    /\ cmd.pc = "setup" => cmd.job = "setup"
    /\ Busy /\ cmd.job # "stop" => cmd.target \in Paths
    /\ Busy => cmd.job \in {"start", "stop", "switch", "restore"}
    /\ Busy /\ cmd.job = "stop" => cmd.pc = "stop"
    /\ Busy /\ cmd.job = "switch" => cmd.previous \in Paths
    /\ cmd.pc = "validate" /\ cmd.job = "switch" => core.attached
    /\ cmd.pc \in {"stamp", "read"} => ~core.attached
    /\ cmd.pc = "mark" => core.of = cmd.target
    /\ core.attached => core.of \in Paths
    /\ Running => core.attached
    /\ cmd.pc = "off" => ~core.attached

CacheInv ==
    cache.parsed # Unread =>
        /\ cache.path \in Paths /\ cache.stamp <= clock
        /\ cache.stamp = Stamp(cache.path) /\ Content(cache.path) # Missing
             => cache.parsed = Content(cache.path)

DaemonInv ==
    daemon.alive =>
        /\ daemon.path \in Paths /\ 1 <= daemon.stamp /\ daemon.stamp <= clock
        /\ daemon.stamp = Stamp(daemon.path) => daemon.content = Content(daemon.path)

\* While a start is being validated, and while its old daemon is stopped, the time
\* is the new start's and the daemon the old one's.
Restarting == cmd.job = "start" /\ cmd.pc \in {"validate", "stop"}

StartInv ==
    /\ core.started <= clock
    /\ core.attached \/ Busy => core.started # None
    /\ cmd.pc = "mark" /\ daemon.alive => overtaken \/ daemon.content = Content(cmd.target)
    /\ Busy /\ cmd.job = "start" => cmd.target = core.path
    /\ /\ Running /\ daemon.alive /\ core.of = core.path /\ ~Restarting /\ ~overtaken
       /\ Valid(core.path) /\ core.started = Stamp(core.path)
       => daemon.content = Content(core.path)

\* The probes of an endpoint that nobody asked for.
Own(F, e) == F[e][FALSE]

ProbeInv ==
    /\ probes \in [Names -> [state : {"none", "pending", "shown"}, old : BOOLEAN]]
    /\ flight \in [Names -> [Endpoints -> [BOOLEAN -> Nat]]]
    /\ \A n \in Names : IsStale(n) => \A e \in Endpoints : Own(flight[n], e) = 0

PanelInv == PanelTypeOK /\ FilesInv /\ CmdInv /\ CacheInv /\ DaemonInv /\ StartInv

-----------------------------------------------------------------------------
(* The actions of the panel, without the bounds of App. *)

World ==
    \/ \E path \in Paths, content \in Contents \cup {Broken, Missing} : Edit(path, content)
    \/ DaemonEnds \/ MonitorLoses \/ SecondPasses

Tasks ==
    \/ \E n \in Names : GetsOld(n) \/ \E e \in Endpoints, asked \in BOOLEAN : ProbeEnds(n, e, asked)
    \/ \E names \in SUBSET Names : Probe(names)
    \/ Check \/ CheckEnds \/ \E ok \in BOOLEAN : CheckReads(ok)

Commands ==
    \/ \E job \in {"state", "open"} : Refresh(job)
    \/ Starts \/ CommandStep
    \/ \E path \in Paths : Open(path)

PanelNext == World \/ Tasks \/ Commands \/ Close

LEMMA NextPanel == [Next]_vars => PanelNext \/ UNCHANGED panelVars
<1>1. ASSUME UNCHANGED vars PROVE UNCHANGED panelVars
  BY <1>1 DEF vars
<1>2. ASSUME NEW p \in Procs,
             Launch(p) \/ Race(p) \/ OpenApp(p) \/ ListenApp(p) \/ EndApp(p) \/ Serve(p) \/ Forget(p)
      PROVE  PanelNext \/ UNCHANGED panelVars
  <2>1. CASE OpenApp(p)
    BY <2>1 DEF OpenApp, PanelNext, Commands
  <2>2. CASE EndApp(p)
    BY <2>2 DEF EndApp, PanelNext
  <2> QED BY <1>2, <2>1, <2>2 DEF Launch, Race, ListenApp, Serve, Forget
<1>3. ASSUME NEW port \in Ports, Stranger(port) PROVE UNCHANGED panelVars
  BY <1>3 DEF Stranger
<1>4. CASE Asked
  BY <1>4 DEF Asked, Tests, PanelNext, Commands, Tasks
<1>5. CASE Around
  BY <1>5 DEF Around, Edits, PanelNext, World, Tasks
<1>6. CASE Goes
  BY <1>6 DEF Goes, PanelNext, Commands
<1>7. ASSUME NEW n \in Names, Ends(n) PROVE PanelNext
  BY <1>7 DEF Ends, PanelNext, Tasks
<1>8. CASE Checks
  BY <1>8 DEF Checks, PanelNext, Tasks
<1> QED BY <1>1, <1>2, <1>3, <1>4, <1>5, <1>6, <1>7, <1>8 DEF Next

InstanceNext ==
    \/ \E p \in Procs : StartProcess(p) \/ Acquire(p) \/ Listen(p) \/ End(p) \/ ListenStep(p) \/ Reuse(p)
    \/ \E port \in Ports : StrangerCalls(port)

LEMMA NextInstance == [Next]_vars => InstanceNext \/ UNCHANGED instanceVars
<1>1. ASSUME UNCHANGED vars PROVE UNCHANGED instanceVars
  BY <1>1 DEF vars
<1>2. ASSUME NEW p \in Procs,
             Launch(p) \/ Race(p) \/ OpenApp(p) \/ ListenApp(p) \/ EndApp(p) \/ Serve(p) \/ Forget(p)
      PROVE  InstanceNext \/ UNCHANGED instanceVars
  BY <1>2 DEF Launch, Race, OpenApp, ListenApp, EndApp, Serve, Forget, InstanceNext
<1>3. ASSUME NEW port \in Ports, Stranger(port) PROVE InstanceNext
  BY <1>3 DEF Stranger, InstanceNext
<1>4. CASE Asked \/ Around \/ Goes \/ Checks \/ \E n \in Names : Ends(n)
  BY <1>4 DEF Asked, Around, Goes, Checks, Ends
<1> QED BY <1>1, <1>2, <1>3, <1>4 DEF Next

-----------------------------------------------------------------------------
(* Files and cache. *)

LEMMA Fields ==
    ASSUME PanelInv
    PROVE  /\ clock \in Nat /\ overtaken \in BOOLEAN
           /\ \A path \in Paths : /\ files[path] \in FileType
                                  /\ Stamp(path) \in Nat /\ Content(path) \in FileContents
           /\ daemon \in DaemonType /\ daemon.alive \in BOOLEAN /\ daemon.path \in Somewhere
           /\ daemon.stamp \in Int /\ daemon.content \in FileContents \cup {Unread}
           /\ core \in CoreType /\ core.path \in Somewhere /\ core.started \in Int
           /\ core.phase \in {"stopped", "running", "failed"} /\ core.attached \in BOOLEAN
           /\ core.of \in Somewhere
           /\ cache \in CacheType /\ cache.path \in Somewhere /\ cache.stamp \in Int
           /\ cache.due \in BOOLEAN /\ cache.parsed \in FileContents \cup {Unread}
           /\ cmd \in CmdType /\ cmd.target \in Somewhere /\ cmd.previous \in Somewhere
           /\ cmd.seen \in Int
           /\ NoPath \notin Paths /\ Missing \notin Contents /\ Broken # Missing
           /\ Unread \notin FileContents
  BY PanelAssumption DEF PanelInv, PanelTypeOK, Stamp, Content, FileType, DaemonType, CoreType,
     CacheType, CmdType, FileContents

LEMMA EditKeeps ==
    ASSUME PanelInv, NEW path \in Paths, NEW content \in Contents \cup {Broken, Missing},
           Edit(path, content)
    PROVE  PanelInv'
<1>f. /\ clock \in Nat /\ files[path] \in FileType /\ content \in FileContents
      /\ overtaken \in BOOLEAN /\ core.started \in Int /\ daemon.stamp \in Int /\ cache.stamp \in Int
      /\ cmd.seen \in Int
      /\ Missing \notin Contents /\ \A p \in Paths : Stamp(p) \in Nat
  BY Fields DEF FileContents
<1>1. /\ clock' = clock + 1 /\ UNCHANGED <<daemon, core, cache, cmd>>
      /\ overtaken' = (overtaken \/ (cmd.pc = "mark" /\ cmd.target = path))
  BY DEF Edit, Is
<1>2. /\ \A p \in Paths \ {path} : files'[p] = files[p]
      /\ files'[path] = [stamp |-> IF content = Missing THEN 0 ELSE clock', content |-> content]
      /\ files' \in [Paths -> FileType]
  <2>1. [stamp |-> IF content = Missing THEN 0 ELSE clock', content |-> content] \in FileType
    BY <1>f, <1>1 DEF FileType
  <2> QED BY <2>1 DEF Edit, PanelInv, PanelTypeOK
<1>3. /\ \A p \in Paths \ {path} : Stamp(p)' = Stamp(p) /\ Content(p)' = Content(p)
      /\ Stamp(path)' = (IF content = Missing THEN 0 ELSE clock + 1)
      /\ Content(path)' = content
  BY <1>1, <1>2 DEF Stamp, Content
<1>4. PanelTypeOK'
  BY <1>f, <1>1, <1>2 DEF PanelInv, PanelTypeOK
<1>5. FilesInv'
  BY <1>f, <1>1, <1>3 DEF PanelInv, FilesInv
<1>6. CmdInv'
  BY <1>f, <1>1 DEF PanelInv, CmdInv, Busy, Running
<1>7. CacheInv'
  BY <1>f, <1>1, <1>3 DEF PanelInv, CacheInv
<1>8. DaemonInv'
  BY <1>f, <1>1, <1>3 DEF PanelInv, DaemonInv
<1>9. StartInv'
  <2> DEFINE s == Stamp(core.path)
  <2>1. cmd.pc = "mark" => cmd.target \in Paths
    BY DEF PanelInv, CmdInv, Busy
  <2>2. Running => core.path \in Paths
    BY DEF PanelInv, CmdInv
  <2>3. cmd.pc = "mark" /\ daemon.alive /\ ~overtaken' => daemon.content = Content(cmd.target)'
    BY <1>f, <1>1, <1>3, <2>1 DEF PanelInv, StartInv
  <2>4. ASSUME Running, daemon.alive, core.of = core.path, ~Restarting, ~overtaken',
               Valid(core.path)', core.started = Stamp(core.path)'
        PROVE  daemon.content = Content(core.path)'
    <3>1. core.path # path
      <4> SUFFICES ASSUME core.path = path PROVE FALSE
        OBVIOUS
      <4>1. content \in Contents /\ core.started = Stamp(path)'
        BY <1>1, <1>3, <2>4 DEF Valid, Stamp, Content
      <4>2. core.started = clock + 1 /\ core.started <= clock
        BY <1>f, <1>3, <4>1 DEF PanelInv, StartInv
      <4> QED BY <1>f, <4>2
    <3> QED BY <1>1, <1>3, <2>2, <2>4, <3>1 DEF PanelInv, StartInv, Valid
  <2> QED BY <1>f, <1>1, <2>3, <2>4 DEF PanelInv, StartInv, Running, Busy, Restarting
<1> QED BY <1>4, <1>5, <1>6, <1>7, <1>8, <1>9 DEF PanelInv

\* Steps that change no time and no file.
LEMMA Untimed ==
    ASSUME PanelInv, UNCHANGED <<clock, files>>
    PROVE  /\ FilesInv' /\ (\A path : Stamp(path)' = Stamp(path) /\ Content(path)' = Content(path))
           /\ clock' \in Nat /\ files' \in [Paths -> FileType]
           /\ \A path : Valid(path)' = Valid(path)
  BY DEF PanelInv, FilesInv, Stamp, Content, Valid, PanelTypeOK

LEMMA TasksKeep == PanelInv /\ Tasks => PanelInv'
<1> SUFFICES ASSUME PanelInv, Tasks PROVE PanelInv'
  OBVIOUS
<1>1. UNCHANGED <<fileVars, daemon, core, cache, cmd>>
  BY DEF Tasks, GetsOld, ProbeEnds, Probe, Check, CheckEnds, CheckReads
<1> QED BY <1>1 DEF fileVars, PanelInv, PanelTypeOK, FilesInv, CmdInv, CacheInv, DaemonInv, StartInv,
       Stamp, Content, Valid, Running, Busy, Restarting

\* The daemon ends, its monitor loses it, a second passes.
LEMMA WorldKeeps == PanelInv /\ World => PanelInv'
<1> SUFFICES ASSUME PanelInv, World PROVE PanelInv'
  OBVIOUS
<1>1. ASSUME NEW path \in Paths, NEW content \in Contents \cup {Broken, Missing}, Edit(path, content)
      PROVE  PanelInv'
  BY <1>1, EditKeeps
<1>2. CASE DaemonEnds
  <2>1. /\ UNCHANGED <<clock, files, overtaken, core, cache, cmd>> /\ daemon' \in DaemonType
        /\ ~daemon'.alive
    BY <1>2 DEF DaemonEnds, NoDaemon, None, DaemonType, Somewhere, FileContents, fileVars
  <2> QED BY <2>1, Untimed DEF PanelInv, PanelTypeOK, CmdInv, CacheInv, DaemonInv, StartInv,
         Running, Busy, Restarting
<1>3. CASE MonitorLoses
  <2>1. /\ UNCHANGED <<clock, files, overtaken, daemon, cache, cmd>> /\ core' \in CoreType
        /\ core'.phase = "failed" /\ core'.path = core.path /\ core'.started = core.started
        /\ core'.attached = core.attached /\ core'.of = core.of
    BY <1>3, Fields DEF MonitorLoses, CoreType, fileVars
  <2> QED BY <2>1, Untimed DEF PanelInv, PanelTypeOK, CmdInv, CacheInv, DaemonInv, StartInv,
         Running, Busy, Restarting
<1>4. CASE SecondPasses
  <2>1. /\ UNCHANGED <<clock, files, overtaken, daemon, core, cmd>> /\ cache' \in CacheType
        /\ cache'.path = cache.path /\ cache'.stamp = cache.stamp /\ cache'.parsed = cache.parsed
    BY <1>4, Fields DEF SecondPasses, CacheType, fileVars
  <2> QED BY <2>1, Untimed DEF PanelInv, PanelTypeOK, CmdInv, CacheInv, DaemonInv, StartInv,
         Running, Busy, Restarting
<1> QED BY <1>1, <1>2, <1>3, <1>4 DEF World

-----------------------------------------------------------------------------
(* Commands. *)

LEMMA RefreshKeeps == ASSUME NEW job \in {"state", "open"}, PanelInv, Refresh(job) PROVE PanelInv'
<1>1. UNCHANGED <<clock, files, overtaken, daemon, core>> /\ cmd.pc = "idle"
  BY DEF Refresh, fileVars, Is
<1>2. core.path \in Paths
  BY <1>1 DEF PanelInv, CmdInv
<1>3. CASE cmd' = cmd /\ cache' = [cache EXCEPT !.due = FALSE]
  <2>1. /\ cache' \in CacheType
        /\ cache'.path = cache.path /\ cache'.stamp = cache.stamp /\ cache'.parsed = cache.parsed
    BY <1>3, Fields DEF CacheType
  <2> QED BY <1>1, <1>3, <2>1, Untimed DEF PanelInv, PanelTypeOK, CmdInv, CacheInv, DaemonInv, StartInv,
         Running, Busy, Restarting
<1>4. CASE cache' = cache /\ cmd' = [NoCmd EXCEPT !.pc = "load", !.job = job, !.seen = Stamp(core.path)]
  <2> DEFINE seen == Stamp(core.path)
  <2>0. seen \in Int
    BY <1>2, Fields
  <2> HIDE DEF seen
  <2>1. cmd' \in CmdType /\ cmd'.pc = "load" /\ cmd'.job = job /\ cmd'.seen = seen
    <3>1. cmd' = [NoCmd EXCEPT !.pc = "load", !.job = job, !.seen = seen]
      BY <1>4 DEF seen
    <3> QED BY <2>0, <3>1 DEF CmdType, NoCmd, Somewhere
  <2>2. 0 <= Stamp(core.path) /\ Stamp(core.path) <= clock
    BY <1>2, Fields DEF PanelInv, FilesInv
  <2> QED BY <1>1, <1>2, <1>4, <2>1, <2>2, Untimed DEF PanelInv, PanelTypeOK, CmdInv, CacheInv, DaemonInv,
         StartInv, Running, Busy, Restarting, seen
<1> QED BY <1>3, <1>4 DEF Refresh

LEMMA LoadKeeps == PanelInv /\ Load => PanelInv'
<1> SUFFICES ASSUME PanelInv, Load PROVE PanelInv'
  OBVIOUS
<1>1. UNCHANGED <<clock, files, overtaken, daemon, core>> /\ cmd.pc = "load"
  BY DEF Load, fileVars, Is
<1>2. core.path \in Paths /\ 0 <= cmd.seen /\ cmd.seen <= clock
  BY <1>1 DEF PanelInv, CmdInv
<1>3. /\ cache' \in CacheType
      /\ cache'.path = core.path /\ cache'.stamp = cmd.seen /\ cache'.parsed = Content(core.path)
  BY <1>2, Fields DEF Load, CacheType
<1>4. /\ cmd' \in CmdType /\ cmd'.pc \in {"idle", "setup"}
      /\ cmd'.pc = "setup" => cmd.job = "setup" /\ cmd'.job = "setup" /\ cmd'.target = cmd.target
  BY Fields DEF Load, CmdType, NoCmd, None, Somewhere
<1>5. CacheInv'
  BY <1>1, <1>2, <1>3, Untimed DEF CacheInv
<1> QED BY <1>1, <1>2, <1>3, <1>4, <1>5, Untimed DEF PanelInv, PanelTypeOK, CmdInv, DaemonInv, StartInv,
       Running, Busy, Restarting

\* A command begins.
LEMMA BeginType ==
    ASSUME NEW job \in {"start", "restore", "switch"}, NEW target \in Paths, NEW previous \in Somewhere,
           Begin(job, target, previous)
    PROVE  /\ cmd' \in CmdType /\ cmd'.pc = "validate" /\ cmd'.job = job
           /\ cmd'.target = target /\ cmd'.previous = previous
<1>1. cmd' = [pc |-> "validate", job |-> job, target |-> target, previous |-> previous, seen |-> None]
  BY DEF Begin, NoCmd
<1>2. None \in Int
  BY DEF None
<1> QED BY <1>1, <1>2 DEF CmdType, Somewhere

LEMMA FinishType ==
    ASSUME Finish
    PROVE  /\ cmd' \in CmdType /\ cmd'.pc = "idle" /\ cmd'.job = "none"
           /\ cache' \in CacheType /\ cache'.parsed = Unread
  BY DEF Finish, NoCmd, NoCache, None, CmdType, CacheType, Somewhere

LEMMA StartKeeps == PanelInv /\ Start => PanelInv'
<1> SUFFICES ASSUME PanelInv, Start PROVE PanelInv'
  OBVIOUS
<1>1. UNCHANGED <<clock, files, overtaken, daemon, cache>> /\ cmd.pc = "idle"
  BY DEF Start, fileVars, Is
<1>2. core.path \in Paths /\ Stamp(core.path) \in Nat /\ Stamp(core.path) <= clock
  BY <1>1, Fields DEF PanelInv, CmdInv, FilesInv
<1>3. /\ core' \in CoreType /\ core'.started = Stamp(core.path) /\ core'.path = core.path
      /\ core'.phase = core.phase /\ core'.attached = core.attached /\ core'.of = core.of
  <2> DEFINE s == Stamp(core.path)
  <2>1. s \in Int /\ core' = [core EXCEPT !.started = s]
    BY <1>2 DEF Start
  <2> HIDE DEF s
  <2> QED BY <2>1, Fields DEF CoreType, s
<1>4. /\ cmd' \in CmdType /\ cmd'.pc = "validate" /\ cmd'.job = "start" /\ cmd'.target = core.path
  BY <1>2, BeginType DEF Start, Somewhere
<1>5. core'.started # None
  BY <1>2, <1>3 DEF None
<1> QED BY <1>1, <1>2, <1>3, <1>4, <1>5, Untimed DEF PanelInv, PanelTypeOK, CmdInv, CacheInv, DaemonInv, StartInv,
       Running, Busy, Restarting

LEMMA SwitchKeeps == ASSUME NEW path \in Paths, PanelInv, Switch(path) PROVE PanelInv'
<1>1. UNCHANGED <<clock, files, overtaken, daemon>> /\ cmd.pc = "idle"
  BY DEF Switch, fileVars, Is
<1>2. CASE core.attached
  <2>1. UNCHANGED <<core, cache>> /\ Begin("switch", path, core.of) /\ core.of \in Paths
    BY <1>2 DEF Switch, PanelInv, CmdInv
  <2>2. /\ cmd' \in CmdType /\ cmd'.pc = "validate" /\ cmd'.job = "switch" /\ cmd'.target = path
        /\ cmd'.previous = core.of
    BY <2>1, BeginType DEF Somewhere
  <2> QED BY <1>1, <1>2, <2>1, <2>2, Untimed DEF PanelInv, PanelTypeOK, CmdInv, CacheInv, DaemonInv, StartInv,
         Running, Busy, Restarting
<1>3. CASE ~core.attached
  <2>1. /\ cmd' = cmd /\ core' \in CoreType /\ core'.path = path /\ core'.started = core.started
        /\ core'.phase = core.phase /\ core'.attached = core.attached /\ core'.of = core.of
        /\ cache' \in CacheType /\ cache'.parsed = Unread
    <3>1. cmd' = cmd /\ core' = [core EXCEPT !.path = path] /\ cache' = NoCache
      BY <1>3 DEF Switch
    <3>2. NoCache \in CacheType /\ NoCache.parsed = Unread
      BY DEF NoCache, CacheType, Somewhere
    <3>3. path \in Somewhere
      BY DEF Somewhere
    <3> QED BY <3>1, <3>2, <3>3, Fields DEF CoreType
  <2> QED BY <1>1, <1>3, <2>1, Untimed DEF PanelInv, PanelTypeOK, CmdInv, CacheInv, DaemonInv, StartInv,
         Running, Busy, Restarting
<1> QED BY <1>2, <1>3

\* What try_start leaves behind when it has failed.
LEMMA FailedType ==
    ASSUME PanelInv, NEW attached \in BOOLEAN, Failed(attached), Busy,
           cmd.job # "stop"
    PROVE  /\ cmd' \in CmdType /\ cache' \in CacheType
           /\ \/ /\ cmd.job = "switch" /\ ~attached /\ cache' = cache
                 /\ cmd'.pc = "validate" /\ cmd'.job = "restore" /\ cmd'.target = cmd.previous
                 /\ cmd.previous \in Paths
              \/ cmd'.pc = "idle" /\ cmd'.job = "none" /\ cache'.parsed = Unread
<1>1. cmd.job = "switch" => cmd.previous \in Paths
  BY DEF PanelInv, CmdInv
<1>2. CASE cmd.job = "switch" /\ ~attached
  BY <1>1, <1>2, BeginType, Fields DEF Failed, Somewhere
<1>3. CASE ~(cmd.job = "switch" /\ ~attached)
  BY <1>3, FinishType DEF Failed
<1> QED BY <1>2, <1>3

LEMMA ValidateKeeps == PanelInv /\ Validate => PanelInv'
<1> SUFFICES ASSUME PanelInv, Validate PROVE PanelInv'
  OBVIOUS
<1>1. UNCHANGED <<clock, files, overtaken, daemon>> /\ cmd.pc = "validate" /\ Busy
      /\ cmd.job \in {"start", "switch", "restore"} /\ cmd.target \in Paths
  BY DEF Validate, fileVars, Is, Busy, PanelInv, CmdInv
<1>2. CASE Valid(cmd.target)
  <2>1. /\ UNCHANGED <<core, cache>> /\ cmd' \in CmdType
        /\ cmd'.pc = IF core.attached THEN "stop" ELSE "stamp"
        /\ cmd'.job = cmd.job /\ cmd'.target = cmd.target /\ cmd'.previous = cmd.previous
    BY <1>2, Fields DEF Validate, CmdType
  <2> QED BY <1>1, <2>1, Untimed, Fields DEF PanelInv, PanelTypeOK, CmdInv, CacheInv, DaemonInv, StartInv,
         Running, Busy, Restarting
<1>3. CASE ~Valid(cmd.target)
  <2>1. /\ core' \in CoreType /\ core'.path = core.path /\ core'.started = core.started
        /\ core'.attached = core.attached /\ core'.of = core.of
        /\ core'.phase = IF Running THEN core.phase ELSE "failed"
    BY <1>3, Fields DEF Validate, CoreType
  <2>2. /\ cmd' \in CmdType /\ cache' \in CacheType
        /\ cmd'.pc = "idle" /\ cmd'.job = "none" /\ cache'.parsed = Unread
    <3>1. cmd.job = "switch" => core.attached
      BY <1>1 DEF PanelInv, CmdInv
    <3> QED BY <1>1, <1>3, <3>1, FailedType, Fields DEF Validate
  <2>3. Running' <=> Running
    BY <2>1 DEF Running
  <2>4. cmd.job = "start" => ~Valid(core.path)
    BY <1>1, <1>3 DEF PanelInv, StartInv
  <2>5. StartInv'
    BY <1>1, <2>1, <2>2, <2>3, <2>4, Untimed DEF PanelInv, StartInv, Busy, Restarting
  <2> QED BY <1>1, <2>1, <2>2, <2>3, <2>5, Untimed DEF PanelInv, PanelTypeOK, CmdInv, CacheInv, DaemonInv, Busy
<1> QED BY <1>2, <1>3

LEMMA StopOldKeeps == PanelInv /\ StopOld => PanelInv'
<1> SUFFICES ASSUME PanelInv, StopOld PROVE PanelInv'
  OBVIOUS
<1>1. UNCHANGED <<clock, files, overtaken, cache>> /\ cmd.pc = "stop" /\ Busy
  BY DEF StopOld, fileVars, Is, Busy
<1>2. daemon' \in DaemonType /\ ~daemon'.alive
  BY DEF StopOld, NoDaemon, None, DaemonType, Somewhere, FileContents
<1>3. /\ core' \in CoreType /\ core'.path = core.path /\ core'.started = core.started
      /\ ~core'.attached /\ core'.phase = "stopped"
  BY Fields DEF StopOld, Detached, CoreType, Somewhere
<1>4. CASE cmd.job = "stop"
  <2>1. cmd' \in CmdType /\ cmd'.pc = "idle" /\ cmd'.job = "none"
    BY <1>4 DEF StopOld, NoCmd, None, CmdType, Somewhere
  <2> QED BY <1>1, <1>2, <1>3, <2>1, Untimed DEF PanelInv, PanelTypeOK, CmdInv, CacheInv, DaemonInv,
         StartInv, Running, Busy, Restarting
<1>5. CASE cmd.job # "stop"
  <2>1. /\ cmd' \in CmdType /\ cmd'.pc = "stamp" /\ cmd'.job = cmd.job /\ cmd'.target = cmd.target
        /\ cmd'.previous = cmd.previous
    BY <1>5, Fields DEF StopOld, CmdType
  <2> QED BY <1>1, <1>2, <1>3, <1>5, <2>1, Untimed DEF PanelInv, PanelTypeOK, CmdInv, CacheInv, DaemonInv,
         StartInv, Running, Busy, Restarting
<1> QED BY <1>4, <1>5

LEMMA StopFailsKeeps == PanelInv /\ StopFails => PanelInv'
<1> SUFFICES ASSUME PanelInv, StopFails PROVE PanelInv'
  OBVIOUS
<1>1. UNCHANGED <<clock, files, overtaken, daemon>> /\ cmd.pc = "stop" /\ Busy
  BY DEF StopFails, fileVars, Is, Busy
<1>2. /\ core' \in CoreType /\ core'.path = core.path /\ core'.started = core.started
      /\ core'.attached = core.attached /\ core'.phase = "failed" /\ core'.of = core.of
  BY Fields DEF StopFails, CoreType
<1>3. /\ cmd' \in CmdType /\ cache' \in CacheType /\ cmd'.pc = "idle" /\ cmd'.job = "none"
      /\ (cache' = cache \/ cache'.parsed = Unread)
  <2>1. CASE cmd.job = "stop"
    BY <2>1, Fields DEF StopFails, NoCmd, None, CmdType, Somewhere
  <2>2. CASE cmd.job # "stop"
    <3>1. Failed(TRUE)
      BY <2>2 DEF StopFails
    <3> QED BY <1>1, <2>2, <3>1, FailedType
  <2> QED BY <2>1, <2>2
<1>4. CacheInv'
  BY <1>1, <1>3, Untimed DEF PanelInv, CacheInv
<1> QED BY <1>1, <1>2, <1>3, <1>4, Untimed DEF PanelInv, PanelTypeOK, CmdInv, DaemonInv,
       StartInv, Running, Busy, Restarting

LEMMA StopKeeps == PanelInv /\ Stop => PanelInv'
<1> SUFFICES ASSUME PanelInv, Stop PROVE PanelInv'
  OBVIOUS
<1>1. UNCHANGED <<clock, files, overtaken, daemon, core, cache>> /\ cmd.pc = "idle" /\ core.attached
  BY DEF Stop, fileVars, Is
<1>2. cmd' \in CmdType /\ cmd'.pc = "stop" /\ cmd'.job = "stop"
  <2>1. cmd' = [pc |-> "stop", job |-> "stop", target |-> NoPath, previous |-> NoPath, seen |-> None]
    BY DEF Stop, NoCmd
  <2>2. None \in Int
    BY DEF None
  <2> QED BY <2>1, <2>2 DEF CmdType, Somewhere
<1> QED BY <1>1, <1>2, Untimed DEF PanelInv, PanelTypeOK, CmdInv, CacheInv, DaemonInv, StartInv,
       Running, Busy, Restarting

LEMMA ChildStampsKeeps == PanelInv /\ ChildStamps => PanelInv'
<1> SUFFICES ASSUME PanelInv, ChildStamps PROVE PanelInv'
  OBVIOUS
<1>1. UNCHANGED <<clock, files, overtaken, daemon, core, cache>> /\ cmd.pc = "stamp" /\ Busy
  BY DEF ChildStamps, fileVars, Is, Busy
<1>2. cmd.target \in Paths
  BY <1>1 DEF PanelInv, CmdInv
<1> DEFINE s == Stamp(cmd.target)
<1>3. s \in Nat /\ s \in Int /\ 1 <= s /\ s <= clock
  BY <1>2, Fields DEF PanelInv, FilesInv, ChildStamps
<1>4. cmd' = [cmd EXCEPT !.pc = "read", !.seen = s]
  BY DEF ChildStamps
<1> HIDE DEF s
<1>5. /\ cmd' \in CmdType /\ cmd'.pc = "read" /\ cmd'.job = cmd.job /\ cmd'.target = cmd.target
      /\ cmd'.previous = cmd.previous /\ cmd'.seen = s
  BY <1>3, <1>4, Fields DEF CmdType
<1> QED BY <1>1, <1>3, <1>5, Untimed DEF PanelInv, PanelTypeOK, CmdInv, CacheInv, DaemonInv, StartInv,
       Running, Busy, Restarting

\* The child's time is older than what it reads, or of the same edit.
LEMMA ChildFits ==
    ASSUME PanelInv, Is("read"), Valid(cmd.target)
    PROVE  /\ Child \in DaemonType /\ Child.alive /\ Child.content = Content(cmd.target)
           /\ Child.path = cmd.target /\ Child.stamp = cmd.seen
           /\ cmd.target \in Paths /\ 1 <= cmd.seen /\ cmd.seen <= clock
<1>1. cmd.target \in Paths /\ 1 <= cmd.seen /\ cmd.seen <= clock
  BY DEF PanelInv, CmdInv, Is, Busy
<1>2. Content(cmd.target) \in FileContents
  BY <1>1, Fields
<1> QED BY <1>1, <1>2, Fields DEF Child, DaemonType, Somewhere

LEMMA ChildServesKeeps == PanelInv /\ ChildServes => PanelInv'
<1> SUFFICES ASSUME PanelInv, ChildServes PROVE PanelInv'
  OBVIOUS
<1>1. UNCHANGED <<clock, files>> /\ cmd.pc = "read" /\ Busy /\ Is("read") /\ Valid(cmd.target)
      /\ overtaken' = FALSE /\ daemon' = Child
  BY DEF ChildServes, Is, Busy
<1>2. /\ daemon' \in DaemonType /\ daemon'.alive /\ daemon'.content = Content(cmd.target)
      /\ daemon'.path = cmd.target /\ daemon'.stamp = cmd.seen
      /\ cmd.target \in Paths /\ 1 <= cmd.seen /\ cmd.seen <= clock
  BY <1>1, ChildFits
<1>3. /\ core' \in CoreType /\ core'.path = core.path /\ core'.started = core.started
      /\ core'.attached /\ core'.phase = "running" /\ core'.of = cmd.target
  BY <1>2, Fields DEF ChildServes, CoreType, Somewhere
<1>4. /\ cmd' \in CmdType /\ cache' \in CacheType /\ (cache' = cache \/ cache'.parsed = Unread)
      /\ \/ /\ cmd'.pc = "mark" /\ cmd.job = "switch" /\ cmd'.job = "switch"
            /\ cmd'.target = cmd.target /\ cmd'.previous = cmd.previous
         \/ cmd'.pc = "idle" /\ cmd'.job = "none"
  <2>1. CASE cmd.job = "switch"
    BY <2>1, Fields DEF ChildServes, CmdType
  <2>2. CASE cmd.job # "switch"
    BY <2>2, FinishType DEF ChildServes
  <2> QED BY <2>1, <2>2
<1>5. /\ cmd.job \in {"start", "switch", "restore"} /\ core.path \in Paths /\ core.started # None
      /\ cmd.job = "switch" => cmd.previous \in Paths
  BY <1>1 DEF PanelInv, CmdInv, Busy, StartInv
<1>6. CacheInv'
  BY <1>1, <1>4, Untimed DEF PanelInv, CacheInv
<1>7. StartInv'
  BY <1>1, <1>2, <1>3, <1>4, <1>5, Untimed DEF PanelInv, StartInv, Busy, Restarting
<1>8. CmdInv'
  <2>1. /\ cmd'.pc \notin {"off", "load", "setup", "validate", "stop", "stamp", "read"}
        /\ cmd'.pc = "mark" => cmd'.job = "switch" /\ cmd'.target = cmd.target /\ cmd'.previous \in Paths
        /\ Busy' => cmd'.pc = "mark"
    BY <1>4, <1>5 DEF Busy
  <2>2. core'.path \in Paths /\ core'.attached /\ core'.of = cmd.target /\ cmd.target \in Paths
    BY <1>2, <1>3, <1>5
  <2> QED BY <2>1, <2>2 DEF CmdInv, Running
<1>9. DaemonInv'
  BY <1>1, <1>2, Untimed DEF DaemonInv
<1> QED BY <1>1, <1>2, <1>3, <1>4, <1>6, <1>7, <1>8, <1>9, Untimed DEF PanelInv, PanelTypeOK

LEMMA ChildFailsKeeps == PanelInv /\ ChildFails => PanelInv'
<1> SUFFICES ASSUME PanelInv, ChildFails PROVE PanelInv'
  OBVIOUS
<1>1. UNCHANGED <<clock, files, overtaken, daemon>> /\ cmd.pc \in {"stamp", "read"} /\ Busy
  BY DEF ChildFails, fileVars, Is, Busy
<1>2. /\ core' \in CoreType /\ core'.path = core.path /\ core'.started = core.started
      /\ core'.attached = core.attached /\ core'.phase = "failed" /\ core'.of = core.of
  BY Fields DEF ChildFails, CoreType
<1>3. ~core.attached /\ core.path \in Paths /\ core.started # None /\ cmd.job # "stop"
  BY <1>1 DEF PanelInv, CmdInv, StartInv
<1>4. /\ cmd' \in CmdType /\ cache' \in CacheType
      /\ (cache' = cache \/ cache'.parsed = Unread)
      /\ \/ cmd'.pc = "validate" /\ cmd'.job = "restore" /\ cmd'.target \in Paths
         \/ cmd'.pc = "idle" /\ cmd'.job = "none"
  <2>1. Failed(FALSE)
    BY DEF ChildFails
  <2> QED BY <1>1, <1>3, <2>1, FailedType
<1>5. CacheInv'
  BY <1>1, <1>4, Untimed DEF PanelInv, CacheInv
<1>6. CmdInv'
  BY <1>2, <1>3, <1>4 DEF CmdInv, Busy, Running
<1> QED BY <1>1, <1>2, <1>3, <1>4, <1>5, <1>6, Untimed DEF PanelInv, PanelTypeOK, DaemonInv, StartInv,
       Running, Busy, Restarting

LEMMA MarkKeeps == PanelInv /\ Mark => PanelInv'
<1> SUFFICES ASSUME PanelInv, Mark PROVE PanelInv'
  OBVIOUS
<1>1. UNCHANGED <<clock, files, overtaken, daemon>> /\ cmd.pc = "mark" /\ Busy
  BY DEF Mark, fileVars, Is, Busy
<1>2. cmd.target \in Paths /\ core.of = cmd.target
  BY <1>1 DEF PanelInv, CmdInv
<1> DEFINE s == Stamp(cmd.target)
<1>3. s \in Nat /\ s \in Int /\ s <= clock /\ s # None
  BY <1>2, Fields DEF PanelInv, FilesInv, None
<1>4. core' = [core EXCEPT !.path = cmd.target, !.started = s]
  BY DEF Mark
<1>5. /\ cmd' \in CmdType /\ cmd'.pc = "idle" /\ cmd'.job = "none"
      /\ cache' \in CacheType /\ cache'.parsed = Unread
  BY FinishType DEF Mark
<1> HIDE DEF s
<1>6. /\ core' \in CoreType /\ core'.path = cmd.target /\ core'.started = s
      /\ core'.attached = core.attached /\ core'.phase = core.phase /\ core'.of = core.of
  BY <1>3, <1>4, Fields DEF CoreType
<1>7. daemon.alive /\ ~overtaken => daemon.content = Content(cmd.target)
  BY <1>1 DEF PanelInv, StartInv
<1>8. CmdInv'
  BY <1>1, <1>2, <1>5, <1>6 DEF PanelInv, CmdInv, Busy, Running
<1>9. StartInv'
  BY <1>1, <1>3, <1>5, <1>6, <1>7, Untimed DEF PanelInv, StartInv, Busy, Restarting
<1> QED BY <1>1, <1>5, <1>6, <1>8, <1>9, Untimed DEF PanelInv, PanelTypeOK, CacheInv, DaemonInv

-----------------------------------------------------------------------------
(* The app comes and goes. *)

LEMMA AttachedFits ==
    ASSUME PanelInv, NEW path \in Paths
    PROVE  LET new == Attached(path)
           IN  /\ new \in CoreType /\ new.path \in Paths /\ new.started <= clock
               /\ new.attached <=> daemon.alive
               /\ new.phase = IF daemon.alive THEN "running" ELSE "stopped"
               /\ daemon.alive => /\ new.path = daemon.path /\ new.of = daemon.path
                                  /\ new.started = daemon.stamp /\ new.started # None
<1> DEFINE new == Attached(path)
<1>1. CASE daemon.alive
  <2>1. new = [path |-> daemon.path, started |-> daemon.stamp, phase |-> "running",
               attached |-> TRUE, of |-> daemon.path]
    BY <1>1 DEF Attached
  <2>2. daemon.path \in Paths /\ daemon.stamp <= clock /\ daemon.stamp # None
    BY <1>1, Fields DEF PanelInv, DaemonInv, None
  <2> QED BY <1>1, <2>1, <2>2, Fields DEF CoreType, Somewhere
<1>2. CASE ~daemon.alive
  <2>1. new = [path |-> path, started |-> None, phase |-> "stopped", attached |-> FALSE, of |-> NoPath]
    BY <1>2 DEF Attached, NoCore
  <2>2. None \in Int /\ None <= clock
    BY Fields DEF None
  <2> QED BY <1>2, <2>1, <2>2 DEF CoreType, Somewhere
<1> QED BY <1>1, <1>2

LEMMA OpenKeeps == ASSUME NEW path \in Paths, PanelInv, Open(path) PROVE PanelInv'
<1>1. UNCHANGED <<clock, files, overtaken, daemon, cache>>
  BY DEF Open, fileVars
<1> DEFINE new == Attached(path)
           s   == Stamp(new.path)
<1>2. /\ core' = new
      /\ cmd' = [pc |-> "load", job |-> "setup", target |-> path, previous |-> NoPath, seen |-> s]
  BY DEF Open, NoCmd
<1>3. /\ new \in CoreType /\ new.path \in Paths /\ new.started <= clock
      /\ new.attached <=> daemon.alive
      /\ new.phase = IF daemon.alive THEN "running" ELSE "stopped"
      /\ daemon.alive => /\ new.path = daemon.path /\ new.of = daemon.path
                         /\ new.started = daemon.stamp /\ new.started # None
  BY AttachedFits
<1>4. s \in Nat /\ s \in Int /\ s <= clock
  BY <1>3, Fields DEF PanelInv, FilesInv
<1> HIDE DEF s, new
<1>5. /\ cmd' \in CmdType /\ cmd'.pc = "load" /\ cmd'.job = "setup" /\ cmd'.target = path
      /\ cmd'.seen = s
  BY <1>2, <1>4 DEF CmdType, Somewhere
<1>6. CmdInv'
  BY <1>1, <1>2, <1>3, <1>4, <1>5 DEF PanelInv, CmdInv, DaemonInv, Busy, Running
<1>7. StartInv'
  <2>1. daemon.alive /\ daemon.stamp = Stamp(daemon.path) => daemon.content = Content(daemon.path)
    BY DEF PanelInv, DaemonInv
  <2> QED BY <1>1, <1>2, <1>3, <1>5, <2>1, Untimed DEF StartInv, Busy, Running
<1> QED BY <1>1, <1>2, <1>3, <1>5, <1>6, <1>7, Untimed DEF PanelInv, PanelTypeOK, CacheInv, DaemonInv

LEMMA SetUpKeeps ==
    ASSUME NEW requested \in BOOLEAN, NEW startsProxy \in BOOLEAN, PanelInv, SetUp(requested, startsProxy)
    PROVE  PanelInv'
<1> DEFINE path == IF requested THEN cmd.target ELSE core.path
           s    == Stamp(path)
<1>1. UNCHANGED <<clock, files, overtaken, daemon, cache>> /\ cmd.pc = "setup"
  BY DEF SetUp, fileVars, Is
<1>2. path \in Paths /\ core.path \in Paths
  BY <1>1 DEF PanelInv, CmdInv
<1>3. s \in Nat /\ s \in Int /\ s <= clock /\ s # None
  BY <1>2, Fields DEF PanelInv, FilesInv, None
<1> HIDE DEF s, path
<1>4. CASE core' = [core EXCEPT !.path = path, !.started = s] /\ Begin("start", path, NoPath)
  <2>1. /\ core' \in CoreType /\ core'.path = path /\ core'.started = s /\ core'.phase = core.phase
        /\ core'.attached = core.attached /\ core'.of = core.of
    BY <1>2, <1>3, <1>4, Fields DEF CoreType, Somewhere
  <2>2. cmd' \in CmdType /\ cmd'.pc = "validate" /\ cmd'.job = "start" /\ cmd'.target = path
    BY <1>2, <1>4, BeginType DEF Somewhere
  <2>3. CmdInv'
    BY <1>1, <1>2, <2>1, <2>2 DEF PanelInv, CmdInv, Busy, Running
  <2>4. StartInv'
    BY <1>1, <1>3, <2>1, <2>2 DEF StartInv, Busy, Running, Restarting
  <2> QED BY <1>1, <2>1, <2>2, <2>3, <2>4, Untimed DEF PanelInv, PanelTypeOK, CacheInv, DaemonInv
<1>5. CASE cmd' = NoCmd /\ core' = core
  <2>1. cmd' \in CmdType /\ cmd'.pc = "idle" /\ cmd'.job = "none"
    BY <1>5 DEF NoCmd, None, CmdType, Somewhere
  <2> QED BY <1>1, <1>5, <2>1, Untimed DEF PanelInv, PanelTypeOK, CmdInv, CacheInv, DaemonInv, StartInv,
         Running, Busy, Restarting
<1> QED BY <1>4, <1>5 DEF SetUp, path, s

LEMMA CloseKeeps == PanelInv /\ Close => PanelInv'
<1> SUFFICES ASSUME PanelInv, Close PROVE PanelInv'
  OBVIOUS
<1>1. UNCHANGED <<clock, files>> /\ overtaken' = FALSE
  BY DEF Close
<1>2. /\ cmd' \in CmdType /\ cmd'.pc = "off"
      /\ cache' \in CacheType /\ cache'.parsed = Unread
      /\ core' \in CoreType /\ ~core'.attached /\ core'.phase = "stopped" /\ core'.started = None
  <2>1. /\ cmd' = [pc |-> "off", job |-> "none", target |-> NoPath, previous |-> NoPath, seen |-> None]
        /\ cache' = [path |-> NoPath, stamp |-> 0, due |-> TRUE, parsed |-> Unread]
        /\ core' = [path |-> NoPath, started |-> None, phase |-> "stopped", attached |-> FALSE, of |-> NoPath]
    BY DEF Close, OffCmd, NoCmd, NoCache, NoCore
  <2>2. None \in Int
    BY DEF None
  <2> QED BY <2>1, <2>2 DEF CmdType, CacheType, CoreType, Somewhere
<1>3. daemon' \in DaemonType /\ DaemonInv'
  <2>1. CASE daemon' = daemon
    BY <1>1, <2>1, Untimed, Fields DEF PanelInv, DaemonInv
  <2>2. CASE Is("read") /\ Valid(cmd.target) /\ daemon' = Child
    <3>1. /\ daemon' \in DaemonType /\ daemon'.content = Content(cmd.target)
          /\ daemon'.path = cmd.target /\ daemon'.stamp = cmd.seen
          /\ cmd.target \in Paths /\ 1 <= cmd.seen /\ cmd.seen <= clock
      BY <2>2, ChildFits
    <3> QED BY <1>1, <3>1, Untimed DEF DaemonInv
  <2> QED BY <2>1, <2>2 DEF Close
<1>4. CmdInv'
  BY <1>2 DEF CmdInv, Busy, Running
<1>5. StartInv'
  BY <1>1, <1>2, Fields DEF StartInv, Busy, Running, None
<1> QED BY <1>1, <1>2, <1>3, <1>4, <1>5, Untimed DEF PanelInv, PanelTypeOK, CacheInv

LEMMA InitPanel == PanelInit => PanelInv
<1> SUFFICES ASSUME PanelInit PROVE PanelInv
  OBVIOUS
<1>1. /\ clock = 1 /\ ~overtaken /\ overtaken \in BOOLEAN
      /\ cmd = [pc |-> "off", job |-> "none", target |-> NoPath, previous |-> NoPath, seen |-> None]
      /\ cache = [path |-> NoPath, stamp |-> 0, due |-> TRUE, parsed |-> Unread]
      /\ core = [path |-> NoPath, started |-> None, phase |-> "stopped", attached |-> FALSE, of |-> NoPath]
      /\ daemon = [alive |-> FALSE, path |-> NoPath, stamp |-> None, content |-> Unread]
  BY DEF PanelInit, OffCmd, NoCmd, NoCache, NoCore, NoDaemon
<1>2. None \in Int /\ None <= 1 /\ None # 0
  BY DEF None
<1>3. /\ cmd \in CmdType /\ cache \in CacheType /\ core \in CoreType /\ daemon \in DaemonType
  BY <1>1, <1>2 DEF CmdType, CacheType, CoreType, DaemonType, Somewhere
<1>4. PICK there \in Paths, content \in Contents :
        files = [path \in Paths |-> IF path = there THEN [stamp |-> 1, content |-> content]
                                                   ELSE [stamp |-> 0, content |-> Missing]]
  BY DEF PanelInit
<1>5. files \in [Paths -> FileType]
  BY <1>4 DEF FileType, FileContents
<1>6. \A path \in Paths : \/ Stamp(path) = 1 /\ Content(path) \in Contents
                          \/ Stamp(path) = 0 /\ Content(path) = Missing
  BY <1>4 DEF Stamp, Content
<1>7. FilesInv
  BY <1>1, <1>6, PanelAssumption DEF FilesInv
<1>8. CmdInv /\ CacheInv /\ DaemonInv /\ StartInv
  BY <1>1, <1>2 DEF CmdInv, CacheInv, DaemonInv, StartInv, Busy, Running
<1> QED BY <1>1, <1>3, <1>5, <1>7, <1>8 DEF PanelInv, PanelTypeOK

LEMMA NextKeepsPanel == PanelInv /\ [Next]_vars => PanelInv'
<1> SUFFICES ASSUME PanelInv, [Next]_vars PROVE PanelInv'
  OBVIOUS
<1>1. CASE UNCHANGED panelVars
  BY <1>1 DEF panelVars, PanelInv, PanelTypeOK, FilesInv, CmdInv, CacheInv, DaemonInv, StartInv,
     Stamp, Content, Valid, Running, Busy, Restarting
<1>2. CASE Commands
  <2>1. CASE Starts
    BY <2>1, StartKeeps, StopKeeps, SwitchKeeps DEF Starts
  <2>2. CASE CommandStep
    BY <2>2, SetUpKeeps, LoadKeeps, ValidateKeeps, StopOldKeeps, StopFailsKeeps, ChildStampsKeeps,
       ChildServesKeeps, ChildFailsKeeps, MarkKeeps DEF CommandStep
  <2> QED BY <1>2, <2>1, <2>2, RefreshKeeps, OpenKeeps DEF Commands
<1> QED BY <1>1, <1>2, NextPanel, WorldKeeps, TasksKeep, CloseKeeps DEF PanelNext

LEMMA PanelSound == Spec => []PanelInv
<1>1. Init => PanelInv
  BY InitPanel DEF Init
<1> QED BY <1>1, NextKeepsPanel, PTL DEF Spec

LEMMA OfferSound == PanelInv => RestartOffered
<1> SUFFICES ASSUME PanelInv, OutOfDate, ~overtaken PROVE Offered
  BY DEF RestartOffered
<1>1. core.attached /\ ~Restarting
  BY DEF OutOfDate, PanelInv, CmdInv, Restarting, Is
<1> QED BY <1>1 DEF Offered, OutOfDate, PanelInv, StartInv

\* For any number of files, configurations and edits: a proxy that runs another
\* configuration than the one in its file is offered a restart (core.rs:
\* changed_since_start), through starts, failed starts, switches and their
\* undoing, lost daemons and restarts of the app, unless an edit fell between the
\* daemon's look at the file and the switch's own.
THEOREM RestartIsOffered == Spec => []RestartOffered
<1> QED BY PanelSound, OfferSound, PTL

\* For any number of files, configurations and edits: the cached configuration
\* (core.rs: refresh_config) is the file's, or the next look reads the file again.
THEOREM CacheIsFresh == Spec => []CacheSeesEdits
<1>1. PanelInv => CacheSeesEdits
  BY DEF PanelInv, CacheInv, CacheSeesEdits
<1> QED BY <1>1, PanelSound, PTL

-----------------------------------------------------------------------------
(* Probes: a name without an answer, or with an old one, has no probe that  *)
(* the panel started by itself; one under way makes it pending, and a       *)
(* result makes it fresh.                                                   *)

AllOnce ==
    \A n \in Names : \A e, f \in Endpoints :
        /\ Own(flight[n], e) <= 1
        /\ e # f => Own(flight[n], e) + Own(flight[n], f) <= 1

ProbesSafe == ProbeInv /\ AllOnce

LEMMA OnceIsOnce == StaleProbeOnce <=> AllOnce
  BY DEF StaleProbeOnce, AllOnce, Own

Flights == [Endpoints -> [BOOLEAN -> Nat]]

LEMMA OwnType == ASSUME NEW F \in Flights, NEW e \in Endpoints PROVE Own(F, e) \in Nat
  BY DEF Own, Flights

\* F with another number of probes of e, asked for or not.
Counted(F, e, asked, k) == [F EXCEPT ![e] = [F[e] EXCEPT ![asked] = k]]

LEMMA CountedOwn ==
    ASSUME NEW F \in Flights, NEW e \in Endpoints, NEW asked \in BOOLEAN, NEW k \in Nat
    PROVE  /\ Counted(F, e, asked, k) \in Flights
           /\ \A g \in Endpoints \ {e} : Own(Counted(F, e, asked, k), g) = Own(F, g)
           /\ asked => Own(Counted(F, e, asked, k), e) = Own(F, e)
           /\ ~asked => Own(Counted(F, e, asked, k), e) = k
<1> DEFINE h == [F[e] EXCEPT ![asked] = k]
<1>1. h \in [BOOLEAN -> Nat]
  BY DEF Flights
<1>2. /\ asked => h[FALSE] = F[e][FALSE]
      /\ ~asked => h[FALSE] = k
  <2>1. F[e] \in [BOOLEAN -> Nat]
    BY DEF Flights
  <2>2. CASE asked
    <3>1. h = [F[e] EXCEPT ![TRUE] = k]
      BY <2>2
    <3> QED BY <2>1, <2>2, <3>1
  <2>3. CASE ~asked
    <3>1. h = [F[e] EXCEPT ![FALSE] = k]
      BY <2>3
    <3> QED BY <2>1, <2>3, <3>1
  <2> QED BY <2>2, <2>3
<1>3. Counted(F, e, asked, k) = [F EXCEPT ![e] = h]
  BY DEF Counted
<1> HIDE DEF h
<1>4. /\ Counted(F, e, asked, k) \in Flights /\ Counted(F, e, asked, k)[e] = h
      /\ \A g \in Endpoints \ {e} : Counted(F, e, asked, k)[g] = F[g]
  BY <1>1, <1>3 DEF Flights
<1> QED BY <1>2, <1>4 DEF Own

\* Probes may be started for names that are asked for, and by the panel itself
\* only for stale ones.
LEMMA SpawnSafe ==
    ASSUME ProbesSafe, NEW content \in Contents, NEW asked \in BOOLEAN,
           NEW names \in SUBSET Named(content), asked \/ \A n \in names : IsStale(n),
           Spawn(names, content, asked)
    PROVE  ProbesSafe'
<1> DEFINE probed == {n \in names : Endpoint[content][n] # Direct}
<1>0. AllOnce /\ flight \in [Names -> Flights]
  BY DEF ProbesSafe, ProbeInv, Flights
<1>1. ASSUME NEW n \in probed
      PROVE  /\ n \in Names /\ probes'[n] = [state |-> "pending", old |-> FALSE]
             /\ flight'[n] \in Flights
             /\ asked => \A g \in Endpoints : Own(flight'[n], g) = Own(flight[n], g)
             /\ ~asked => \E e \in Endpoints : /\ Own(flight'[n], e) = Own(flight[n], e) + 1
                                               /\ \A g \in Endpoints \ {e} : Own(flight'[n], g) = Own(flight[n], g)
  <2> DEFINE e == Endpoint[content][n]
             k == flight[n][e][asked] + 1
  <2>1. n \in Names /\ e \in Endpoints
    BY PanelAssumption DEF Named
  <2>2. flight[n] \in Flights
    BY <1>0, <2>1
  <2>3. k \in Nat
    BY <2>1, <2>2 DEF Flights
  <2>4. flight'[n] = Counted(flight[n], e, asked, k)
    BY <2>1 DEF Spawn, Counted
  <2>5. probes'[n] = [state |-> "pending", old |-> FALSE]
    BY <2>1 DEF Spawn
  <2>6. ~asked => k = Own(flight[n], e) + 1
    <3>1. ~asked => asked = FALSE
      OBVIOUS
    <3> QED BY <3>1 DEF Own
  <2> HIDE DEF e, k
  <2> QED BY <2>1, <2>2, <2>3, <2>4, <2>5, <2>6, CountedOwn
<1>2. ASSUME NEW n \in Names \ probed
      PROVE  flight'[n] = flight[n]
  BY DEF Spawn
<1>10. ASSUME NEW n \in Names \ names
      PROVE  probes'[n] = probes[n]
  BY DEF Spawn
<1>11. ASSUME NEW n \in names \ probed
      PROVE  probes'[n] = [state |-> "shown", old |-> FALSE]
  BY DEF Spawn, Named
<1>3. flight' \in [Names -> Flights]
  <2>1. \A n \in Names : flight'[n] \in Flights
    BY <1>0, <1>1, <1>2
  <2>2. flight' = [n \in Names |-> flight'[n]]
    BY DEF Spawn
  <2> QED BY <2>1, <2>2
<1>4. probes' \in [Names -> [state : {"none", "pending", "shown"}, old : BOOLEAN]]
  BY DEF Spawn, ProbesSafe, ProbeInv
<1>5. \A n \in names : ~IsStale(n)'
  <2>1. \A n \in probed : probes'[n].state = "pending"
    BY <1>1
  <2>2. \A n \in names \ probed : probes'[n].state = "shown" /\ ~probes'[n].old
    BY <1>11
  <2> QED BY <2>1, <2>2 DEF IsStale
<1>6. ASSUME NEW n \in Names, IsStale(n)' PROVE \A e \in Endpoints : Own(flight'[n], e) = 0
  <2>1. n \notin names
    BY <1>5, <1>6
  <2>2. IsStale(n)
    BY <1>10, <1>6, <2>1 DEF IsStale
  <2> QED BY <1>2, <2>1, <2>2 DEF ProbesSafe, ProbeInv
<1>7. ASSUME NEW n \in Names, NEW e \in Endpoints, NEW f \in Endpoints
      PROVE  /\ Own(flight'[n], e) <= 1
             /\ e # f => Own(flight'[n], e) + Own(flight'[n], f) <= 1
  <2>1. CASE n \notin probed \/ asked
    <3>1. Own(flight'[n], e) = Own(flight[n], e) /\ Own(flight'[n], f) = Own(flight[n], f)
      BY <1>1, <1>2, <2>1
    <3> QED BY <1>0, <3>1 DEF AllOnce
  <2>2. CASE n \in probed /\ ~asked
    <3>1. Own(flight[n], e) = 0 /\ Own(flight[n], f) = 0
      BY <2>2 DEF ProbesSafe, ProbeInv
    <3>2. PICK x \in Endpoints : /\ Own(flight'[n], x) = Own(flight[n], x) + 1
                                 /\ \A g \in Endpoints \ {x} : Own(flight'[n], g) = Own(flight[n], g)
      BY <1>1, <2>2
    <3> QED BY <3>1, <3>2
  <2> QED BY <2>1, <2>2
<1>8. AllOnce'
  BY <1>7 DEF AllOnce
<1>9. ProbeInv'
  BY <1>3, <1>4, <1>6 DEF ProbeInv, Flights
<1> QED BY <1>8, <1>9 DEF ProbesSafe

LEMMA ProbeEndsSafe ==
    ASSUME ProbesSafe, NEW n \in Names, NEW e \in Endpoints, NEW asked \in BOOLEAN, ProbeEnds(n, e, asked)
    PROVE  ProbesSafe'
<1>0. AllOnce /\ flight \in [Names -> Flights] /\ flight[n] \in Flights
  BY DEF ProbesSafe, ProbeInv, Flights
<1> DEFINE k == flight[n][e][asked] - 1
           G == Counted(flight[n], e, asked, k)
<1>1. k \in Nat
  <2>1. flight[n][e][asked] \in Nat /\ flight[n][e][asked] > 0
    BY <1>0 DEF ProbeEnds, Flights
  <2> QED BY <2>1
<1>2. flight' = [flight EXCEPT ![n] = G] /\ probes' = [probes EXCEPT ![n] = [state |-> "shown", old |-> FALSE]]
  BY DEF ProbeEnds, Counted
<1>3. ~asked => k = Own(flight[n], e) - 1
  <2>1. ~asked => asked = FALSE
    OBVIOUS
  <2> QED BY <2>1 DEF Own
<1> HIDE DEF k
<1>4. G \in Flights /\ \A g \in Endpoints : Own(G, g) = Own(flight[n], g) \/ Own(G, g) = Own(flight[n], g) - 1
  BY <1>0, <1>1, <1>3, CountedOwn
<1> HIDE DEF G
<1>5. /\ flight' \in [Names -> Flights] /\ flight'[n] = G
      /\ \A m \in Names \ {n} : flight'[m] = flight[m] /\ probes'[m] = probes[m]
      /\ probes'[n] = [state |-> "shown", old |-> FALSE]
      /\ probes' \in [Names -> [state : {"none", "pending", "shown"}, old : BOOLEAN]]
  BY <1>0, <1>2, <1>4 DEF ProbesSafe, ProbeInv
<1>6. ~IsStale(n)'
  BY <1>5 DEF IsStale
<1>7. ASSUME NEW m \in Names, IsStale(m)' PROVE \A g \in Endpoints : Own(flight'[m], g) = 0
  <2>1. m # n
    BY <1>6, <1>7
  <2>2. IsStale(m)
    BY <1>5, <1>7, <2>1 DEF IsStale
  <2> QED BY <1>5, <2>1, <2>2 DEF ProbesSafe, ProbeInv
<1>8. ASSUME NEW m \in Names, NEW g \in Endpoints, NEW h \in Endpoints
      PROVE  /\ Own(flight'[m], g) <= 1
             /\ g # h => Own(flight'[m], g) + Own(flight'[m], h) <= 1
  <2>1. CASE m # n
    BY <1>0, <1>5, <2>1 DEF AllOnce
  <2>2. CASE m = n
    <3>1. Own(flight[n], g) \in Nat /\ Own(flight[n], h) \in Nat
      BY <1>0, OwnType
    <3>2. Own(flight[n], g) <= 1 /\ (g # h => Own(flight[n], g) + Own(flight[n], h) <= 1)
      BY <1>0 DEF AllOnce
    <3> QED BY <1>4, <1>5, <2>2, <3>1, <3>2
  <2> QED BY <2>1, <2>2
<1>9. AllOnce' /\ ProbeInv'
  BY <1>5, <1>7, <1>8 DEF AllOnce, ProbeInv, Flights
<1> QED BY <1>9 DEF ProbesSafe

LEMMA NextKeepsProbes == ProbesSafe /\ [Next]_vars => ProbesSafe'
<1> SUFFICES ASSUME ProbesSafe, [Next]_vars PROVE ProbesSafe'
  OBVIOUS
<1> USE DEF ProbesSafe
<1>1. CASE UNCHANGED <<probes, flight>>
  BY <1>1 DEF ProbeInv, AllOnce, IsStale
<1>2. ASSUME NEW job, NEW parsed, Continue(job, parsed) PROVE ProbesSafe'
  <2>1. CASE job = "open" /\ parsed \in Contents
    <3> DEFINE names == {n \in Named(parsed) : IsStale(n)}
    <3>1. Spawn(names, parsed, FALSE) /\ names \in SUBSET Named(parsed) /\ \A n \in names : IsStale(n)
      BY <1>2, <2>1 DEF Continue
    <3> QED BY <2>1, <3>1, SpawnSafe
  <2>2. CASE ~(job = "open" /\ parsed \in Contents)
    BY <1>1, <1>2, <2>2 DEF Continue
  <2> QED BY <2>1, <2>2
<1>3. ASSUME NEW n \in Names, GetsOld(n) PROVE ProbesSafe'
  <2>1. /\ probes' = [probes EXCEPT ![n].old = TRUE] /\ flight' = flight
        /\ \A e \in Endpoints : Own(flight[n], e) = 0
    BY <1>3 DEF GetsOld, Own
  <2>2. /\ probes' \in [Names -> [state : {"none", "pending", "shown"}, old : BOOLEAN]]
        /\ \A m \in Names \ {n} : probes'[m] = probes[m]
    BY <2>1 DEF ProbeInv
  <2> QED BY <2>1, <2>2 DEF ProbeInv, AllOnce, IsStale
<1>4. ASSUME NEW names \in SUBSET Names, Probe(names) PROVE ProbesSafe'
  BY <1>4, SpawnSafe DEF Probe
<1>5. CASE Close
  <2>1. /\ probes' = [n \in Names |-> [state |-> "none", old |-> FALSE]]
        /\ flight' = [n \in Names |-> [e \in Endpoints |-> [asked \in BOOLEAN |-> 0]]]
    BY <1>5 DEF Close, NoProbes, NoFlight
  <2> QED BY <2>1 DEF ProbeInv, AllOnce, Own
<1>6. CASE Tasks
  <2>1. CASE Check \/ CheckEnds \/ \E ok \in BOOLEAN : CheckReads(ok)
    BY <1>1, <2>1 DEF Check, CheckEnds, CheckReads
  <2> QED BY <1>3, <1>4, <1>6, <2>1, ProbeEndsSafe DEF Tasks
<1>7. CASE World
  BY <1>1, <1>7 DEF World, Edit, DaemonEnds, MonitorLoses, SecondPasses, taskVars
<1>8. CASE Commands
  <2>1. ASSUME NEW job \in {"state", "open"}, Refresh(job) PROVE ProbesSafe'
    BY <1>1, <1>2, <2>1 DEF Refresh
  <2>2. CASE Load
    BY <1>2, <2>2 DEF Load
  <2>3. CASE Starts \/ \E path \in Paths : Open(path)
    BY <1>1, <2>3 DEF Starts, Start, Stop, Switch, Open, taskVars
  <2>4. CASE CommandStep /\ ~Load
    BY <1>1, <2>4 DEF CommandStep, SetUp, Validate, StopOld, StopFails, ChildStamps, ChildServes,
       ChildFails, Mark, taskVars
  <2> QED BY <1>8, <2>1, <2>2, <2>3, <2>4 DEF Commands
<1>9. CASE UNCHANGED panelVars
  BY <1>1, <1>9 DEF panelVars
<1> QED BY <1>5, <1>6, <1>7, <1>8, <1>9, NextPanel DEF PanelNext

\* For any number of names, endpoints and tasks: opening the panel again and again
\* (proxy.rs: probe_stale) never has two of its own probes of one name under way.
THEOREM StaleProbesAreSingle == Spec => []StaleProbeOnce
<1>1. Init => ProbesSafe
  <2> SUFFICES ASSUME Init PROVE ProbesSafe
    OBVIOUS
  <2>1. /\ probes = [n \in Names |-> [state |-> "none", old |-> FALSE]]
        /\ flight = [n \in Names |-> [e \in Endpoints |-> [asked \in BOOLEAN |-> 0]]]
    BY DEF Init, PanelInit, NoProbes, NoFlight
  <2> QED BY <2>1 DEF ProbesSafe, ProbeInv, AllOnce, Own
<1>2. ProbesSafe => StaleProbeOnce
  BY OnceIsOnce DEF ProbesSafe
<1> QED BY <1>1, <1>2, NextKeepsProbes, PTL DEF Spec

-----------------------------------------------------------------------------
(* The launch protocol: sequences of calls. *)

LEMMA HasAppend ==
    ASSUME NEW s \in Seq(CallType), NEW x \in CallType, NEW call
    PROVE  /\ Append(s, x) \in Seq(CallType)
           /\ Has(s, call) => Has(Append(s, x), call)
           /\ Has(Append(s, x), x)
<1>1. /\ Append(s, x) \in Seq(CallType) /\ Len(s) \in Nat
      /\ DOMAIN s = 1 .. Len(s) /\ DOMAIN Append(s, x) = 1 .. Len(s) + 1
      /\ \A i \in 1 .. Len(s) : Append(s, x)[i] = s[i]
      /\ Append(s, x)[Len(s) + 1] = x
  BY AppendProperties
<1>2. ASSUME NEW i \in DOMAIN s, s[i] = call PROVE Has(Append(s, x), call)
  <2>1. i \in DOMAIN Append(s, x)
    BY <1>1
  <2> QED BY <1>1, <1>2, <2>1 DEF Has
<1>3. Len(s) + 1 \in DOMAIN Append(s, x)
  BY <1>1
<1> QED BY <1>1, <1>2, <1>3 DEF Has

LEMMA HasTail ==
    ASSUME NEW s \in Seq(CallType), s # <<>>, NEW call
    PROVE  /\ Tail(s) \in Seq(CallType)
           /\ Has(s, call) /\ call # Head(s) => Has(Tail(s), call)
<1>1. /\ Tail(s) \in Seq(CallType) /\ Len(s) \in Nat /\ Len(s) >= 1 /\ Head(s) = s[1]
      /\ DOMAIN s = 1 .. Len(s) /\ DOMAIN Tail(s) = 1 .. Len(s) - 1
      /\ \A i \in 1 .. Len(s) - 1 : Tail(s)[i] = s[i + 1]
  BY HeadTailProperties, EmptySeq
<1>2. ASSUME NEW i \in DOMAIN s, s[i] # Head(s)
      PROVE  \E j \in DOMAIN Tail(s) : Tail(s)[j] = s[i]
  <2>1. i # 1 /\ i \in 1 .. Len(s)
    BY <1>1, <1>2
  <2>2. i - 1 \in 1 .. Len(s) - 1 /\ (i - 1) + 1 = i
    BY <1>1, <2>1
  <2> QED BY <1>1, <2>2
<1> QED BY <1>1, <1>2 DEF Has

\* Every call x of a sequence becomes y.
Turned(s, x, y) == [i \in DOMAIN s |-> IF s[i] = x THEN y ELSE s[i]]

LEMMA HasTurned ==
    ASSUME NEW s \in Seq(CallType), NEW x, NEW y \in CallType, NEW call
    PROVE  /\ Turned(s, x, y) \in Seq(CallType)
           /\ Has(s, call) /\ call # x => Has(Turned(s, x, y), call)
           /\ Has(s, x) => Has(Turned(s, x, y), y)
<1>1. Len(s) \in Nat /\ DOMAIN s = 1 .. Len(s) /\ \A i \in 1 .. Len(s) : s[i] \in CallType
  OBVIOUS
<1>2. Turned(s, x, y) \in Seq(CallType)
  BY <1>1 DEF Turned
<1> QED BY <1>2 DEF Turned, Has

-----------------------------------------------------------------------------
(* The launch protocol: what a step of one process keeps for the others. *)

Pcs     == {"off", "lock", "bind", "truncate", "publish", "setup", "up", "unguarded",
            "read", "connect", "write", "ended"}
Guarded == {"bind", "truncate", "publish", "setup", "up"}
Opened  == {"truncate", "publish", "setup", "up"}
Asking  == {"read", "connect", "write", "ended"}

LEMMA Fields1 ==
    ASSUME InstanceInv
    PROVE  /\ proc \in [Procs -> ProcType] /\ holder \in Procs \cup {NoProc}
           /\ portFile \in Ports \cup {NoPort} /\ queue \in [Ports -> Seq(CallType)]
           /\ \A port \in Ports : queue[port] \in Seq(CallType)
           /\ \A p \in Procs : /\ proc[p].pc \in Pcs /\ proc[p].port \in Ports \cup {NoPort}
                               /\ proc[p].seen \in Ports \cup {NoPort}
                               /\ proc[p].met \in Procs \cup {NoProc} /\ proc[p].shown \in BOOLEAN
           /\ NoProc \notin Procs /\ NoPort \notin Ports
  BY InstanceAssumption DEF InstanceInv, InstanceTypeOK, ProcType, Pcs

LEMMA PcStep ==
    ASSUME proc \in [Procs -> ProcType], NEW p \in Procs, NEW x \in Pcs, proc' = [proc EXCEPT ![p].pc = x]
    PROVE  /\ proc' \in [Procs -> ProcType] /\ \A q \in Procs \ {p} : proc'[q] = proc[q]
           /\ proc'[p].pc = x /\ proc'[p].port = proc[p].port /\ proc'[p].seen = proc[p].seen
           /\ proc'[p].met = proc[p].met /\ proc'[p].shown = proc[p].shown
<1> DEFINE r == [proc[p] EXCEPT !.pc = x]
<1>1. /\ r \in ProcType /\ r.pc = x /\ r.port = proc[p].port /\ r.seen = proc[p].seen
      /\ r.met = proc[p].met /\ r.shown = proc[p].shown
  BY DEF ProcType, Pcs
<1>2. proc' = [proc EXCEPT ![p] = r]
  OBVIOUS
<1> HIDE DEF r
<1> QED BY <1>1, <1>2

\* The app that can be found has the lock.
LEMMA FoundHolds == ASSUME InstanceInv, NEW p \in Procs, Found(p) PROVE holder = p
  BY DEF InstanceInv, LockInv, Found

LEMMA LockStep ==
    ASSUME InstanceInv, NEW p \in Procs, \A q \in Procs \ {p} : proc'[q] = proc[q],
           holder' = holder \/ holder \notin Procs \ {p},
           proc'[p].pc \in Guarded => holder' = p,
           proc'[p].port # NoPort => proc'[p].pc \in Opened
    PROVE  LockInv'
<1>1. ASSUME NEW q \in Procs \ {p}
      PROVE  /\ proc'[q].pc \in Guarded => holder' = q
             /\ proc'[q].port # NoPort => proc'[q].pc \in Opened
  BY DEF InstanceInv, LockInv, Guarded, Opened
<1> QED BY <1>1 DEF LockInv, Guarded, Opened

LEMMA MetStep ==
    ASSUME InstanceInv, NEW p \in Procs, \A q \in Procs \ {p} : proc'[q] = proc[q],
           portFile' = portFile \/ \A q \in Procs : ~Found(q),
           Found(p) => proc'[p].pc \in {"setup", "up"} /\ proc'[p].port = proc[p].port,
           \A port \in Ports, q \in Procs \ {p}, said \in {"nothing", "show"} :
               Has(queue[port], Call(q, said)) => Has(queue'[port], Call(q, said)),
           MetBy(p)'
    PROVE  MetInv'
<1>1. ASSUME NEW q \in Procs \ {p}, proc'[q].met # NoProc, proc'[q].pc \in Asking
      PROVE  MetBy(q)'
  <2>1. PICK m \in Procs : m = proc[q].met /\ Met(q, m)
    BY <1>1 DEF InstanceInv, MetInv, MetBy, Asking, Met
  <2>2. Found(m) /\ portFile' = portFile /\ proc'[q] = proc[q]
    BY <2>1 DEF Met
  <2>3. proc'[m].pc \in {"setup", "up"} /\ proc'[m].port = proc[m].port
    BY <2>2 DEF Found
  <2>4. Found(m)'
    BY <2>2, <2>3 DEF Found, Listens
  <2>5. proc[m].port \in Ports
    BY <2>1, <2>2, Fields1 DEF Found, Listens
  <2>6. Met(q, m)'
    <3>1. proc'[q].pc = "write" => Has(queue'[proc'[m].port], Call(q, "nothing"))
      BY <2>1, <2>2, <2>3, <2>5 DEF Met
    <3>2. proc'[q].pc = "ended" => proc'[q].shown \/ Has(queue'[proc'[m].port], Call(q, "show"))
      BY <2>1, <2>2, <2>3, <2>5 DEF Met
    <3> QED BY <2>1, <2>2, <2>3, <2>4, <3>1, <3>2 DEF Met
  <2> QED BY <2>1, <2>2, <2>6 DEF MetBy
<1>2. \A q \in Procs \ {p} : MetBy(q)'
  BY <1>1 DEF MetBy, Asking
<1> QED BY <1>2 DEF MetInv

\* A step of p that leaves calls and gui.port alone and after which p asks for nothing.
LEMMA QuietStep ==
    ASSUME InstanceInv, NEW p \in Procs, NEW x \in Pcs \ Asking, proc' = [proc EXCEPT ![p].pc = x],
           UNCHANGED <<portFile, queue>>, holder' \in Procs \cup {NoProc},
           holder' = holder \/ holder \notin Procs \ {p},
           x \in Guarded => holder' = p,
           proc[p].port # NoPort => x \in Opened,
           Found(p) => x \in {"setup", "up"}
    PROVE  InstanceInv'
<1>1. /\ proc' \in [Procs -> ProcType] /\ \A q \in Procs \ {p} : proc'[q] = proc[q]
      /\ proc'[p].pc = x /\ proc'[p].port = proc[p].port
  BY PcStep, Fields1
<1>2. InstanceTypeOK'
  BY <1>1 DEF InstanceInv, InstanceTypeOK
<1>3. LockInv'
  BY <1>1, LockStep
<1>4. MetBy(p)'
  BY <1>1 DEF MetBy, Asking
<1>5. MetInv'
  BY <1>1, <1>4, MetStep
<1> QED BY <1>2, <1>3, <1>5 DEF InstanceInv

LEMMA LaunchKeeps ==
    ASSUME InstanceInv, NEW p \in Procs,
           StartProcess(p) \/ Lock(p) \/ LockFails(p) \/ BindFails(p) \/ Listen(p)
    PROVE  InstanceInv'
<1>1. /\ proc[p].pc \in {"bind", "setup", "truncate", "publish"} => holder = p
      /\ proc[p].port # NoPort => proc[p].pc \in Opened
      /\ holder \in Procs \cup {NoProc} /\ NoProc \notin Procs
  BY Fields1 DEF InstanceInv, LockInv, Opened
<1>2. CASE StartProcess(p)
  BY <1>1, <1>2, QuietStep DEF StartProcess, Stands, Pcs, Asking, Guarded, Opened, Found
<1>3. CASE Lock(p)
  BY <1>1, <1>3, QuietStep DEF Lock, Stands, Pcs, Asking, Guarded, Opened, Found
<1>4. CASE LockFails(p)
  BY <1>1, <1>4, QuietStep DEF LockFails, Stands, Pcs, Asking, Guarded, Opened, Found
<1>5. CASE BindFails(p)
  BY <1>1, <1>5, QuietStep DEF BindFails, Stands, Pcs, Asking, Guarded, Opened, Found
<1>6. CASE Listen(p)
  BY <1>1, <1>6, QuietStep DEF Listen, Stands, Pcs, Asking, Guarded, Opened, Found
<1> QED BY <1>2, <1>3, <1>4, <1>5, <1>6

\* A launch finds the lock taken: if its holder can be found, it counts on it.
LEMMA WouldBlockKeeps == ASSUME InstanceInv, NEW p \in Procs, WouldBlock(p) PROVE InstanceInv'
<1> DEFINE m == IF Found(holder) THEN holder ELSE NoProc
<1>1. /\ proc[p].pc = "lock" /\ holder \in Procs \ {p} /\ UNCHANGED <<holder, portFile, queue>>
      /\ proc' = [proc EXCEPT ![p].pc = "read", ![p].met = m]
      /\ proc[p].port = NoPort /\ m \in Procs \cup {NoProc}
  BY Fields1 DEF WouldBlock, Stands, InstanceInv, LockInv
<1>2. m # NoProc => m = holder /\ Found(m) /\ m # p
  BY <1>1
<1> HIDE DEF m
<1>3. /\ proc' \in [Procs -> ProcType] /\ \A q \in Procs \ {p} : proc'[q] = proc[q]
      /\ proc'[p].pc = "read" /\ proc'[p].port = proc[p].port /\ proc'[p].met = m
  <2> DEFINE r == [proc[p] EXCEPT !.pc = "read", !.met = m]
  <2>1. proc' = [proc EXCEPT ![p] = r]
    BY <1>1
  <2>2. r \in ProcType /\ r.pc = "read" /\ r.port = proc[p].port /\ r.met = m
    BY ZenonT(60), <1>1, Fields1 DEF ProcType
  <2> HIDE DEF r
  <2> QED BY <2>1, <2>2, Fields1
<1>4. InstanceTypeOK'
  BY <1>1, <1>3 DEF InstanceInv, InstanceTypeOK
<1>5. LockInv'
  BY <1>1, <1>3, LockStep DEF Guarded
<1>6. MetBy(p)'
  <2>1. PICK k \in Procs \cup {NoProc} : k = m
    BY <1>1
  <2>2. k # NoProc => Found(k)'
    BY <1>1, <1>2, <1>3, <2>1 DEF Found, Listens
  <2> QED BY <1>3, <2>1, <2>2 DEF MetBy, Met
<1>7. MetInv'
  BY <1>1, <1>3, <1>6, MetStep DEF Found
<1> QED BY <1>4, <1>5, <1>7 DEF InstanceInv

LEMMA BindKeeps == ASSUME InstanceInv, NEW p \in Procs, Bind(p) PROVE InstanceInv'
<1>1. PICK port \in Ports : proc' = [proc EXCEPT ![p].pc = "truncate", ![p].port = port]
  BY DEF Bind
<1>2. proc[p].pc = "bind" /\ UNCHANGED <<holder, portFile, queue>> /\ holder = p
  BY DEF Bind, Stands, InstanceInv, LockInv
<1>3. /\ proc' \in [Procs -> ProcType] /\ \A q \in Procs \ {p} : proc'[q] = proc[q]
      /\ proc'[p].pc = "truncate" /\ proc'[p].port = port
  <2> DEFINE r == [proc[p] EXCEPT !.pc = "truncate", !.port = port]
  <2>1. proc' = [proc EXCEPT ![p] = r]
    BY <1>1
  <2>2. r \in ProcType /\ r.pc = "truncate" /\ r.port = port
    BY ZenonT(60), <1>1, Fields1 DEF ProcType
  <2> HIDE DEF r
  <2> QED BY <2>1, <2>2, Fields1
<1>4. InstanceTypeOK'
  BY <1>2, <1>3 DEF InstanceInv, InstanceTypeOK
<1>5. LockInv'
  BY <1>2, <1>3, LockStep DEF Guarded, Opened
<1>6. MetBy(p)'
  BY <1>3 DEF MetBy
<1>7. MetInv'
  BY <1>2, <1>3, <1>6, MetStep DEF Found
<1> QED BY <1>4, <1>5, <1>7 DEF InstanceInv

\* Only the holder of the lock writes gui.port, before it can be found.
LEMMA PublishKeeps ==
    ASSUME InstanceInv, NEW p \in Procs, Truncate(p) \/ Publish(p) \/ PublishFails(p)
    PROVE  InstanceInv'
<1>1. /\ proc[p].pc \in {"truncate", "publish"} /\ UNCHANGED <<holder, queue>> /\ holder = p
      /\ portFile' \in Ports \cup {NoPort}
      /\ \E x \in {"publish", "setup"} : proc' = [proc EXCEPT ![p].pc = x]
  BY Fields1 DEF Truncate, Publish, PublishFails, Stands, InstanceInv, LockInv
<1>2. PICK x \in {"publish", "setup"} : proc' = [proc EXCEPT ![p].pc = x]
  BY <1>1
<1>3. /\ proc' \in [Procs -> ProcType] /\ \A q \in Procs \ {p} : proc'[q] = proc[q]
      /\ proc'[p].pc = x /\ proc'[p].port = proc[p].port
  BY <1>2, PcStep, Fields1 DEF Pcs
<1>4. \A q \in Procs : ~Found(q)
  BY <1>1, FoundHolds DEF Found
<1>5. InstanceTypeOK'
  BY <1>1, <1>3 DEF InstanceInv, InstanceTypeOK
<1>6. LockInv'
  BY <1>1, <1>3, LockStep DEF Guarded, Opened
<1>7. MetBy(p)'
  BY <1>3 DEF MetBy
<1>8. MetInv'
  BY <1>1, <1>3, <1>4, <1>7, MetStep
<1> QED BY <1>5, <1>6, <1>8 DEF InstanceInv

\* A launch that met an app reads that app's port.
LEMMA ReadPortKeeps == ASSUME InstanceInv, NEW p \in Procs, ReadPort(p) PROVE InstanceInv'
<1> DEFINE x == IF portFile = NoPort THEN "ended" ELSE "connect"
<1>1. /\ proc[p].pc = "read" /\ UNCHANGED <<holder, portFile, queue>>
      /\ proc' = [proc EXCEPT ![p].seen = portFile, ![p].pc = x]
      /\ portFile \in Ports \cup {NoPort}
  BY Fields1 DEF ReadPort, Stands
<1>2. /\ proc' \in [Procs -> ProcType] /\ \A q \in Procs \ {p} : proc'[q] = proc[q]
      /\ proc'[p].pc = x /\ proc'[p].port = proc[p].port /\ proc'[p].met = proc[p].met
      /\ proc'[p].seen = portFile
  <2> DEFINE r == [proc[p] EXCEPT !.seen = portFile, !.pc = x]
  <2>1. proc' = [proc EXCEPT ![p] = r]
    BY <1>1
  <2>2. x \in Pcs
    BY DEF Pcs
  <2> HIDE DEF x
  <2>3. /\ r \in ProcType /\ r.pc = x /\ r.port = proc[p].port /\ r.met = proc[p].met
        /\ r.seen = portFile
    BY <1>1, <2>2, Fields1 DEF ProcType, Pcs
  <2> HIDE DEF r
  <2> QED BY <2>1, <2>3, Fields1
<1>3. InstanceTypeOK'
  BY <1>1, <1>2 DEF InstanceInv, InstanceTypeOK
<1>4. LockInv'
  BY <1>1, <1>2, LockStep DEF Guarded, Opened, InstanceInv, LockInv
<1>5. MetBy(p)'
  <2> SUFFICES ASSUME proc[p].met # NoProc PROVE MetBy(p)'
    BY <1>2 DEF MetBy
  <2>1. PICK m \in Procs : m = proc[p].met /\ Met(p, m)
    BY <1>1 DEF InstanceInv, MetInv, MetBy, Met
  <2>2. Found(m) /\ m # p
    BY <1>1, <2>1 DEF Met, Found
  <2>3. portFile # NoPort /\ portFile = proc[m].port
    BY <2>2 DEF Found, Listens
  <2>4. Met(p, m)'
    BY <1>1, <1>2, <2>2, <2>3 DEF Met, Found, Listens
  <2> QED BY <1>2, <2>1, <2>4 DEF MetBy
<1>6. MetInv'
  BY <1>1, <1>2, <1>5, MetStep DEF Found
<1> QED BY <1>3, <1>4, <1>6 DEF InstanceInv

LEMMA ConnectKeeps == ASSUME InstanceInv, NEW p \in Procs, Connect(p) PROVE InstanceInv'
<1> DEFINE at == proc[p].seen
           call == Call(p, "nothing")
<1>1. proc[p].pc = "connect" /\ UNCHANGED <<holder, portFile>> /\ at \in Ports \cup {NoPort}
  BY Fields1 DEF Connect, Stands
<1>2. call \in CallType
  BY DEF Call, CallType
<1>3. proc[p].met # NoProc => /\ Met(p, proc[p].met) /\ Found(proc[p].met) /\ proc[p].met \in Procs \ {p}
                              /\ at = proc[proc[p].met].port /\ Bound(at)
  <2> SUFFICES ASSUME proc[p].met # NoProc
               PROVE  /\ Met(p, proc[p].met) /\ Found(proc[p].met) /\ proc[p].met \in Procs \ {p}
                      /\ at = proc[proc[p].met].port /\ Bound(at)
    OBVIOUS
  <2>1. Met(p, proc[p].met)
    BY <1>1 DEF InstanceInv, MetInv, MetBy
  <2>2. Found(proc[p].met) /\ proc[p].met \in Procs /\ at = proc[proc[p].met].port
    BY <1>1, <2>1 DEF Met
  <2> QED BY <1>1, <2>1, <2>2 DEF Found, Bound, Listens
<1>4. CASE Bound(at)
  <2>1. at \in Ports
    BY <1>1, <1>4 DEF Bound, Listens
  <2>2. queue' = [queue EXCEPT ![at] = Append(queue[at], call)] /\ proc' = [proc EXCEPT ![p].pc = "write"]
    BY <1>4 DEF Connect
  <2>3. /\ proc' \in [Procs -> ProcType] /\ \A q \in Procs \ {p} : proc'[q] = proc[q]
        /\ proc'[p].pc = "write" /\ proc'[p].port = proc[p].port /\ proc'[p].met = proc[p].met
    BY <2>2, PcStep, Fields1 DEF Pcs
  <2> HIDE DEF call
  <2>4. /\ queue' \in [Ports -> Seq(CallType)] /\ Has(queue'[at], call)
        /\ \A port \in Ports : \A c : Has(queue[port], c) => Has(queue'[port], c)
    <3>1. /\ Append(queue[at], call) \in Seq(CallType) /\ Has(Append(queue[at], call), call)
          /\ \A c : Has(queue[at], c) => Has(Append(queue[at], call), c)
      BY <1>2, <2>1, Fields1, HasAppend
    <3> QED BY <2>1, <2>2, <3>1, Fields1
  <2> HIDE DEF at
  <2>5. InstanceTypeOK'
    BY <1>1, <2>3, <2>4 DEF InstanceInv, InstanceTypeOK
  <2>6. LockInv'
    BY <1>1, <2>3, LockStep DEF Guarded, Opened, InstanceInv, LockInv
  <2>7. MetBy(p)'
    <3> SUFFICES ASSUME proc[p].met # NoProc PROVE MetBy(p)'
      BY <2>3 DEF MetBy
    <3>1. PICK m \in Procs \ {p} : m = proc[p].met /\ Found(m) /\ at = proc[m].port
      BY <1>3
    <3>2. Found(m)' /\ proc'[m].port = at
      BY <1>1, <2>3, <3>1 DEF Found, Listens
    <3>3. Met(p, m)'
      BY <2>3, <2>4, <3>2 DEF Met, call
    <3> QED BY <2>3, <3>1, <3>3 DEF MetBy
  <2>8. MetInv'
    BY <1>1, <2>3, <2>4, <2>7, MetStep DEF Found
  <2> QED BY <2>5, <2>6, <2>8 DEF InstanceInv
<1>5. CASE ~Bound(at)
  <2>1. queue' = queue /\ proc' = [proc EXCEPT ![p].pc = "ended"]
    BY <1>5 DEF Connect
  <2>2. /\ proc' \in [Procs -> ProcType] /\ \A q \in Procs \ {p} : proc'[q] = proc[q]
        /\ proc'[p].pc = "ended" /\ proc'[p].port = proc[p].port /\ proc'[p].met = proc[p].met
    BY <2>1, PcStep, Fields1 DEF Pcs
  <2>3. InstanceTypeOK'
    BY <1>1, <2>1, <2>2 DEF InstanceInv, InstanceTypeOK
  <2>4. LockInv'
    BY <1>1, <2>2, LockStep DEF Guarded, Opened, InstanceInv, LockInv
  <2>5. MetBy(p)'
    BY <1>3, <1>5, <2>2 DEF MetBy
  <2>6. MetInv'
    BY <1>1, <2>1, <2>2, <2>5, MetStep DEF Found
  <2> QED BY <2>3, <2>4, <2>6 DEF InstanceInv
<1> QED BY <1>4, <1>5

LEMMA WriteKeeps == ASSUME InstanceInv, NEW p \in Procs, Write(p) PROVE InstanceInv'
<1> DEFINE x == Call(p, "nothing")
           y == Call(p, "show")
<1>1. /\ proc[p].pc = "write" /\ UNCHANGED <<holder, portFile>>
      /\ proc' = [proc EXCEPT ![p].pc = "ended"]
      /\ queue' = [port \in Ports |-> Turned(queue[port], x, y)]
  BY DEF Write, Stands, Turned
<1>2. /\ proc' \in [Procs -> ProcType] /\ \A q \in Procs \ {p} : proc'[q] = proc[q]
      /\ proc'[p].pc = "ended" /\ proc'[p].port = proc[p].port /\ proc'[p].met = proc[p].met
  BY <1>1, PcStep, Fields1 DEF Pcs
<1>3. y \in CallType /\ \A q \in Procs \ {p} : \A said : Call(q, said) # x
  BY DEF Call, CallType
<1> HIDE DEF x, y
<1>4. ASSUME NEW port \in Ports
      PROVE  /\ queue'[port] \in Seq(CallType)
             /\ \A c : Has(queue[port], c) /\ c # x => Has(queue'[port], c)
             /\ Has(queue[port], x) => Has(queue'[port], y)
  BY <1>1, <1>3, Fields1, HasTurned
<1>5. queue' \in [Ports -> Seq(CallType)]
  <2>1. queue' = [port \in Ports |-> queue'[port]]
    BY <1>1
  <2> QED BY <1>4, <2>1
<1>6. InstanceTypeOK'
  BY <1>1, <1>2, <1>5 DEF InstanceInv, InstanceTypeOK
<1>7. LockInv'
  BY <1>1, <1>2, LockStep DEF Guarded, Opened, InstanceInv, LockInv
<1>8. MetBy(p)'
  <2> SUFFICES ASSUME proc[p].met # NoProc PROVE MetBy(p)'
    BY <1>2 DEF MetBy
  <2>1. PICK m \in Procs : m = proc[p].met /\ Met(p, m)
    BY <1>1 DEF InstanceInv, MetInv, MetBy, Met
  <2>2. Found(m) /\ m # p /\ Has(queue[proc[m].port], x) /\ proc[m].port \in Ports
    <3>1. Found(m) /\ m # p /\ Has(queue[proc[m].port], x)
      BY <1>1, <2>1 DEF Met, Found, x
    <3> QED BY <3>1, Fields1 DEF Found, Listens
  <2>3. Found(m)' /\ Has(queue'[proc'[m].port], y)
    BY <1>1, <1>2, <1>4, <2>2 DEF Found, Listens
  <2>4. Met(p, m)'
    BY <1>2, <2>3 DEF Met, y
  <2> QED BY <1>2, <2>1, <2>4 DEF MetBy
<1>9. MetInv'
  BY <1>1, <1>2, <1>3, <1>4, <1>8, MetStep DEF Found
<1> QED BY <1>6, <1>7, <1>9 DEF InstanceInv

LEMMA ReuseKeeps == ASSUME InstanceInv, NEW p \in Procs, Reuse(p) PROVE InstanceInv'
<1>1. /\ proc[p].pc = "ended" /\ UNCHANGED <<holder, portFile, queue>> /\ proc' = [proc EXCEPT ![p] = Absent]
  BY DEF Reuse, Stands
<1>2. Absent \in ProcType /\ Absent.pc = "off" /\ Absent.port = NoPort /\ Absent.met = NoProc
  BY DEF Absent, ProcType
<1>3. proc' \in [Procs -> ProcType] /\ \A q \in Procs \ {p} : proc'[q] = proc[q]
  BY <1>1, <1>2, Fields1
<1>4. InstanceTypeOK'
  BY <1>1, <1>3 DEF InstanceInv, InstanceTypeOK
<1>5. proc'[p] = Absent
  BY <1>1, Fields1
<1>6. LockInv'
  BY <1>1, <1>2, <1>3, <1>5, LockStep DEF Guarded
<1>7. MetBy(p)'
  BY <1>2, <1>5 DEF MetBy
<1>8. MetInv'
  BY <1>1, <1>3, <1>7, MetStep DEF Found
<1> QED BY <1>4, <1>6, <1>8 DEF InstanceInv

-----------------------------------------------------------------------------
(* The launch protocol: the app that listens, strangers, and the end. *)

LEMMA StrangerKeeps == ASSUME InstanceInv, NEW at \in Ports, StrangerCalls(at) PROVE InstanceInv'
<1> DEFINE call == Call(NoProc, "nothing")
<1>1. UNCHANGED <<proc, holder, portFile>> /\ queue' = [queue EXCEPT ![at] = Append(queue[at], call)]
  BY DEF StrangerCalls
<1>2. call \in CallType
  BY DEF Call, CallType
<1> HIDE DEF call
<1>3. /\ queue' \in [Ports -> Seq(CallType)]
      /\ \A port \in Ports : \A c : Has(queue[port], c) => Has(queue'[port], c)
  <2>1. /\ Append(queue[at], call) \in Seq(CallType)
        /\ \A c : Has(queue[at], c) => Has(Append(queue[at], call), c)
    BY <1>2, Fields1, HasAppend
  <2> QED BY <1>1, <2>1, Fields1
<1>4. InstanceTypeOK' /\ LockInv'
  BY <1>1, <1>3 DEF InstanceInv, InstanceTypeOK, LockInv
<1>5. MetInv'
  <2> SUFFICES ASSUME NEW p \in Procs, proc[p].met # NoProc, proc[p].pc \in Asking PROVE MetBy(p)'
    BY <1>1 DEF MetInv, MetBy, Asking
  <2>1. PICK m \in Procs : m = proc[p].met /\ Met(p, m)
    BY DEF InstanceInv, MetInv, MetBy, Met, Asking
  <2>2. Found(m)' /\ proc[m].port \in Ports
    BY <1>1, <2>1, Fields1 DEF Met, Found, Listens
  <2>3. Met(p, m)'
    BY <1>1, <1>3, <2>1, <2>2 DEF Met
  <2> QED BY <1>1, <2>1, <2>3 DEF MetBy
<1> QED BY <1>4, <1>5 DEF InstanceInv

\* The app deals with the first call: of the others none is lost, and of its
\* caller the app has shown the window or it is forgotten.
LEMMA ServeKeeps == ASSUME InstanceInv, NEW p \in Procs, ListenStep(p) PROVE InstanceInv'
<1> DEFINE at == proc[p].port
           head == Head(queue[at])
<1>1. /\ at # NoPort /\ queue[at] # <<>> /\ UNCHANGED <<holder, portFile>>
      /\ queue' = [queue EXCEPT ![at] = Tail(queue[at])]
  BY DEF ListenStep, Show, Ignore, Waits, Drop
<1>2. at \in Ports /\ queue[at] \in Seq(CallType)
  BY <1>1, Fields1
<1>3. ASSUME NEW q \in Procs
      PROVE  /\ proc'[q] \in ProcType
             /\ proc'[q].pc = proc[q].pc /\ proc'[q].port = proc[q].port /\ proc'[q].seen = proc[q].seen
             /\ \/ /\ head.said = "show" /\ proc'[q].met = proc[q].met
                   /\ proc'[q].shown = IF q = head.from THEN TRUE ELSE proc[q].shown
                \/ /\ head.said # "show" /\ proc'[q].shown = proc[q].shown
                   /\ proc'[q].met = IF q = head.from THEN NoProc ELSE proc[q].met
  <2>1. proc[q] \in ProcType
    BY Fields1
  <2>2. CASE Show(p)
    <3>1. head.said = "show" /\ proc'[q] = IF q = head.from THEN [proc[q] EXCEPT !.shown = TRUE] ELSE proc[q]
      BY <2>2 DEF Show, Next1
    <3> HIDE DEF head
    <3> QED BY <2>1, <3>1 DEF ProcType
  <2>3. CASE Ignore(p)
    <3>1. head.said # "show" /\ proc'[q] = IF q = head.from THEN [proc[q] EXCEPT !.met = NoProc] ELSE proc[q]
      BY <2>3 DEF Ignore, Next1
    <3> HIDE DEF head
    <3> QED BY <2>1, <3>1 DEF ProcType
  <2> QED BY <2>2, <2>3 DEF ListenStep
<1>4. proc' \in [Procs -> ProcType]
  <2>1. proc' = [q \in Procs |-> proc'[q]]
    BY DEF ListenStep, Show, Ignore
  <2> QED BY <1>3, <2>1
<1>5. /\ queue' \in [Ports -> Seq(CallType)]
      /\ \A port \in Ports : \A c : Has(queue[port], c) /\ c # head => Has(queue'[port], c)
  <2>1. /\ Tail(queue[at]) \in Seq(CallType)
        /\ \A c : Has(queue[at], c) /\ c # head => Has(Tail(queue[at]), c)
    BY <1>1, <1>2, HasTail
  <2> HIDE DEF head
  <2> QED BY <1>1, <1>2, <2>1, Fields1
<1>6. InstanceTypeOK'
  BY <1>1, <1>4, <1>5 DEF InstanceInv, InstanceTypeOK
<1>7. LockInv'
  BY ZenonT(60), <1>1, <1>3 DEF InstanceInv, LockInv
<1> HIDE DEF head, at
<1>8. MetInv'
  <2> SUFFICES ASSUME NEW q \in Procs, proc'[q].met # NoProc, proc'[q].pc \in Asking PROVE MetBy(q)'
    BY DEF MetInv, MetBy, Asking
  <2>1. proc'[q].met = proc[q].met /\ proc[q].pc \in Asking
    BY <1>3
  <2>2. PICK m \in Procs : m = proc[q].met /\ Met(q, m)
    BY <2>1 DEF InstanceInv, MetInv, MetBy, Met, Asking
  <2>3. Found(m)' /\ proc[m].port \in Ports /\ proc'[m].port = proc[m].port
    BY <1>1, <1>3, <2>2, Fields1 DEF Met, Found, Listens
  <2>4. ASSUME proc[q].pc = "write" PROVE Has(queue'[proc[m].port], Call(q, "nothing"))
    <3>1. Has(queue[proc[m].port], Call(q, "nothing"))
      BY <2>2, <2>4 DEF Met
    <3>2. Call(q, "nothing").from = q /\ Call(q, "nothing").said = "nothing"
      BY DEF Call
    <3>3. Call(q, "nothing") # head
      BY <1>3, <2>1, <3>2, Fields1
    <3> QED BY <1>5, <2>3, <3>1, <3>3
  <2>5. ASSUME proc[q].pc = "ended" PROVE proc'[q].shown \/ Has(queue'[proc[m].port], Call(q, "show"))
    <3>1. proc[q].shown \/ Has(queue[proc[m].port], Call(q, "show"))
      BY <2>2, <2>5 DEF Met
    <3>2. Call(q, "show").from = q /\ Call(q, "show").said = "show"
      BY DEF Call
    <3>3. Call(q, "show") = head => proc'[q].shown
      BY <1>3, <3>2
    <3>4. proc[q].shown => proc'[q].shown
      BY <1>3
    <3> QED BY <1>5, <2>3, <3>1, <3>3, <3>4
  <2>6. Met(q, m)'
    BY <1>3, <2>2, <2>3, <2>4, <2>5 DEF Met
  <2> QED BY <2>1, <2>2, <2>6 DEF MetBy
<1> QED BY <1>6, <1>7, <1>8 DEF InstanceInv

\* A process ends: those who counted on it do so no more, and the calls of the
\* others stay, unless they were at its own port.
LEMMA EndKeeps == ASSUME InstanceInv, NEW p \in Procs, End(p) PROVE InstanceInv'
<1> DEFINE x == Call(p, "nothing")
           y == Call(p, "closed")
           gone == [Absent EXCEPT !.pc = "ended"]
<1>1. /\ proc' = [Forgotten(p) EXCEPT ![p] = gone]
      /\ holder' = (IF holder = p THEN NoProc ELSE holder)
      /\ queue' = [port \in Ports |-> IF Listens(p, port) THEN <<>> ELSE Turned(queue[port], x, y)]
      /\ portFile' = portFile
  BY DEF End, Without, Turned
<1>2. gone \in ProcType /\ gone.pc = "ended" /\ gone.port = NoPort /\ gone.met = NoProc
  BY DEF Absent, ProcType
<1> HIDE DEF gone
<1>3. ASSUME NEW q \in Procs \ {p}
      PROVE  /\ proc'[q] \in ProcType
             /\ proc'[q].pc = proc[q].pc /\ proc'[q].port = proc[q].port /\ proc'[q].seen = proc[q].seen
             /\ proc'[q].shown = proc[q].shown
             /\ proc'[q].met = IF proc[q].met = p THEN NoProc ELSE proc[q].met
  <2>1. proc'[q] = IF proc[q].met = p THEN [proc[q] EXCEPT !.met = NoProc] ELSE proc[q]
    BY <1>1 DEF Forgotten
  <2>2. proc[q] \in ProcType
    BY Fields1
  <2> QED BY <2>1, <2>2 DEF ProcType
<1>4. proc'[p] = gone
  BY <1>1 DEF Forgotten
<1>5. proc' \in [Procs -> ProcType]
  <2>1. DOMAIN Forgotten(p) = Procs
    BY DEF Forgotten
  <2>2. proc' = [q \in Procs |-> proc'[q]]
    BY <1>1, <2>1
  <2>3. \A q \in Procs : proc'[q] \in ProcType
    BY <1>2, <1>3, <1>4
  <2> QED BY <2>2, <2>3
<1>6. y \in CallType /\ \A q \in Procs \ {p} : \A said : Call(q, said) # x
  BY DEF Call, CallType
<1> HIDE DEF x, y
<1>7. ASSUME NEW port \in Ports
      PROVE  /\ queue'[port] \in Seq(CallType)
             /\ \A c : Has(queue[port], c) /\ c # x /\ ~Listens(p, port) => Has(queue'[port], c)
  <2>1. CASE Listens(p, port)
    BY <1>1, <2>1
  <2>2. CASE ~Listens(p, port)
    <3>1. queue'[port] = Turned(queue[port], x, y)
      BY <1>1, <2>2
    <3>2. queue[port] \in Seq(CallType)
      BY Fields1
    <3>3. /\ Turned(queue[port], x, y) \in Seq(CallType)
          /\ \A c : Has(queue[port], c) /\ c # x => Has(Turned(queue[port], x, y), c)
      BY <1>6, <3>2, HasTurned
    <3> QED BY <3>1, <3>3
  <2> QED BY <2>1, <2>2
<1>8. queue' \in [Ports -> Seq(CallType)]
  <2>1. queue' = [port \in Ports |-> queue'[port]]
    BY <1>1
  <2> QED BY <1>7, <2>1
<1>9. InstanceTypeOK'
  BY <1>1, <1>5, <1>8, Fields1 DEF InstanceInv, InstanceTypeOK
<1>10. LockInv'
  <2>1. ASSUME NEW q \in Procs \ {p}
        PROVE  /\ proc'[q].pc \in Guarded => holder' = q
               /\ proc'[q].port # NoPort => proc'[q].pc \in Opened
    BY <1>1, <1>3 DEF InstanceInv, LockInv, Guarded, Opened
  <2> QED BY <1>2, <1>4, <2>1 DEF LockInv, Guarded, Opened
<1>11. MetInv'
  <2> SUFFICES ASSUME NEW q \in Procs, proc'[q].met # NoProc, proc'[q].pc \in Asking PROVE MetBy(q)'
    BY DEF MetInv, MetBy, Asking
  <2>1. q # p /\ proc'[q].met = proc[q].met /\ proc[q].met # p /\ proc[q].pc \in Asking
    BY <1>2, <1>3, <1>4
  <2>2. PICK m \in Procs \ {p} : m = proc[q].met /\ Met(q, m)
    BY <2>1 DEF InstanceInv, MetInv, MetBy, Met, Asking
  <2>3. Found(m) /\ holder = m
    BY <2>2, FoundHolds DEF Met
  <2>4. Found(m)' /\ proc[m].port \in Ports /\ proc'[m].port = proc[m].port
    BY <1>1, <1>3, <2>3, Fields1 DEF Found, Listens
  <2>5. ~Listens(p, proc[m].port)
    <3>1. proc[p].port = NoPort
      BY <2>3 DEF InstanceInv, LockInv
    <3> QED BY <3>1 DEF Listens
  <2>6. Met(q, m)'
    BY <1>3, <1>6, <1>7, <2>1, <2>2, <2>4, <2>5, SMTT(30) DEF Met
  <2> QED BY <2>1, <2>2, <2>6 DEF MetBy
<1> QED BY <1>9, <1>10, <1>11 DEF InstanceInv

LEMMA InitInstance == InstanceInit => InstanceInv
<1> SUFFICES ASSUME InstanceInit PROVE InstanceInv
  OBVIOUS
<1>1. Absent \in ProcType /\ Absent.pc = "off" /\ Absent.port = NoPort /\ Absent.met = NoProc
  BY DEF Absent, ProcType
<1>2. \A p \in Procs : proc[p] = Absent
  BY DEF InstanceInit
<1>3. InstanceTypeOK
  BY <1>1 DEF InstanceInit, InstanceTypeOK
<1>4. LockInv /\ MetInv
  BY <1>1, <1>2 DEF LockInv, MetInv, MetBy
<1> QED BY <1>3, <1>4 DEF InstanceInv

LEMMA NextKeepsInstance == InstanceInv /\ [Next]_vars => InstanceInv'
<1> SUFFICES ASSUME InstanceInv, [Next]_vars PROVE InstanceInv'
  OBVIOUS
<1>1. CASE UNCHANGED instanceVars
  BY <1>1 DEF instanceVars, InstanceInv, InstanceTypeOK, LockInv, MetInv, MetBy, Met, Found, Listens
<1>2. ASSUME NEW p \in Procs, Acquire(p) PROVE InstanceInv'
  BY <1>2, LaunchKeeps, WouldBlockKeeps, BindKeeps, PublishKeeps, ReadPortKeeps, ConnectKeeps,
     WriteKeeps DEF Acquire
<1> QED BY <1>1, <1>2, NextInstance, LaunchKeeps, EndKeeps, ServeKeeps, ReuseKeeps, StrangerKeeps
    DEF InstanceNext

LEMMA InstanceAnswers == InstanceInv => LaunchAnswered
<1> SUFFICES ASSUME InstanceInv, NEW p \in Procs, Stands(p, "ended"), proc[p].met # NoProc, ~proc[p].shown
             PROVE  \E port \in Ports : /\ Listens(proc[p].met, port)
                                        /\ \E i \in DOMAIN queue[port] : queue[port][i] = Call(p, "show")
  BY DEF LaunchAnswered
<1>1. PICK m \in Procs : m = proc[p].met /\ Met(p, m)
  BY DEF InstanceInv, MetInv, MetBy, Met, Stands
<1>2. Found(m) /\ Has(queue[proc[m].port], Call(p, "show"))
  BY <1>1 DEF Met, Stands
<1>3. proc[m].port \in Ports /\ Listens(m, proc[m].port)
  BY <1>2, Fields1 DEF Found, Listens
<1> QED BY <1>1, <1>2, <1>3 DEF Has

\* For any number of processes, ports and strangers: a launch that met an app
\* which was listening at the published port, and is still there, has its request
\* before the app or answered when it is over (single_instance.rs: acquire,
\* Guard::listen), whatever else starts, ends or writes meanwhile.
THEOREM LaunchIsAnswered == Spec => []LaunchAnswered
<1>1. Init => InstanceInv
  BY InitInstance DEF Init
<1> QED BY <1>1, NextKeepsInstance, InstanceAnswers, PTL DEF Spec
=============================================================================
