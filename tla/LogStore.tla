------------------------------ MODULE LogStore ------------------------------
(***************************************************************************)
(* The request log on disk: the daemon's Logger writes, rotates, archives  *)
(* and prunes (src/logger.rs) while the GUI scans everything that is       *)
(* retained (traffic::read in gui/src/traffic.rs).  The two processes      *)
(* share no lock, only the file system: every rename, open and unlink is a *)
(* step of its own.  A file keeps its identity, its inode, when renamed.   *)
(*                                                                         *)
(* A line stands for the terminal event of one request and is numbered in  *)
(* the order of the timestamps; line 0 is one no reader can parse.         *)
(***************************************************************************)
EXTENDS Integers, Sequences, FiniteSets, TrafficReport

CONSTANTS
    Files, NoFile,  \* file identities
    MaxEvents,      \* bound: lines handed to the logger
    MaxTime,        \* bound: the clock
    Limit,          \* lines a file holds before rotation: 5 MiB in the code
    Retention,      \* how long archives are kept: 30 days in the code
    Window,         \* the range of a scan: at most 30 days in the code
    Entry,          \* what each line says
    Configured,     \* the labels of the GUI's configuration
    Unix            \* whether the build can tell files apart by inode

ASSUME ConstantsAssumption ==
    /\ NoFile \notin Files /\ IsFiniteSet(Files)
    /\ {MaxEvents, MaxTime, Retention, Window} \subseteq Nat /\ Limit \in Nat \ {0}
    /\ Entry \in Seq(LineType) /\ Len(Entry) = MaxEvents
    /\ Unix \in BOOLEAN

\* Names are checked when the configuration is loaded, ids when a login is read.
ASSUME ConfiguredAssumption ==
    /\ DOMAIN Configured \subseteq STRING \X STRING /\ Configured \in [DOMAIN Configured -> STRING]
    /\ \A k \in DOMAIN Configured : k[2] # "" /\ Configured[k] # ""

Never == -1   \* the archive date of a file whose name has none

VARIABLES
    live,      \* the file named proxy.log, or NoFile
    backup,    \* the file named proxy.log.1, or NoFile
    archives,  \* the files in history/
    file,      \* what each file holds
    clock,
    at,        \* the timestamp of each line, in the order they were taken
    waiting,   \* lines whose writers wait for the logger's mutex
    writer,    \* the logger, under its mutex
    scan,      \* a traffic scan
    labels,    \* the names of accounts and keys that it knows
    stored     \* history: lines whose write succeeded, and can be parsed

vars == <<live, backup, archives, file, clock, at, waiting, writer, scan, labels, stored>>
storeVars == <<live, backup, archives, file>>

Stored(f) == {file[f].lines[i] : i \in 1 .. Len(file[f].lines)} \ {0}

Named == ({live, backup} \cup archives) \ {NoFile}

\* An inode is free once it has neither a name nor an open handle; the
\* name of an archive, once listed, is never reused.
Free == Files \ (Named \cup {writer.handle} \cup scan.todo
                       \cup {scan.handles[i] : i \in 1 .. Len(scan.handles)})

Empty == [lines |-> <<>>, torn |-> FALSE, modified |-> 0, archived |-> Never]

Is(pc) == writer.pc = pc
-----------------------------------------------------------------------------
(* Logger::write *)

\* A request ends: its line is stamped before the mutex is asked for.
Stamp ==
    /\ ~Is("down") /\ Len(at) < MaxEvents
    /\ at'      = Append(at, clock)
    /\ waiting' = waiting \cup {Len(at) + 1}
    /\ UNCHANGED <<storeVars, clock, writer, scan, labels, stored>>

\* Variant with a bug: rotation keeps the file open.
TakeKeepsOpen(n) ==
    /\ Is("idle") /\ n \in waiting
    /\ waiting' = waiting \ {n}
    /\ writer'  = IF writer.handle # NoFile /\ Len(file[writer.handle].lines) >= Limit
                  THEN [writer EXCEPT !.pc = "archive", !.line = n]
                  ELSE [writer EXCEPT !.pc = "write", !.line = n]
    /\ UNCHANGED <<storeVars, clock, at, scan, labels, stored>>

\* A writer gets the mutex.  A file that would grow past the limit is closed
\* and rotated; a logger without a file only prints.
Take(n) ==
    /\ Is("idle") /\ n \in waiting
    /\ waiting' = waiting \ {n}
    /\ writer'  = IF writer.handle # NoFile /\ Len(file[writer.handle].lines) >= Limit
                  THEN [writer EXCEPT !.pc = "archive", !.line = n, !.handle = NoFile]
                  ELSE [writer EXCEPT !.pc = "write", !.line = n]
    /\ UNCHANGED <<storeVars, clock, at, scan, labels, stored>>

\* Variant with a bug: the old backup is not archived.
ArchiveNothing ==
    /\ Is("archive")
    /\ writer' = [writer EXCEPT !.pc = "shift"]
    /\ UNCHANGED <<storeVars, clock, at, waiting, scan, labels, stored>>

\* rotate: the old backup, if there is one, moves to history/.
Archive ==
    /\ Is("archive")
    /\ IF backup = NoFile
       THEN UNCHANGED storeVars
       ELSE /\ archives' = archives \cup {backup}
            /\ file'     = [file EXCEPT ![backup].archived = clock]
            /\ backup'   = NoFile
            /\ UNCHANGED live
    /\ writer' = [writer EXCEPT !.pc = "shift"]
    /\ UNCHANGED <<clock, at, waiting, scan, labels, stored>>

\* rotate: the log becomes the backup; then the archives are pruned by the
\* age they have now.
Shift ==
    /\ Is("shift")
    /\ backup' = live
    /\ live'   = NoFile
    /\ writer' = [writer EXCEPT !.pc = "prune", !.cutoff = clock - Retention]
    /\ UNCHANGED <<archives, file, clock, at, waiting, scan, labels, stored>>

\* A directory cannot be made or a file not renamed: logging goes on in
\* whatever file has the log's name.
RotateFails ==
    /\ Is("archive") \/ Is("shift")
    /\ writer' = [writer EXCEPT !.pc = "open"]
    /\ UNCHANGED <<storeVars, clock, at, waiting, scan, labels, stored>>

Expired(f) == /\ file[f].archived # Never
              /\ file[f].archived < writer.cutoff /\ file[f].modified < writer.cutoff

\* prune_history deletes one archive after the other ...
Prune(f) ==
    /\ Is("prune") /\ f \in archives /\ Expired(f)
    /\ archives' = archives \ {f}
    /\ UNCHANGED <<live, backup, file, clock, at, waiting, writer, scan, labels, stored>>

\* ... until none is left, or one cannot be deleted, which is only reported.
PruneEnds ==
    /\ Is("prune")
    /\ writer' = [writer EXCEPT !.pc = "open"]
    /\ UNCHANGED <<storeVars, clock, at, waiting, scan, labels, stored>>

\* open_private opens the log for appending, and makes it if need be.
Open ==
    /\ Is("open")
    /\ \/ /\ live # NoFile
          /\ UNCHANGED <<live, file>>
       \/ /\ live = NoFile
          /\ \E f \in Free : live' = f /\ file' = [file EXCEPT ![f] = Empty]
    /\ writer' = [writer EXCEPT !.pc = "write", !.handle = live']
    /\ UNCHANGED <<backup, archives, clock, at, waiting, scan, labels, stored>>

\* It cannot be opened: nothing is logged any more until the next start.
OpenFails ==
    /\ Is("open")
    /\ writer' = [writer EXCEPT !.pc = "write"]
    /\ UNCHANGED <<storeVars, clock, at, waiting, scan, labels, stored>>

\* A write leaves these lines in a file, the last one cut short or not.
Leaves(f, lines, torn) ==
    file' = [file EXCEPT ![f] = [lines |-> lines, torn |-> torn, modified |-> clock,
                                 archived |-> file[f].archived]]

\* What is appended to a torn line is lost with it.
Write ==
    LET f == writer.handle
    IN /\ Is("write")
       /\ IF f = NoFile \/ writer.line = 0
          THEN UNCHANGED <<file, stored>>
          ELSE IF file[f].torn
          THEN Leaves(f, file[f].lines, FALSE) /\ UNCHANGED stored
          ELSE /\ Leaves(f, Append(file[f].lines, writer.line), FALSE)
               /\ stored' = stored \cup {writer.line}
       /\ writer' = [writer EXCEPT !.pc = "idle", !.line = 0]
       /\ UNCHANGED <<live, backup, archives, clock, at, waiting, scan, labels>>

\* Part of a line reaches the file: the disk is full, or the process dies.
Tear(f) == Leaves(f, IF file[f].torn THEN file[f].lines ELSE Append(file[f].lines, 0), TRUE)

WriteFails ==
    /\ Is("write") /\ writer.handle # NoFile /\ writer.line # 0
    /\ Tear(writer.handle) \/ UNCHANGED file
    /\ writer' = [writer EXCEPT !.pc = "idle", !.line = 0, !.handle = NoFile]
    /\ UNCHANGED <<live, backup, archives, clock, at, waiting, scan, labels, stored>>
-----------------------------------------------------------------------------
(* The daemon and its environment *)

\* Logger::new prunes, then opens the log.
Start ==
    /\ Is("down")
    /\ writer' = [writer EXCEPT !.pc = "prune", !.cutoff = clock - Retention]
    /\ UNCHANGED <<storeVars, clock, at, waiting, scan, labels, stored>>

\* The daemon stops or dies at any point; lines not yet written are lost.
Crash ==
    /\ ~Is("down")
    /\ \/ UNCHANGED file
       \/ Is("write") /\ writer.handle # NoFile /\ writer.line # 0 /\ Tear(writer.handle)
    /\ writer'  = [writer EXCEPT !.pc = "down", !.line = 0, !.handle = NoFile]
    /\ waiting' = {}
    /\ UNCHANGED <<live, backup, archives, clock, at, scan, labels, stored>>

\* The user imports old history: a copy of the backup under a name without
\* a date.
Import ==
    /\ backup # NoFile
    /\ \A f \in archives : file[f].archived # Never
    /\ \E f \in Free :
          /\ archives' = archives \cup {f}
          /\ file'     = [file EXCEPT ![f] = [Empty EXCEPT !.lines = file[backup].lines,
                                                           !.modified = clock]]
    /\ UNCHANGED <<live, backup, clock, at, waiting, writer, scan, labels, stored>>

\* Time passes at any step, those of a scan included.
Tick ==
    /\ clock < MaxTime
    /\ clock' = clock + 1
    /\ UNCHANGED <<storeVars, at, waiting, writer, scan, labels, stored>>
-----------------------------------------------------------------------------
(* traffic::read *)

NoScan == [pc |-> "off", end |-> 0, handles |-> <<>>, todo |-> {}, read |-> {},
           counted |-> [n \in 1 .. MaxEvents |-> 0], due |-> {}, named |-> {}]

InWindow(n) == at[n] >= scan.end - Window /\ at[n] < scan.end

InStore == UNION {Stored(f) : f \in Named}

\* The window is fixed first.  History: the lines the scan owes an answer for,
\* and the lines whose label it will have met.
ScanBegin ==
    /\ scan.pc = "off"
    /\ scan' = [NoScan EXCEPT !.pc = "live", !.end = clock,
                    !.due = {n \in InStore : clock - Window <= at[n] /\ at[n] < clock},
                    !.named = {n \in UNION {Stored(f) : f \in {g \in Named : file[g].modified >= clock - Window}} :
                                  Entry[n].id # "" /\ Entry[n].label # ""}]
    /\ labels' = Configured
    /\ UNCHANGED <<storeVars, clock, at, waiting, writer, stored>>

Handle(f) == IF f = NoFile THEN <<>> ELSE <<f>>

\* Variant with a bug: the backup is opened first.
BackupFirst == <<backup, live>>

\* The log is opened before its backup, and both before the archives are
\* listed: the way a file moves.
OpenOrder == <<live, backup>>

ScanOpen(i) ==
    /\ scan.pc = <<"live", "backup">>[i]
    /\ scan' = [scan EXCEPT !.pc = <<"backup", "list">>[i], !.handles = @ \o Handle(OpenOrder[i])]
    /\ UNCHANGED <<storeVars, clock, at, waiting, writer, labels, stored>>

\* Archives last written before the window are skipped.
ScanList ==
    /\ scan.pc = "list"
    /\ scan' = [scan EXCEPT !.pc = "read",
                            !.todo = {f \in archives : file[f].modified >= scan.end - Window}]
    /\ UNCHANGED <<storeVars, clock, at, waiting, writer, labels, stored>>

\* The requests of a file that end in the window and were not met before.
Fresh(f) == {n \in Stored(f) : IsRequestEnd(Entry[n]) /\ InWindow(n) /\ scan.counted[n] = 0}

\* What cannot be parsed says nothing.
Entries(lines) ==
    [i \in DOMAIN lines |-> IF lines[i] = 0 THEN [Line EXCEPT !.event = "other"] ELSE Entry[lines[i]]]

\* Variant with a bug: only the requests that count can name an account.
LabelsOfWindow(f) ==
    LET lines == file[f].lines
    IN  LearnAll(labels, Entries([i \in DOMAIN lines |-> IF lines[i] \in Fresh(f) THEN lines[i] ELSE 0]))

\* The names in a file, whatever the age of the line.
LabelsOf(f) == LearnAll(labels, Entries(file[f].lines))

\* History: how often each line is counted.
Count(lines) == [n \in 1 .. MaxEvents |-> scan.counted[n] + (IF n \in lines THEN 1 ELSE 0)]

\* A file that has been read under another name is skipped, where it can be told.
Read(f, rest) ==
    IF Unix /\ f \in scan.read
    THEN scan' = rest /\ UNCHANGED labels
    ELSE /\ scan' = [rest EXCEPT !.read = scan.read \cup {f}, !.counted = Count(Fresh(f))]
         /\ labels' = LabelsOf(f)

\* An open file is read to its end, whatever it is called by now.
ScanRead ==
    /\ scan.pc = "read" /\ scan.handles # <<>>
    /\ Read(Head(scan.handles), [scan EXCEPT !.handles = Tail(scan.handles)])
    /\ UNCHANGED <<storeVars, clock, at, waiting, writer, stored>>

\* A listed archive is opened and read, unless it has been pruned meanwhile.
ScanArchive(f) ==
    LET rest == [scan EXCEPT !.todo = scan.todo \ {f}]
    IN /\ scan.pc = "read" /\ scan.handles = <<>> /\ f \in scan.todo
       /\ IF f \in archives THEN Read(f, rest) ELSE scan' = rest /\ UNCHANGED labels
       /\ UNCHANGED <<storeVars, clock, at, waiting, writer, stored>>

ScanEnds ==
    /\ scan.pc = "read" /\ scan.handles = <<>> /\ scan.todo = {}
    /\ scan' = [scan EXCEPT !.pc = "done"]
    /\ UNCHANGED <<storeVars, clock, at, waiting, writer, labels, stored>>

\* The answer is shown, or an error ends the scan with none.
ScanForget ==
    /\ scan.pc # "off"
    /\ scan' = NoScan
    /\ labels' = Configured
    /\ UNCHANGED <<storeVars, clock, at, waiting, writer, stored>>
-----------------------------------------------------------------------------
Init ==
    /\ live = NoFile /\ backup = NoFile /\ archives = {}
    /\ file = [f \in Files |-> Empty]
    /\ clock = 0 /\ at = <<>> /\ waiting = {} /\ stored = {}
    /\ writer = [pc |-> "down", line |-> 0, handle |-> NoFile, cutoff |-> 0]
    /\ scan = NoScan /\ labels = Configured

LoggerStep ==
    \/ Stamp \/ (\E n \in waiting : Take(n))
    \/ Archive \/ Shift \/ RotateFails \/ (\E f \in archives : Prune(f)) \/ PruneEnds
    \/ Open \/ OpenFails \/ Write \/ WriteFails
    \/ Start \/ Crash

ScanStep ==
    \/ ScanBegin \/ (\E i \in 1 .. 2 : ScanOpen(i)) \/ ScanList \/ ScanRead
    \/ (\E f \in scan.todo : ScanArchive(f)) \/ ScanEnds \/ ScanForget

Next == LoggerStep \/ ScanStep \/ Import \/ Tick

Spec == Init /\ [][Next]_vars
-----------------------------------------------------------------------------
(* Properties *)

LoggerPoints == {"down", "idle", "archive", "shift", "prune", "open", "write"}

Lines == 0 .. MaxEvents

FileType == [lines : Seq(Lines), torn : BOOLEAN, modified : 0 .. MaxTime,
             archived : {Never} \cup 0 .. MaxTime]

WriterType == [pc : LoggerPoints, line : Lines, handle : Files \cup {NoFile}, cutoff : Int]

ScanType == [pc : {"off", "live", "backup", "list", "read", "done"}, end : 0 .. MaxTime,
             handles : Seq(Files), todo : SUBSET Files, read : SUBSET Files,
             counted : [1 .. MaxEvents -> Nat], due : SUBSET (1 .. MaxEvents),
             named : SUBSET (1 .. MaxEvents)]

TypeOK ==
    /\ live \in Files \cup {NoFile} /\ backup \in Files \cup {NoFile}
    /\ archives \subseteq Files
    /\ file \in [Files -> FileType]
    /\ clock \in 0 .. MaxTime
    /\ at \in Seq(0 .. MaxTime) /\ Len(at) <= MaxEvents
    /\ waiting \subseteq 1 .. MaxEvents /\ stored \subseteq 1 .. MaxEvents
    /\ writer \in WriterType
    /\ scan \in ScanType

\* No file has two names, and the logger only ever appends to the file that
\* has the log's name: however rotation fails or the daemon dies, no line
\* goes to a file that was already archived, where no scan would look for a
\* line that new.
AppendsToLive ==
    /\ live # NoFile => live # backup /\ live \notin archives
    /\ backup # NoFile => backup \notin archives
    /\ writer.handle # NoFile => writer.handle = live

\* "Archives are kept for at least 30 days": a line that was stored is in a
\* file that has a name until it is older than that, through every rotation,
\* failed rotation, crash and pruning.
Retained == \A n \in stored : at[n] >= clock - Retention => n \in InStore

\* A line that no file may be pruned with.
Kept(n) == at[n] >= clock - Retention

\* A scan that ends has counted every request that was stored before it
\* began and ended in its window, and none twice, although files are being
\* renamed, created, imported and pruned under it.  The longest range is the
\* retention: a request that grows older than that while the scan runs may be
\* pruned before it is read.
ScanExact ==
    scan.pc = "done" =>
        /\ \A n \in scan.due : IsRequestEnd(Entry[n]) /\ Kept(n) => scan.counted[n] = 1
        /\ \A n \in 1 .. MaxEvents : scan.counted[n] <= 1

Counted == {n \in 1 .. MaxEvents : scan.counted[n] > 0}

Account(n) == <<Service(Entry[n]), Entry[n].id>>

Name(n) == Credential(Entry[n], labels)

\* The key that the configuration names as the one of a request.
KeyOf(n) == Label(Configured, Service(Entry[n]), Entry[n].provider)

\* What names a request is its account: the configuration names no key of it.
\* Keys that are called as an account is are left out, for the view would take
\* one for the other.
OfAccountOnly(n) ==
    /\ KeyOf(n) = ""
    /\ Entry[n].provider # "" =>
            \A l \in 1 .. Len(at) : Account(l) # <<Service(Entry[n]), Entry[n].provider>>

\* Once a line that is still kept has given an account a name, all requests of
\* that account that a scan counts stand under one such name, whether the line
\* lies in the window or not and whichever file is read first; a name in the
\* configuration comes first, and the requests of a key it names are not the
\* account's.
OneName ==
    scan.pc = "done" =>
        \A n \in Counted :
            /\ KeyOf(n) # "" => Name(n) = KeyOf(n)
            /\ OfAccountOnly(n) /\ Account(n) \in DOMAIN Configured => Name(n) = Configured[Account(n)]
            /\ OfAccountOnly(n) /\ Account(n) \notin DOMAIN Configured =>
                \A m \in scan.named : Kept(m) /\ Account(m) = Account(n) =>
                    /\ \E l \in 1 .. Len(at) : Account(l) = Account(n) /\ Name(n) = Entry[l].label
                    /\ \A o \in Counted :
                          OfAccountOnly(o) /\ Account(o) = Account(n)
                              => Group(Entry[o], labels) = Group(Entry[n], labels)

Stage == CASE scan.pc = "off" -> "idle" [] scan.pc = "done" -> "answered" [] OTHER -> "asked"

\* A scan as one question: nothing is answered before it ends.
Query == [stage |-> Stage, end |-> scan.end, due |-> {n \in scan.due : IsRequestEnd(Entry[n])},
          answer |-> IF scan.pc = "done" THEN scan.counted ELSE NoScan.counted]

Promise == INSTANCE RetainedLog WITH
    Lines <- 1 .. MaxEvents,
    Ends  <- {n \in 1 .. MaxEvents : IsRequestEnd(Entry[n])},
    log   <- InStore,
    query <- Query

\* Files and their names, locks, crashes and a scan of many steps implement
\* RetainedLog: what has been stored leaves the log only by its age, and a scan
\* answers as one that read the log at once would, but for what was stored
\* meanwhile.
ImplementsRetainedLog == Promise!Spec
=============================================================================
