------------------------------- MODULE LogFeed -------------------------------
(***************************************************************************)
(* The log view of the GUI (gui/src/logs.rs): a thread follows the live     *)
(* log file by its name while the daemon writes and rotates it (LogStore)  *)
(* and the user switches to a configuration with another log or clears the *)
(* view.  Lines are numbered within their file and read whole.             *)
(***************************************************************************)
EXTENDS Naturals, Sequences

CONSTANTS
    Paths, Files,   \* log paths; files by identity
    Capacity,       \* entries kept: 5000 in the code
    Backfill,       \* lines of history loaded at first: 512 KiB in the code
    MaxLines,       \* bound: lines of a file
    MaxSwitches,    \* bound: changes of the path
    None

ASSUME FeedAssumption ==
    /\ Capacity \in Nat \ {0} /\ Backfill \in Nat \ {0} /\ None \notin Files
    /\ MaxLines \in Nat /\ MaxSwitches \in Nat

VARIABLES
    disk,       \* the file that has each path's name
    length,     \* lines of each file
    store,      \* the view: path, entries and generation, under one lock
    tail,       \* the thread: where it is, and its local variables
    crossed     \* history: a rotation fell between the look at the file and its
                \* opening, or a switch into a pass of the thread

vars == <<disk, length, store, tail, crossed>>

Min2(a, b) == IF a < b THEN a ELSE b

Name == disk[store.path]

----------------------------------------------------------------------------
(* The daemon and the user.                                                *)

Append1(p) ==
    /\ disk[p] # None /\ length[disk[p]] < MaxLines
    /\ length' = [length EXCEPT ![disk[p]] = @ + 1]
    /\ UNCHANGED <<disk, store, tail, crossed>>

\* The live file is renamed, and created anew with the next line.
RotateAway(p) ==
    /\ disk[p] # None
    /\ disk' = [disk EXCEPT ![p] = None]
    /\ crossed' = (crossed \/ (tail.pc = "open" /\ tail.path = p))
    /\ UNCHANGED <<length, store, tail>>

Create(p) ==
    /\ disk[p] = None
    /\ \E f \in Files :
        /\ length[f] = 0 /\ \A q \in Paths : disk[q] # f
        /\ disk' = [disk EXCEPT ![p] = f] /\ length' = [length EXCEPT ![f] = 1]
    /\ UNCHANGED <<store, tail, crossed>>

\* Variant with a bug: the entries stay.
SetPathKeeps(p) ==
    /\ store.path # p /\ store.generation < MaxSwitches
    /\ store' = [store EXCEPT !.path = p, !.generation = @ + 1]
    /\ crossed' = (crossed \/ tail.pc # "look")
    /\ UNCHANGED <<disk, length, tail>>

SetPath(p) ==
    /\ store.path # p /\ store.generation < MaxSwitches
    /\ store' = [path |-> p, entries |-> <<>>, generation |-> store.generation + 1]
    /\ crossed' = (crossed \/ tail.pc # "look")
    /\ UNCHANGED <<disk, length, tail>>

Clear ==
    /\ store.entries # <<>>
    /\ store' = [store EXCEPT !.entries = <<>>]
    /\ UNCHANGED <<disk, length, tail, crossed>>

----------------------------------------------------------------------------
(* One pass of the thread.                                                 *)

Pass(record) == tail' = record /\ UNCHANGED <<disk, length, crossed>>

\* Path and generation are read; another generation forgets the open file.
Look ==
    /\ tail.pc = "look"
    /\ Pass([tail EXCEPT !.pc = "stat", !.path = store.path, !.generation = store.generation,
                         !.file = IF @ # None /\ tail.generation # store.generation THEN None ELSE @])
    /\ UNCHANGED store

\* Variant with a bug: a file is followed for as long as it is open.
Same(file, name) == TRUE

\* Variant with a bug: a file without news is taken for a truncated one.
Grows(file, name) == tail.id = name /\ length[name] > tail.offset

\* The open file still has the name, and has not been truncated.
Follows(file, name) == tail.id = name /\ length[name] >= tail.offset

Stat ==
    LET name == disk[tail.path]
        seen == [tail EXCEPT !.seen = name, !.len = IF name = None THEN 0 ELSE length[name]]
    IN  /\ tail.pc = "stat"
        /\ Pass(IF name = None THEN [seen EXCEPT !.pc = "look", !.file = None]
                ELSE IF tail.file # None /\ Follows(tail.file, name) THEN [seen EXCEPT !.pc = "read"]
                ELSE [seen EXCEPT !.pc = "open"])
        /\ UNCHANGED store

\* Opened by name again: maybe another file by now, or none, and then the old
\* one stays open.  An empty view starts with the end of the file, without the
\* line that the cut goes through; otherwise the file is a new one after a rotation.
Open ==
    LET name == disk[tail.path]
        from == IF store.entries = <<>> /\ tail.len > Backfill THEN tail.len - Backfill ELSE 0
    IN  /\ tail.pc = "open"
        /\ Pass(IF name = None THEN [tail EXCEPT !.pc = "read"]
                ELSE [tail EXCEPT !.pc = "read", !.file = name, !.id = tail.seen,
                                  !.offset = from, !.cut = from > 0])
        /\ UNCHANGED store

\* The lines of a file from one after the first to the last; none if it has none.
Lines(f, first, last) == [i \in 1 .. last - first |-> [file |-> f, line |-> first + i]]

\* Read up to the length that was seen.  A line that is cut is not taken.
Read ==
    LET end   == Min2(tail.len, length[tail.file])
        first == IF tail.cut THEN tail.offset + 1 ELSE tail.offset
    IN  /\ tail.pc = "read"
        /\ Pass(IF tail.file = None \/ end <= tail.offset THEN [tail EXCEPT !.pc = "look"]
                ELSE [tail EXCEPT !.pc = "ingest", !.offset = end, !.cut = FALSE,
                                  !.lines = Lines(tail.file, first, end)])
        /\ UNCHANGED store

\* The newest entries.
Keep(entries) ==
    IF Len(entries) <= Capacity THEN entries
    ELSE SubSeq(entries, Len(entries) - Capacity + 1, Len(entries))

Ingest ==
    /\ tail.pc = "ingest"
    /\ store' = [store EXCEPT !.entries = Keep(@ \o tail.lines)]
    /\ Pass([tail EXCEPT !.pc = "look", !.lines = <<>>])

----------------------------------------------------------------------------
Init ==
    /\ disk \in [Paths -> Files \cup {None}] /\ \A p, q \in Paths : p # q => disk[p] # disk[q] \/ disk[p] = None
    /\ length \in [Files -> 0 .. MaxLines]
    /\ \A f \in Files : length[f] > 0 <=> \E p \in Paths : disk[p] = f
    /\ \E p \in Paths : store = [path |-> p, entries |-> <<>>, generation |-> 0]
    /\ tail = [pc |-> "look", path |-> store.path, generation |-> 0, file |-> None, id |-> None,
               offset |-> 0, seen |-> None, len |-> 0, cut |-> FALSE, lines |-> <<>>]
    /\ crossed = FALSE

Run == Look \/ Stat \/ Open \/ Read \/ Ingest

Others ==
    \/ \E p \in Paths : Append1(p) \/ RotateAway(p) \/ Create(p) \/ SetPath(p)
    \/ Clear

Next == Run \/ Others

Spec == Init /\ [][Next]_vars

\* The thread runs for ever, every 350 ms.
FairSpec == Spec /\ WF_vars(Run)

----------------------------------------------------------------------------
(* Properties.                                                             *)

\* What the view shows, unless a rotation or a switch crossed a pass of the thread:
\* each file's lines once, in order and without gaps, and never a line of another
\* path's log, whatever the thread had open before.  It shows only lines that
\* were written, and never more than its limit, in any case.
FaithfulView ==
    /\ Len(store.entries) <= Capacity
    /\ \A i \in DOMAIN store.entries : store.entries[i].line \in 1 .. length[store.entries[i].file]
    /\ ~crossed =>
        /\ \A i \in 1 .. Len(store.entries) - 1 :
               LET a == store.entries[i]  b == store.entries[i + 1]
               IN  IF a.file = b.file THEN b.line = a.line + 1
                   ELSE \A j \in i + 1 .. Len(store.entries) : store.entries[j].file # a.file
        /\ \A i \in DOMAIN store.entries : \A p \in Paths \ {store.path} :
               disk[p] # store.entries[i].file

\* Once the log rests, the newest line that the thread has read is the newest of
\* the live file, however rotations, switches and the user crossed it.
CatchesUp == []<>(Name = None \/ (tail.file = Name /\ tail.offset = length[Name]))
=============================================================================
