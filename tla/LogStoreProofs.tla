--------------------------- MODULE LogStoreProofs ---------------------------
(***************************************************************************)
(* Proofs about LogStore for any number of files and lines, any limit and  *)
(* retention, and any clock: what rotation, crashes and pruning leave, and *)
(* what a scan finds there meanwhile, and under which names it counts it;  *)
(* that the files together implement RetainedLog.                          *)
(***************************************************************************)
EXTENDS LogStore, SequenceTheorems, WellFoundedInduction, TLAPS

-----------------------------------------------------------------------------
(* The chart *)

\* Every request in the window of a supported range has one of the chart's 30
\* bars: aggregate's counts[slot] is never out of bounds (traffic.rs:307).
THEOREM SlotInChart ==
    ASSUME NEW range \in Ranges, NEW end \in Int, NEW time \in Int,
           WindowStart(end, range) <= time, time < end
    PROVE  Slot(time, WindowStart(end, range), range) \in 0 .. Bars - 1
<1> DEFINE start == WindowStart(end, range)
           width == BucketMinutes(range) * 60000
<1>1. start = end - Bars * width /\ width \in Nat \ {0}
  <2>1. CASE range = 30
    BY <2>1 DEF WindowStart, BucketMinutes, Bars
  <2>2. CASE range = 360
    BY <2>2 DEF WindowStart, BucketMinutes, Bars
  <2>3. CASE range = 720
    BY <2>3 DEF WindowStart, BucketMinutes, Bars
  <2>4. CASE range = 1440
    BY <2>4 DEF WindowStart, BucketMinutes, Bars
  <2>5. CASE range = 10080
    BY <2>5 DEF WindowStart, BucketMinutes, Bars
  <2>6. CASE range = 43200
    BY <2>6 DEF WindowStart, BucketMinutes, Bars
  <2>7. QED
    BY <2>1, <2>2, <2>3, <2>4, <2>5, <2>6 DEF Ranges
<1>2. \A t \in Nat, w \in Nat \ {0} : t < 30 * w => t \div w \in 0 .. 29
  OBVIOUS
<1>3. time - start \in Nat /\ time - start < 30 * width
  BY <1>1 DEF Bars, WindowStart
<1>4. Slot(time, start, range) = (time - start) \div width
  BY DEF Slot
<1> HIDE DEF width, start
<1>5. (time - start) \div width \in 0 .. 29
  BY <1>1, <1>2, <1>3
<1>6. Bars - 1 = 29
  BY DEF Bars
<1>7. Slot(time, start, range) \in 0 .. Bars - 1
  BY <1>4, <1>5, <1>6
<1>8. QED
  BY <1>7 DEF start
-----------------------------------------------------------------------------
(* Sequences of lines *)

Elems(s) == {s[i] : i \in 1 .. Len(s)}

LEMMA ElemsAppend ==
    ASSUME NEW S, NEW s \in Seq(S), NEW x \in S
    PROVE  Append(s, x) \in Seq(S) /\ Elems(Append(s, x)) = Elems(s) \cup {x}
<1>1. Append(s, x) \in Seq(S)
  OBVIOUS
<1>2. /\ Len(Append(s, x)) = Len(s) + 1
      /\ \A i \in 1 .. Len(s) : Append(s, x)[i] = s[i]
      /\ Append(s, x)[Len(s) + 1] = x
  BY AppendProperties
<1>3. 1 .. Len(s) + 1 = (1 .. Len(s)) \cup {Len(s) + 1}
  BY LenProperties
<1>4. QED
  BY <1>1, <1>2, <1>3 DEF Elems
-----------------------------------------------------------------------------
(* The invariant *)

\* Without its mutex the logger has no file but the log; it shifts only when
\* the old backup is out of the way, and prunes by a date not too late.
WriterShape ==
    /\ writer.pc \in {"down", "archive", "shift", "prune", "open"} => writer.handle = NoFile
    /\ Is("shift") => backup = NoFile
    /\ Is("prune") => writer.cutoff <= clock - Retention

\* A line is older than the file it is in.
Dated ==
    /\ \A n \in 1 .. Len(at) : at[n] <= clock
    /\ writer.line <= Len(at) /\ waiting \subseteq 1 .. Len(at) /\ stored \subseteq 1 .. Len(at)
    /\ \A f \in Files : /\ file[f].modified <= clock
                        /\ \A n \in Stored(f) : n \in 1 .. Len(at) /\ at[n] <= file[f].modified

StoreInv == TypeOK /\ AppendsToLive /\ WriterShape /\ Dated /\ Retained

LEMMA InitStore == Init => StoreInv
<1> SUFFICES ASSUME Init PROVE StoreInv
  OBVIOUS
<1>1. TypeOK
  <2>1. Empty \in FileType
    BY ConstantsAssumption DEF Empty, FileType, Never
  <2>2. writer \in WriterType
    BY ConstantsAssumption DEF Init, WriterType, LoggerPoints, Lines
  <2>3. scan \in ScanType
    BY ConstantsAssumption DEF Init, NoScan, ScanType
  <2>4. at \in Seq(0 .. MaxTime) /\ Len(at) <= MaxEvents
    BY ConstantsAssumption DEF Init
  <2>5. QED
    BY <2>1, <2>2, <2>3, <2>4, ConstantsAssumption DEF Init, TypeOK
<1>2. AppendsToLive /\ WriterShape /\ Retained
  BY DEF Init, AppendsToLive, WriterShape, Retained, Is
<1>3. Dated
  <2>1. \A f \in Files : file[f] = Empty
    BY DEF Init
  <2>2. \A f \in Files : file[f].modified = 0 /\ Stored(f) = {}
    BY <2>1 DEF Stored, Empty
  <2>3. QED
    BY <2>2 DEF Init, Dated
<1>4. QED
  BY <1>1, <1>2, <1>3 DEF StoreInv

-----------------------------------------------------------------------------
(* The type invariant *)

LEMMA StoredLines ==
    ASSUME TypeOK, NEW f \in Files
    PROVE  Stored(f) \subseteq 1 .. MaxEvents
<1>1. file[f].lines \in Seq(Lines)
  BY DEF TypeOK, FileType
<1>2. \A i \in 1 .. Len(file[f].lines) : file[f].lines[i] \in 0 .. MaxEvents
  BY <1>1, ElementOfSeq DEF Lines
<1>3. QED
  BY <1>2, ConstantsAssumption DEF Stored

\* A scan changes nothing on disk.
LEMMA ScanLeavesStore ==
    ASSUME ScanStep
    PROVE  UNCHANGED <<storeVars, clock, at, waiting, writer, stored>>
<1>1. CASE ScanBegin
  BY <1>1 DEF ScanBegin
<1>2. CASE \E i \in 1 .. 2 : ScanOpen(i)
  BY <1>2 DEF ScanOpen
<1>3. CASE ScanList
  BY <1>3 DEF ScanList
<1>4. CASE ScanRead
  BY <1>4 DEF ScanRead
<1>5. CASE \E f \in scan.todo : ScanArchive(f)
  BY <1>5 DEF ScanArchive
<1>6. CASE ScanEnds
  BY <1>6 DEF ScanEnds
<1>7. CASE ScanForget
  BY <1>7 DEF ScanForget
<1>8. QED
  BY <1>1, <1>2, <1>3, <1>4, <1>5, <1>6, <1>7 DEF ScanStep

LEMMA NoScanType == NoScan \in ScanType
BY ConstantsAssumption DEF NoScan, ScanType

LEMMA CountType ==
    ASSUME TypeOK, NEW lines
    PROVE  Count(lines) \in [1 .. MaxEvents -> Nat]
<1>1. scan.counted \in [1 .. MaxEvents -> Nat]
  BY DEF TypeOK, ScanType
<1>2. ASSUME NEW n \in 1 .. MaxEvents
      PROVE  scan.counted[n] + (IF n \in lines THEN 1 ELSE 0) \in Nat
  <2>1. scan.counted[n] \in Nat
    BY <1>1
  <2>2. QED
    BY <2>1
<1>3. QED
  BY <1>2 DEF Count

LEMMA ReadType ==
    ASSUME TypeOK, NEW f \in Files, NEW rest \in ScanType, Read(f, rest)
    PROVE  scan' \in ScanType
<1>1. scan.read \cup {f} \subseteq Files
  BY DEF TypeOK, ScanType
<1>2. Count(Fresh(f)) \in [1 .. MaxEvents -> Nat]
  BY CountType
<1>3. scan' = rest \/ scan' = [rest EXCEPT !.read = scan.read \cup {f}, !.counted = Count(Fresh(f))]
  BY DEF Read
<1>4. QED
  BY ZenonT(60), <1>1, <1>2, <1>3 DEF ScanType

LEMMA ScanKeepsType ==
    ASSUME TypeOK, ScanStep
    PROVE  scan' \in ScanType
<1>t. scan \in ScanType
  BY DEF TypeOK
<1>1. CASE ScanBegin
  <2>1. \A f \in Named : f \in Files
    BY DEF TypeOK, Named
  <2>2. InStore \subseteq 1 .. MaxEvents
    BY <2>1, StoredLines DEF InStore
  <2>3. UNION {Stored(f) : f \in {g \in Named : file[g].modified >= clock - Window}} \subseteq 1 .. MaxEvents
    BY <2>1, StoredLines
  <2>4. clock \in 0 .. MaxTime
    BY DEF TypeOK
  <2> DEFINE due == {n \in InStore : clock - Window <= at[n] /\ at[n] < clock}
             named == {n \in UNION {Stored(f) : f \in {g \in Named : file[g].modified >= clock - Window}} :
                          Entry[n].id # "" /\ Entry[n].label # ""}
  <2>5. due \subseteq 1 .. MaxEvents /\ named \subseteq 1 .. MaxEvents
    BY <2>2, <2>3
  <2>6. scan' = [NoScan EXCEPT !.pc = "live", !.end = clock, !.due = due, !.named = named]
    BY <1>1 DEF ScanBegin
  <2> HIDE DEF due, named
  <2>7. QED
    BY <2>4, <2>5, <2>6, NoScanType DEF ScanType
<1>2. CASE \E i \in 1 .. 2 : ScanOpen(i)
  <2>1. PICK i \in 1 .. 2 : ScanOpen(i)
    BY <1>2
  <2>2. i = 1 \/ i = 2
    BY <2>1
  <2>3. Handle(OpenOrder[i]) \in Seq(Files)
    BY <2>2 DEF Handle, OpenOrder, TypeOK
  <2>4. scan.handles \o Handle(OpenOrder[i]) \in Seq(Files)
    BY <1>t, <2>3 DEF ScanType
  <2>5. <<"backup", "list">>[i] \in {"backup", "list"}
    BY <2>2
  <2>6. QED
    BY <1>t, <2>1, <2>4, <2>5 DEF ScanOpen, ScanType
<1>3. CASE ScanList
  <2>1. {f \in archives : file[f].modified >= scan.end - Window} \subseteq Files
    BY DEF TypeOK
  <2>2. QED
    BY <1>t, <1>3, <2>1 DEF ScanList, ScanType
<1>4. CASE ScanRead
  <2>1. scan.handles \in Seq(Files) /\ scan.handles # <<>>
    BY <1>t, <1>4 DEF ScanRead, ScanType
  <2>2. Head(scan.handles) \in Files /\ Tail(scan.handles) \in Seq(Files)
    BY <2>1
  <2>3. [scan EXCEPT !.handles = Tail(scan.handles)] \in ScanType
    BY <1>t, <2>2 DEF ScanType
  <2>4. QED
    BY <1>4, <2>2, <2>3, ReadType DEF ScanRead
<1>5. CASE \E f \in scan.todo : ScanArchive(f)
  <2>1. PICK f \in scan.todo : ScanArchive(f)
    BY <1>5
  <2>2. f \in Files
    BY <1>t DEF ScanType
  <2>3. [scan EXCEPT !.todo = scan.todo \ {f}] \in ScanType
    BY <1>t DEF ScanType
  <2>4. QED
    BY <2>1, <2>2, <2>3, ReadType DEF ScanArchive
<1>6. CASE ScanEnds
  BY <1>t, <1>6 DEF ScanEnds, ScanType
<1>7. CASE ScanForget
  BY <1>7, NoScanType DEF ScanForget
<1>8. QED
  BY <1>1, <1>2, <1>3, <1>4, <1>5, <1>6, <1>7 DEF ScanStep

LEMMA TearType ==
    ASSUME TypeOK, NEW f \in Files, Tear(f)
    PROVE  file' \in [Files -> FileType]
<1>1. file[f] \in FileType /\ clock \in 0 .. MaxTime
  BY DEF TypeOK
<1>2. 0 \in Lines
  BY ConstantsAssumption DEF Lines
<1>3. Append(file[f].lines, 0) \in Seq(Lines)
  BY <1>1, <1>2 DEF FileType
<1> DEFINE lines == IF file[f].torn THEN file[f].lines ELSE Append(file[f].lines, 0)
<1>4. lines \in Seq(Lines)
  BY <1>1, <1>3 DEF FileType
<1>5. Leaves(f, lines, TRUE)
  BY DEF Tear
<1> HIDE DEF lines
<1>6. QED
  BY <1>1, <1>4, <1>5 DEF Leaves, TypeOK, FileType

\* What Write leaves in the file, if it writes.
LEMMA WriteFile ==
    ASSUME TypeOK, NEW f \in Files, Write, f = writer.handle, writer.line # 0
    PROVE  \E lines \in Seq(Lines) :
              /\ Leaves(f, lines, FALSE)
              /\ \/ lines = file[f].lines /\ stored' = stored
                 \/ /\ lines = Append(file[f].lines, writer.line)
                    /\ stored' = stored \cup {writer.line}
<1>1. file[f].lines \in Seq(Lines) /\ writer.line \in Lines
  BY DEF TypeOK, FileType, WriterType
<1>2. Append(file[f].lines, writer.line) \in Seq(Lines)
  BY <1>1
<1>3. f # NoFile
  BY ConstantsAssumption
<1>4. CASE file[f].torn
  BY <1>1, <1>3, <1>4 DEF Write
<1>5. CASE ~file[f].torn
  BY <1>2, <1>3, <1>5 DEF Write
<1>6. QED
  BY <1>4, <1>5

LEMMA ImportFile ==
    ASSUME TypeOK, Import
    PROVE  \E f \in Free :
              /\ archives' = archives \cup {f}
              /\ file' = [file EXCEPT ![f] = [lines |-> file[backup].lines, torn |-> FALSE,
                                              modified |-> clock, archived |-> Never]]
BY ZenonT(60) DEF Import, Empty

LEMMA LeavesType ==
    ASSUME TypeOK, NEW f \in Files, NEW lines \in Seq(Lines), NEW torn \in BOOLEAN,
           Leaves(f, lines, torn)
    PROVE  file' \in [Files -> FileType]
BY DEF Leaves, TypeOK, FileType

LEMMA NamedFiles ==
    ASSUME TypeOK
    PROVE  Named \subseteq Files /\ Free \subseteq Files
BY DEF TypeOK, Named, Free

LEMMA LoggerKeepsType ==
    ASSUME StoreInv, LoggerStep
    PROVE  TypeOK'
<1>t. TypeOK /\ writer \in WriterType /\ scan \in ScanType
  BY DEF StoreInv, TypeOK
<1>s. scan' = scan
  BY DEF LoggerStep, Stamp, Take, Archive, Shift, RotateFails, Prune, PruneEnds, Open, OpenFails,
         Write, WriteFails, Start, Crash
<1>z. 0 \in Lines
  BY ConstantsAssumption DEF Lines
<1>c. clock' = clock
  BY DEF LoggerStep, Stamp, Take, Archive, Shift, RotateFails, Prune, PruneEnds, Open, OpenFails,
         Write, WriteFails, Start, Crash
<1>1. CASE Stamp
  <2>1. at' \in Seq(0 .. MaxTime) /\ Len(at') = Len(at) + 1 /\ Len(at) < MaxEvents
    BY <1>t, <1>1, AppendProperties DEF Stamp, TypeOK
  <2>2. Len(at) + 1 \in 1 .. MaxEvents
    BY <1>t, <2>1, ConstantsAssumption DEF TypeOK
  <2>3. waiting' \subseteq 1 .. MaxEvents
    BY <1>t, <1>1, <2>2 DEF Stamp, TypeOK
  <2>4. Len(at') <= MaxEvents
    BY <2>1, <2>2
  <2>5. QED
    BY <1>t, <1>1, <2>1, <2>3, <2>4 DEF Stamp, TypeOK, storeVars
<1>2. CASE \E n \in waiting : Take(n)
  <2>1. PICK n \in waiting : Take(n)
    BY <1>2
  <2>2. n \in Lines
    BY <1>t, ConstantsAssumption DEF TypeOK, Lines
  <2>3. writer' \in WriterType
    BY <1>t, <2>1, <2>2 DEF Take, WriterType, LoggerPoints
  <2>4. QED
    BY <1>t, <2>1, <2>3 DEF Take, TypeOK, storeVars
<1>3. CASE Archive
  <2>1. writer' \in WriterType
    BY <1>t, <1>3 DEF Archive, WriterType, LoggerPoints
  <2>2. CASE backup = NoFile
    BY <1>t, <1>3, <2>1, <2>2 DEF Archive, TypeOK, storeVars
  <2>3. CASE backup # NoFile
    <3>1. backup \in Files /\ clock \in 0 .. MaxTime
      BY <1>t, <2>3 DEF TypeOK
    <3>2. file' = [file EXCEPT ![backup].archived = clock]
      BY <1>3, <2>3 DEF Archive
    <3>3. file' \in [Files -> FileType]
      BY <1>t, <3>1, <3>2 DEF TypeOK, FileType
    <3>4. QED
      BY <1>t, <1>3, <2>1, <2>3, <3>1, <3>3 DEF Archive, TypeOK
  <2>4. QED
    BY <2>2, <2>3
<1>4. CASE Shift
  <2>1. clock - Retention \in Int
    BY <1>t, ConstantsAssumption DEF TypeOK
  <2>2. writer' \in WriterType
    BY <1>t, <1>4, <2>1 DEF Shift, WriterType, LoggerPoints
  <2>3. QED
    BY <1>t, <1>4, <2>2 DEF Shift, TypeOK
<1>5. CASE RotateFails \/ PruneEnds \/ OpenFails
  <2>1. writer' \in WriterType
    BY <1>t, <1>5 DEF RotateFails, PruneEnds, OpenFails, WriterType, LoggerPoints
  <2>2. QED
    BY <1>t, <1>5, <2>1 DEF RotateFails, PruneEnds, OpenFails, TypeOK, storeVars
<1>6. CASE \E f \in archives : Prune(f)
  BY <1>t, <1>6 DEF Prune, TypeOK
<1>7. CASE Open
  <2>1. Empty \in FileType
    BY ConstantsAssumption DEF Empty, FileType, Never
  <2>2. live' \in Files /\ file' \in [Files -> FileType]
    BY <1>t, <1>7, <2>1, NamedFiles DEF Open, TypeOK
  <2>3. writer' \in WriterType
    BY <1>t, <1>7, <2>2 DEF Open, WriterType, LoggerPoints
  <2>4. QED
    BY <1>t, <1>7, <2>2, <2>3 DEF Open, TypeOK
<1>8. CASE Write
  <2>1. writer' \in WriterType
    BY <1>t, <1>8, <1>z DEF Write, WriterType, LoggerPoints
  <2>2. CASE writer.handle = NoFile \/ writer.line = 0
    BY <1>t, <1>8, <2>1, <2>2 DEF Write, TypeOK
  <2>3. CASE writer.handle # NoFile /\ writer.line # 0
    <3>1. writer.handle \in Files /\ writer.line \in 1 .. MaxEvents
      BY <1>t, <2>3, ConstantsAssumption DEF WriterType, Lines
    <3>2. file' \in [Files -> FileType] /\ stored' \subseteq 1 .. MaxEvents
      BY <1>t, <1>8, <2>3, <3>1, WriteFile, LeavesType DEF TypeOK
    <3>3. QED
      BY <1>t, <1>8, <2>1, <3>2 DEF Write, TypeOK
  <2>4. QED
    BY <2>2, <2>3
<1>9. CASE WriteFails
  <2>1. writer' \in WriterType
    BY <1>t, <1>9, <1>z DEF WriteFails, WriterType, LoggerPoints
  <2>2. writer.handle \in Files
    BY <1>t, <1>9 DEF WriteFails, WriterType
  <2>3. file' \in [Files -> FileType]
    BY <1>t, <1>9, <2>2, TearType DEF WriteFails, TypeOK
  <2>4. QED
    BY <1>t, <1>9, <2>1, <2>3 DEF WriteFails, TypeOK
<1>10. CASE Start
  <2>1. clock - Retention \in Int
    BY <1>t, ConstantsAssumption DEF TypeOK
  <2>2. writer' \in WriterType
    BY <1>t, <1>10, <2>1 DEF Start, WriterType, LoggerPoints
  <2>3. QED
    BY <1>t, <1>10, <2>2 DEF Start, TypeOK, storeVars
<1>11. CASE Crash
  <2>1. writer' \in WriterType
    BY <1>t, <1>11, <1>z DEF Crash, WriterType, LoggerPoints
  <2>2. file' \in [Files -> FileType]
    <3>1. CASE UNCHANGED file
      BY <1>t, <3>1 DEF TypeOK
    <3>2. CASE writer.handle # NoFile /\ Tear(writer.handle)
      BY <1>t, <3>2, TearType DEF WriterType
    <3>3. QED
      BY <1>11, <3>1, <3>2 DEF Crash
  <2>3. QED
    BY <1>t, <1>11, <2>1, <2>2 DEF Crash, TypeOK
<1>12. QED
  BY <1>1, <1>2, <1>3, <1>4, <1>5, <1>6, <1>7, <1>8, <1>9, <1>10, <1>11 DEF LoggerStep

LEMMA TypeStep ==
    ASSUME StoreInv, [Next]_vars
    PROVE  TypeOK'
<1>t. TypeOK
  BY DEF StoreInv
<1>1. CASE LoggerStep
  BY <1>1, LoggerKeepsType
<1>2. CASE ScanStep
  BY <1>t, <1>2, ScanLeavesStore, ScanKeepsType DEF TypeOK, storeVars
<1>3. CASE Import
  <2>1. PICK f \in Free :
           /\ archives' = archives \cup {f}
           /\ file' = [file EXCEPT ![f] = [lines |-> file[backup].lines, torn |-> FALSE,
                                           modified |-> clock, archived |-> Never]]
    BY <1>t, <1>3, ImportFile
  <2>2. backup \in Files /\ f \in Files
    BY <1>t, <1>3, NamedFiles DEF Import, TypeOK
  <2>3. file' \in [Files -> FileType]
    BY <1>t, <2>1, <2>2 DEF TypeOK, FileType
  <2>4. QED
    BY <1>t, <1>3, <2>1, <2>2, <2>3 DEF Import, TypeOK
<1>4. CASE Tick
  <2>1. clock' \in 0 .. MaxTime
    BY <1>t, <1>4, ConstantsAssumption DEF Tick, TypeOK
  <2>2. QED
    BY <1>t, <1>4, <2>1 DEF Tick, TypeOK, storeVars
<1>5. CASE UNCHANGED vars
  BY <1>t, <1>5 DEF vars, TypeOK
<1>6. QED
  BY <1>1, <1>2, <1>3, <1>4, <1>5 DEF Next

-----------------------------------------------------------------------------
(* What a step does to a file *)

LEMMA LeavesStored ==
    ASSUME TypeOK, NEW f \in Files, NEW lines \in Seq(Lines), NEW torn \in BOOLEAN,
           Leaves(f, lines, torn)
    PROVE  /\ Stored(f)' = Elems(lines) \ {0}
           /\ file'[f].modified = clock /\ file'[f].archived = file[f].archived
           /\ \A g \in Files \ {f} : file'[g] = file[g]
<1>1. file'[f] = [lines |-> lines, torn |-> torn, modified |-> clock, archived |-> file[f].archived]
  BY DEF Leaves, TypeOK
<1>2. \A g \in Files \ {f} : file'[g] = file[g]
  BY DEF Leaves, TypeOK
<1>3. file'[f].lines = lines
  BY <1>1
<1>4. Stored(f)' = Elems(lines) \ {0}
  BY <1>3 DEF Stored, Elems
<1>5. QED
  BY <1>1, <1>2, <1>4

\* A torn line adds nothing that can be read.
LEMMA TearStored ==
    ASSUME TypeOK, NEW f \in Files, Tear(f)
    PROVE  /\ Stored(f)' = Stored(f)
           /\ file'[f].modified = clock /\ file'[f].archived = file[f].archived
           /\ \A g \in Files \ {f} : file'[g] = file[g]
<1>1. file[f].lines \in Seq(Lines) /\ 0 \in Lines
  BY ConstantsAssumption DEF TypeOK, FileType, Lines
<1>2. Append(file[f].lines, 0) \in Seq(Lines)
      /\ Elems(Append(file[f].lines, 0)) = Elems(file[f].lines) \cup {0}
  BY <1>1, ElemsAppend
<1> DEFINE lines == IF file[f].torn THEN file[f].lines ELSE Append(file[f].lines, 0)
<1>3. lines \in Seq(Lines) /\ Elems(lines) \ {0} = Elems(file[f].lines) \ {0}
  BY <1>1, <1>2
<1>4. Leaves(f, lines, TRUE)
  BY DEF Tear
<1>5. Stored(f) = Elems(file[f].lines) \ {0}
  BY DEF Stored, Elems
<1> HIDE DEF lines
<1>6. QED
  BY <1>3, <1>4, <1>5, LeavesStored

Same(f) == Stored(f)' = Stored(f) /\ file'[f].modified = file[f].modified

Written(f) == /\ f = writer.handle /\ file'[f].modified = clock
              /\ Stored(f) \subseteq Stored(f)'
              /\ Stored(f)' \subseteq Stored(f) \cup {writer.line}

Made(f) == /\ f \in Free /\ file'[f].modified \in {0, clock}
           /\ \/ Stored(f)' = {}
              \/ file'[f].modified = clock /\ backup \in Files /\ Stored(f)' = Stored(backup)

LEMMA WriteEffect ==
    ASSUME TypeOK, NEW f \in Files, Write, f = writer.handle, writer.line # 0
    PROVE  /\ Written(f)
           /\ \A g \in Files \ {f} : file'[g] = file[g]
           /\ stored' \subseteq stored \cup Stored(f)'
<1>1. f \in Files /\ writer.line \in Lines /\ file[f].lines \in Seq(Lines)
  BY DEF TypeOK, WriterType, FileType
<1>2. PICK lines \in Seq(Lines) :
         /\ Leaves(f, lines, FALSE)
         /\ \/ lines = file[f].lines /\ stored' = stored
            \/ /\ lines = Append(file[f].lines, writer.line)
               /\ stored' = stored \cup {writer.line}
  BY <1>1, WriteFile
<1>3. /\ Stored(f)' = Elems(lines) \ {0} /\ file'[f].modified = clock
      /\ \A g \in Files \ {f} : file'[g] = file[g]
  BY <1>1, <1>2, LeavesStored
<1>4. Stored(f) = Elems(file[f].lines) \ {0}
  BY DEF Stored, Elems
<1>5. Elems(Append(file[f].lines, writer.line)) = Elems(file[f].lines) \cup {writer.line}
  BY <1>1, ElemsAppend
<1>6. CASE lines = file[f].lines /\ stored' = stored
  <2>1. Stored(f)' = Stored(f)
    BY <1>3, <1>4, <1>6
  <2>2. Written(f)
    BY <1>3, <2>1 DEF Written
  <2>3. QED
    BY <1>3, <1>6, <2>2
<1>7. CASE lines = Append(file[f].lines, writer.line) /\ stored' = stored \cup {writer.line}
  BY <1>3, <1>4, <1>5, <1>7 DEF Written
<1>8. QED
  BY <1>2, <1>6, <1>7

LEMMA FileEffect ==
    ASSUME TypeOK, [Next]_vars, NEW f \in Files
    PROVE  Same(f) \/ Written(f) \/ Made(f)
<1>1. ASSUME file'[f] = file[f] PROVE Same(f)
  BY <1>1 DEF Same, Stored
<1>2. ASSUME NEW g \in Files, Tear(g), g = writer.handle PROVE Same(f) \/ Written(f)
  <2>1. CASE f = g
    BY <1>2, <2>1, TearStored DEF Written
  <2>2. CASE f # g
    BY <1>1, <1>2, <2>2, TearStored
  <2>3. QED
    BY <2>1, <2>2
<1>3. CASE Archive
  <2>1. CASE backup = NoFile
    BY <1>1, <1>3, <2>1 DEF Archive, storeVars
  <2>2. CASE backup # NoFile
    <3>1. file' = [file EXCEPT ![backup].archived = clock]
      BY <1>3, <2>2 DEF Archive
    <3>2. file'[f].lines = file[f].lines /\ file'[f].modified = file[f].modified
      BY <3>1 DEF TypeOK, FileType
    <3>3. QED
      BY <3>2 DEF Same, Stored
  <2>3. QED
    BY <2>1, <2>2
<1>4. CASE Open
  <2>1. CASE UNCHANGED file
    BY <1>1, <2>1
  <2>2. CASE \E g \in Free : file' = [file EXCEPT ![g] = Empty]
    <3>1. PICK g \in Free : file' = [file EXCEPT ![g] = Empty]
      BY <2>2
    <3>2. CASE f = g
      <4>1. file'[f] = Empty
        BY <3>1, <3>2 DEF TypeOK
      <4>2. Stored(f)' = {} /\ file'[f].modified = 0
        BY <4>1 DEF Stored, Empty
      <4>3. QED
        BY <3>2, <4>2 DEF Made
    <3>3. CASE f # g
      BY <1>1, <3>1, <3>3 DEF TypeOK
    <3>4. QED
      BY <3>2, <3>3
  <2>3. QED
    BY <1>4, <2>1, <2>2 DEF Open
<1>5. CASE Import
  <2>1. PICK g \in Free : file' = [file EXCEPT ![g] = [lines |-> file[backup].lines, torn |-> FALSE,
                                                       modified |-> clock, archived |-> Never]]
    BY <1>5, ImportFile
  <2>2. CASE f = g
    <3>1. file'[f] = [lines |-> file[backup].lines, torn |-> FALSE, modified |-> clock, archived |-> Never]
      BY <2>1, <2>2 DEF TypeOK
    <3>2. Stored(f)' = Stored(backup) /\ file'[f].modified = clock
      BY <3>1 DEF Stored
    <3>3. backup \in Files
      BY <1>5 DEF Import, TypeOK
    <3>4. QED
      BY <2>2, <3>2, <3>3 DEF Made
  <2>3. CASE f # g
    BY <1>1, <2>1, <2>3 DEF TypeOK
  <2>4. QED
    BY <2>2, <2>3
<1>6. CASE Write
  <2>1. CASE writer.handle = NoFile \/ writer.line = 0
    BY <1>1, <1>6, <2>1 DEF Write
  <2>2. CASE writer.handle # NoFile /\ writer.line # 0
    <3>1. PICK g \in Files : g = writer.handle
      BY <2>2 DEF TypeOK, WriterType
    <3>2. Written(g) /\ \A h \in Files \ {g} : file'[h] = file[h]
      BY <1>6, <2>2, <3>1, WriteEffect
    <3>3. QED
      BY <1>1, <3>2
  <2>3. QED
    BY <2>1, <2>2
<1>7. CASE WriteFails
  BY <1>1, <1>2, <1>7 DEF WriteFails, TypeOK, WriterType
<1>8. CASE Crash
  BY <1>1, <1>2, <1>8 DEF Crash, TypeOK, WriterType
<1>9. CASE ScanStep
  BY <1>1, <1>9, ScanLeavesStore DEF storeVars
<1>10. CASE Stamp \/ (\E n \in waiting : Take(n)) \/ Shift \/ RotateFails
            \/ (\E g \in archives : Prune(g)) \/ PruneEnds \/ OpenFails \/ Start \/ Tick
  BY <1>1, <1>10 DEF Stamp, Take, Shift, RotateFails, Prune, PruneEnds, OpenFails, Start, Tick, storeVars
<1>11. CASE UNCHANGED vars
  BY <1>1, <1>11 DEF vars
<1>12. QED
  BY <1>3, <1>4, <1>5, <1>6, <1>7, <1>8, <1>9, <1>10, <1>11 DEF Next, LoggerStep

-----------------------------------------------------------------------------
(* What is stored stays, while it is young enough *)

LEMMA NamesStep ==
    ASSUME StoreInv, [Next]_vars
    PROVE  AppendsToLive' /\ WriterShape'
<1>t. /\ TypeOK /\ AppendsToLive /\ WriterShape
      /\ clock \in Nat /\ Retention \in Nat /\ writer \in WriterType
  BY ConstantsAssumption DEF StoreInv, TypeOK
<1>1. CASE Stamp
  BY <1>t, <1>1 DEF Stamp, storeVars, AppendsToLive, WriterShape, Is
<1>2. CASE \E n \in waiting : Take(n)
  BY <1>t, <1>2 DEF Take, storeVars, AppendsToLive, WriterShape, Is, WriterType
<1>3. CASE Archive
  BY <1>t, <1>3 DEF Archive, storeVars, AppendsToLive, WriterShape, Is, WriterType
<1>4. CASE Shift
  BY <1>t, <1>4 DEF Shift, AppendsToLive, WriterShape, Is, WriterType
<1>5. CASE RotateFails \/ PruneEnds \/ OpenFails
  BY <1>t, <1>5 DEF RotateFails, PruneEnds, OpenFails, storeVars, AppendsToLive, WriterShape, Is, WriterType
<1>6. CASE \E f \in archives : Prune(f)
  BY <1>t, <1>6 DEF Prune, AppendsToLive, WriterShape, Is
<1>7. CASE Open
  <2>1. live' = live \/ live' \in Files \ Named
    BY <1>t, <1>7, NamedFiles DEF Open, Free
  <2>2. AppendsToLive'
    BY <1>t, <1>7, <2>1 DEF Open, AppendsToLive, Named, WriterType
  <2>3. QED
    BY <1>t, <1>7, <2>2 DEF Open, WriterShape, Is, WriterType
<1>8. CASE Write \/ WriteFails
  <2>1. UNCHANGED <<live, backup, archives, clock>>
    BY <1>8 DEF Write, WriteFails
  <2>2. writer' = [writer EXCEPT !.pc = "idle", !.line = 0]
        \/ writer' = [writer EXCEPT !.pc = "idle", !.line = 0, !.handle = NoFile]
    BY <1>8 DEF Write, WriteFails
  <2>3. writer'.pc = "idle" /\ writer'.handle \in {writer.handle, NoFile}
    BY <1>t, <2>2 DEF WriterType
  <2>4. QED
    BY <1>t, <2>1, <2>3 DEF AppendsToLive, WriterShape, Is
<1>9. CASE Start
  BY <1>t, <1>9 DEF Start, storeVars, AppendsToLive, WriterShape, Is, WriterType
<1>10. CASE Crash
  BY <1>t, <1>10 DEF Crash, AppendsToLive, WriterShape, Is, WriterType
<1>11. CASE Import
  <2>1. PICK f \in Free : archives' = archives \cup {f}
    BY <1>t, <1>11, ImportFile
  <2>2. f \notin Named /\ f \in Files
    BY <2>1 DEF Free
  <2>3. AppendsToLive'
    BY <1>t, <1>11, <2>1, <2>2, ConstantsAssumption DEF Import, AppendsToLive, Named
  <2>4. UNCHANGED <<backup, clock, writer>>
    BY <1>11 DEF Import
  <2>5. QED
    BY <1>t, <2>3, <2>4 DEF WriterShape, Is
<1>12. CASE Tick
  <2>1. clock' = clock + 1 /\ UNCHANGED <<live, backup, archives, writer>>
    BY <1>12 DEF Tick, storeVars
  <2>2. writer.cutoff \in Int
    BY <1>t DEF WriterType
  <2>3. Is("prune")' => writer'.cutoff <= clock' - Retention
    BY <1>t, <2>1, <2>2 DEF WriterShape, Is
  <2>4. QED
    BY <1>t, <2>1, <2>3 DEF AppendsToLive, WriterShape, Is
<1>13. CASE ScanStep
  BY <1>t, <1>13, ScanLeavesStore DEF storeVars, AppendsToLive, WriterShape, Is
<1>14. CASE UNCHANGED vars
  BY <1>t, <1>14 DEF vars, storeVars, AppendsToLive, WriterShape, Is
<1>15. QED
  BY <1>1, <1>2, <1>3, <1>4, <1>5, <1>6, <1>7, <1>8, <1>9, <1>10, <1>11, <1>12, <1>13, <1>14
     DEF Next, LoggerStep

\* Time goes on, and a line keeps its timestamp.
LEMMA TimeStep ==
    ASSUME TypeOK, TypeOK', [Next]_vars, \A n \in 1 .. Len(at) : at[n] <= clock
    PROVE  /\ clock <= clock' /\ Len(at) <= Len(at')
           /\ \A n \in 1 .. Len(at) : at'[n] = at[n]
           /\ \A n \in 1 .. Len(at') : at'[n] <= clock'
<1>1. clock \in Nat /\ clock' \in Nat /\ at \in Seq(0 .. MaxTime) /\ Len(at) \in Nat
  BY ConstantsAssumption DEF TypeOK
<1>2. CASE Stamp
  <2>1. /\ clock' = clock /\ Len(at') = Len(at) + 1 /\ at'[Len(at) + 1] = clock
        /\ \A n \in 1 .. Len(at) : at'[n] = at[n]
    BY <1>1, <1>2, AppendProperties DEF Stamp, TypeOK
  <2>2. 1 .. Len(at') = (1 .. Len(at)) \cup {Len(at) + 1}
    BY <1>1, <2>1
  <2>3. QED
    BY <1>1, <2>1, <2>2
<1>3. CASE Tick
  <2>1. clock' = clock + 1 /\ at' = at
    BY <1>3 DEF Tick
  <2>2. ASSUME NEW n \in 1 .. Len(at) PROVE at[n] <= clock'
    <3>1. at[n] \in 0 .. MaxTime
      BY <1>1, ElementOfSeq
    <3>2. at[n] <= clock /\ at[n] \in Int
      BY <3>1
    <3>3. QED
      BY <1>1, <2>1, <3>2
  <2>3. QED
    BY <1>1, <2>1, <2>2
<1>4. CASE UNCHANGED <<clock, at>>
  BY <1>1, <1>4
<1>5. Stamp \/ Tick \/ UNCHANGED <<clock, at>>
  <2>1. CASE ScanStep
    BY <2>1, ScanLeavesStore
  <2>2. CASE LoggerStep
    BY <2>2 DEF LoggerStep, Take, Archive, Shift, RotateFails, Prune, PruneEnds, Open, OpenFails,
                Write, WriteFails, Start, Crash
  <2>3. QED
    BY <2>1, <2>2 DEF Next, Import, vars
<1>6. QED
  BY <1>2, <1>3, <1>4, <1>5

\* Only the writer makes a line stored, and it does so in the log itself.
LEMMA StoredStep ==
    ASSUME StoreInv, TypeOK', [Next]_vars
    PROVE  \/ stored' = stored
           \/ /\ Write /\ writer.line # 0 /\ stored' = stored \cup {writer.line}
              /\ stored' \subseteq stored \cup InStore'
<1>1. CASE Write
  <2>1. CASE writer.handle = NoFile \/ writer.line = 0
    BY <1>1, <2>1 DEF Write
  <2>2. CASE writer.handle # NoFile /\ writer.line # 0
    <3>1. PICK f \in Files : f = writer.handle
      BY <2>2 DEF StoreInv, TypeOK, WriterType
    <3>2. stored' \subseteq stored \cup Stored(f)'
      BY <1>1, <2>2, <3>1, WriteEffect DEF StoreInv
    <3>3. f = live /\ live' = live /\ f # NoFile
      BY <1>1, <2>2, <3>1 DEF StoreInv, AppendsToLive, Write
    <3>4. f \in Named'
      BY <3>3 DEF Named
    <3>5. Stored(f)' \subseteq InStore'
      BY <3>4 DEF InStore
    <3>6. stored' = stored \/ stored' = stored \cup {writer.line}
      BY <1>1 DEF Write
    <3>7. QED
      BY <1>1, <2>2, <3>2, <3>5, <3>6
  <2>3. QED
    BY <2>1, <2>2
<1>2. CASE ~Write
  <2>1. CASE ScanStep
    BY <2>1, ScanLeavesStore
  <2>2. CASE LoggerStep
    BY <1>2, <2>2 DEF LoggerStep, Stamp, Take, Archive, Shift, RotateFails, Prune, PruneEnds, Open,
                OpenFails, WriteFails, Start, Crash
  <2>3. QED
    BY <2>1, <2>2 DEF Next, Import, Tick, vars
<1>3. QED
  BY <1>1, <1>2

LEMMA DatedStep ==
    ASSUME StoreInv, TypeOK', [Next]_vars
    PROVE  Dated'
<1>t. TypeOK /\ Dated /\ (\A n \in 1 .. Len(at) : at[n] <= clock)
  BY DEF StoreInv, Dated
<1>1. /\ clock <= clock' /\ Len(at) <= Len(at')
      /\ \A n \in 1 .. Len(at) : at'[n] = at[n]
      /\ \A n \in 1 .. Len(at') : at'[n] <= clock'
  BY <1>t, TimeStep
<1>2. /\ clock \in Nat /\ clock' \in Nat /\ Len(at) \in Nat /\ Len(at') \in Nat
      /\ 1 .. Len(at) \subseteq 1 .. Len(at')
  BY <1>1, <1>t, ConstantsAssumption DEF TypeOK
<1>3. waiting' \subseteq 1 .. Len(at')
  <2>1. CASE Stamp
    <3>1. Len(at') = Len(at) + 1
      BY <1>t, <2>1, AppendProperties DEF Stamp, TypeOK
    <3>2. Len(at) + 1 \in 1 .. Len(at')
      BY <1>2, <3>1
    <3>3. QED
      BY <1>t, <1>2, <2>1, <3>2 DEF Stamp, Dated
  <2>2. CASE waiting' \subseteq waiting
    BY <1>t, <1>2, <2>2 DEF Dated
  <2>3. QED
    <3>1. CASE ScanStep
      BY <2>2, <3>1, ScanLeavesStore
    <3>2. CASE LoggerStep
      BY <2>1, <2>2, <3>2 DEF LoggerStep, Take, Archive, Shift, RotateFails, Prune, PruneEnds, Open,
                  OpenFails, Write, WriteFails, Start, Crash
    <3>3. QED
      BY <2>2, <3>1, <3>2 DEF Next, Import, Tick, vars
<1>4. writer'.line <= Len(at')
  <2>1. writer'.line = writer.line \/ writer'.line = 0 \/ writer'.line \in waiting
    <3>1. writer \in WriterType
      BY <1>t DEF TypeOK
    <3>2. CASE ScanStep
      BY <3>2, ScanLeavesStore
    <3>3. CASE Stamp \/ (\E f \in archives : Prune(f))
      BY <3>3 DEF Stamp, Prune
    <3>4. CASE \E n \in waiting : Take(n)
      BY <3>1, <3>4 DEF Take, WriterType
    <3>5. CASE Archive \/ Shift \/ RotateFails \/ PruneEnds \/ Open \/ OpenFails \/ Start
      BY <3>1, <3>5 DEF Archive, Shift, RotateFails, PruneEnds, Open, OpenFails, Start, WriterType
    <3>6. CASE Write \/ WriteFails \/ Crash
      BY <3>1, <3>6 DEF Write, WriteFails, Crash, WriterType
    <3>7. QED
      BY <3>2, <3>3, <3>4, <3>5, <3>6 DEF Next, LoggerStep, Import, Tick, vars
  <2>2. writer.line \in Nat /\ writer.line <= Len(at)
    BY <1>t, ConstantsAssumption DEF TypeOK, WriterType, Lines, Dated
  <2>3. CASE writer'.line \in waiting
    <3>1. writer'.line \in 1 .. Len(at)
      BY <1>t, <2>3 DEF Dated
    <3>2. QED
      BY <1>1, <1>2, <3>1
  <2>4. CASE writer'.line = writer.line \/ writer'.line = 0
    BY <1>1, <1>2, <2>2, <2>4
  <2>5. QED
    BY <2>1, <2>3, <2>4
<1>5. writer.line # 0 => writer.line \in 1 .. Len(at)
  BY <1>t, <1>2, ConstantsAssumption DEF TypeOK, WriterType, Lines, Dated
<1>6. stored' \subseteq 1 .. Len(at')
  <2>1. stored \subseteq 1 .. Len(at)
    BY <1>t DEF Dated
  <2>2. stored' = stored \/ (writer.line # 0 /\ stored' = stored \cup {writer.line})
    BY StoredStep
  <2>3. 1 .. Len(at) \subseteq 1 .. Len(at')
    BY <1>2
  <2>4. CASE stored' = stored
    BY <2>1, <2>3, <2>4
  <2>5. CASE writer.line # 0 /\ stored' = stored \cup {writer.line}
    BY <1>5, <2>1, <2>3, <2>5
  <2>6. QED
    BY <2>2, <2>4, <2>5
<1>7. ASSUME NEW f \in Files
      PROVE  /\ file'[f].modified <= clock'
             /\ \A n \in Stored(f)' : n \in 1 .. Len(at') /\ at'[n] <= file'[f].modified
  <2>1. /\ file[f].modified \in Int /\ file'[f].modified \in Int
        /\ file[f].modified <= clock
        /\ \A n \in Stored(f) : n \in 1 .. Len(at) /\ at[n] <= file[f].modified
    BY <1>t DEF TypeOK, FileType, Dated
  <2>2. ASSUME NEW n \in 1 .. Len(at), at[n] <= clock, file'[f].modified = clock
        PROVE  n \in 1 .. Len(at') /\ at'[n] <= file'[f].modified
    BY <1>1, <1>2, <2>2
  <2>3. CASE Same(f)
    <3>1. file'[f].modified = file[f].modified /\ Stored(f)' = Stored(f)
      BY <2>3 DEF Same
    <3>2. \A n \in Stored(f)' : n \in 1 .. Len(at') /\ at'[n] <= file'[f].modified
      BY <1>1, <1>2, <2>1, <3>1
    <3>3. QED
      BY <1>1, <1>2, <2>1, <3>1, <3>2
  <2>4. CASE Written(f)
    <3>1. Stored(f)' \subseteq Stored(f) \cup {writer.line} /\ file'[f].modified = clock
      BY <2>4 DEF Written
    <3>2. 0 \notin Stored(f)'
      BY DEF Stored
    <3>3. \A n \in Stored(f)' : n \in 1 .. Len(at)
      BY <1>5, <2>1, <3>1, <3>2
    <3>4. QED
      BY <1>t, <1>1, <1>2, <2>2, <3>1, <3>3
  <2>5. CASE Made(f)
    <3>1. CASE Stored(f)' = {}
      BY <1>1, <1>2, <2>5, <3>1 DEF Made
    <3>2. CASE file'[f].modified = clock /\ backup \in Files /\ Stored(f)' = Stored(backup)
      <4>1. \A n \in Stored(f)' : n \in 1 .. Len(at)
        BY <1>t, <3>2 DEF Dated
      <4>2. QED
        BY <1>t, <1>1, <1>2, <2>2, <3>2, <4>1
    <3>3. QED
      BY <2>5, <3>1, <3>2 DEF Made
  <2>6. QED
    BY <1>t, <2>3, <2>4, <2>5, FileEffect
<1>8. QED
  BY <1>1, <1>3, <1>4, <1>6, <1>7 DEF Dated

\* A file keeps its name and its lines, unless it is pruned for its age.
LEMMA NamedStep ==
    ASSUME StoreInv, [Next]_vars, NEW f \in Named, ~Prune(f)
    PROVE  f \in Named' /\ Stored(f) \subseteq Stored(f)'
<1>1. f \in Files /\ f # NoFile /\ f \notin Free
  BY NamedFiles DEF StoreInv, Named, Free
<1>2. Stored(f) \subseteq Stored(f)'
  BY <1>1, FileEffect DEF StoreInv, Same, Written, Made
<1>3. f \in Named'
  <2>1. CASE ScanStep
    BY <2>1, ScanLeavesStore DEF Named, storeVars
  <2>2. CASE Archive
    <3>1. CASE backup = NoFile
      BY <2>2, <3>1 DEF Archive, storeVars, Named
    <3>2. CASE backup # NoFile
      BY <1>1, <2>2, <3>2 DEF Archive, Named
    <3>3. QED
      BY <3>1, <3>2
  <2>3. CASE Shift
    BY <1>1, <2>3 DEF Shift, Named, StoreInv, WriterShape
  <2>4. CASE Open
    BY <1>1, <2>4 DEF Open, Named
  <2>5. CASE Import
    BY <1>1, <2>5 DEF Import, Named
  <2>6. CASE \E g \in archives : Prune(g)
    BY <1>1, <2>6 DEF Prune, Named
  <2>7. CASE UNCHANGED <<live, backup, archives>>
    BY <2>7 DEF Named
  <2>8. QED
    BY <2>1, <2>2, <2>3, <2>4, <2>5, <2>6, <2>7
       DEF Next, LoggerStep, Stamp, Take, RotateFails, PruneEnds, OpenFails, Write, WriteFails, Start,
           Crash, Tick, vars, storeVars
<1>4. QED
  BY <1>2, <1>3

LEMMA RetainedStep ==
    ASSUME StoreInv, TypeOK', [Next]_vars
    PROVE  Retained'
<1>t. /\ TypeOK /\ Dated /\ Retained /\ WriterShape
      /\ \A n \in 1 .. Len(at) : at[n] <= clock
  BY DEF StoreInv, Dated
<1>1. clock <= clock' /\ \A n \in 1 .. Len(at) : at'[n] = at[n]
  BY <1>t, TimeStep
<1>2. /\ clock \in Nat /\ clock' \in Nat /\ Retention \in Nat
      /\ \A n \in 1 .. Len(at) : at[n] \in Nat
  BY <1>t, ElementOfSeq, ConstantsAssumption DEF TypeOK
<1>3. ASSUME NEW n \in stored, at'[n] >= clock' - Retention
      PROVE  n \in InStore'
  <2>1. n \in 1 .. Len(at) /\ at[n] \in Nat
    BY <1>t, <1>2 DEF Dated
  <2>2. at[n] >= clock - Retention
    BY <1>1, <1>2, <1>3, <2>1
  <2>3. PICK f \in Named : n \in Stored(f)
    BY <1>t, <2>2 DEF Retained, InStore
  <2>4. ~Prune(f)
    <3>1. SUFFICES ASSUME Prune(f) PROVE FALSE
      OBVIOUS
    <3>2. f \in Files /\ at[n] <= file[f].modified
      BY <1>t, <2>3, NamedFiles DEF Dated
    <3>3. file[f].modified < writer.cutoff /\ writer.cutoff <= clock - Retention
      BY <1>t, <3>1 DEF Prune, Expired, WriterShape
    <3>4. file[f].modified \in Int /\ writer.cutoff \in Int
      BY <1>t, <3>2 DEF TypeOK, FileType, WriterType
    <3>5. QED
      BY <1>2, <2>1, <2>2, <3>2, <3>3, <3>4
  <2>5. f \in Named' /\ n \in Stored(f)'
    BY <2>3, <2>4, NamedStep
  <2>6. QED
    BY <2>5 DEF InStore
<1>4. stored' \subseteq stored \cup InStore'
  BY StoredStep
<1>5. QED
  BY <1>3, <1>4 DEF Retained

LEMMA StoreInductive == Spec => []StoreInv
<1>1. StoreInv /\ [Next]_vars => StoreInv'
  <2>1. SUFFICES ASSUME StoreInv, [Next]_vars PROVE StoreInv'
    OBVIOUS
  <2>2. TypeOK'
    BY <2>1, TypeStep
  <2>3. QED
    BY <2>1, <2>2, NamesStep, DatedStep, RetainedStep DEF StoreInv
<1>2. QED
  BY InitStore, <1>1, PTL DEF Spec

\* The state of the log, of the logger and of a scan is well formed.
THEOREM StoreTyped == Spec => []TypeOK
<1>1. StoreInv => TypeOK
  BY DEF StoreInv
<1>2. QED
  BY StoreInductive, <1>1, PTL

\* However rotation fails or the daemon dies, no file gets two names and no
\* line goes to an archive.
THEOREM OnlyTheLogGrows == Spec => []AppendsToLive
<1>1. StoreInv => AppendsToLive
  BY DEF StoreInv
<1>2. QED
  BY StoreInductive, <1>1, PTL

\* For any number of files, any limit and any retention: no line is lost
\* before its time.
THEOREM KeptForRetention == Spec => []Retained
<1>1. StoreInv => Retained
  BY DEF StoreInv
<1>2. QED
  BY StoreInductive, <1>1, PTL

-----------------------------------------------------------------------------
(* A scan misses nothing *)

\* The files a scan will still come to, each under the name it has now.
Ahead ==
    {f \in Files :
        \/ scan.pc = "live" /\ f \in Named
        \/ scan.pc # "live" /\ f \in Elems(scan.handles)
        \/ scan.pc = "backup" /\ f = backup
        \/ scan.pc \in {"backup", "list"} /\ f \in archives
        \/ scan.pc = "read" /\ f \in scan.todo \cap archives}

Reading == {"live", "backup", "list", "read"}

\* A request that is due has been counted, or is in a file ahead, unless it is
\* older than what is kept.
Owed(n) ==
    \/ ~Kept(n)
    \/ scan.counted[n] = 1
    \/ scan.pc \in Reading /\ \E f \in Ahead \ scan.read : n \in Stored(f)

ScanInv ==
    /\ scan.pc = "off" => scan.due = {}
    /\ \A n \in scan.due : n \in 1 .. Len(at) /\ InWindow(n)
    /\ \A n \in 1 .. MaxEvents : scan.counted[n] <= 1
    /\ \A n \in scan.due : IsRequestEnd(Entry[n]) => Owed(n)

LEMMA HandleElems ==
    ASSUME NEW handles \in Seq(Files), NEW f \in Files \cup {NoFile}
    PROVE  /\ handles \o Handle(f) \in Seq(Files)
           /\ Elems(handles \o Handle(f)) = Elems(handles) \cup ({f} \ {NoFile})
<1>1. CASE f = NoFile
  <2>1. handles \o Handle(f) = handles
    BY <1>1 DEF Handle
  <2>2. QED
    BY <1>1, <2>1
<1>2. CASE f # NoFile
  <2>1. handles \o Handle(f) = Append(handles, f)
    BY <1>2 DEF Handle
  <2>2. QED
    BY <1>2, <2>1, ElemsAppend
<1>3. QED
  BY <1>1, <1>2

LEMMA HeadTailElems ==
    ASSUME NEW handles \in Seq(Files), handles # <<>>
    PROVE  /\ Tail(handles) \in Seq(Files) /\ Head(handles) \in Files
           /\ Elems(handles) = {Head(handles)} \cup Elems(Tail(handles))
<1>1. /\ Tail(handles) \in Seq(Files) /\ Head(handles) \in Files
      /\ Len(handles) \in Nat \ {0} /\ Len(Tail(handles)) = Len(handles) - 1
      /\ Head(handles) = handles[1]
      /\ \A i \in 1 .. Len(handles) - 1 : Tail(handles)[i] = handles[i + 1]
  BY HeadTailProperties
<1>2. ASSUME NEW f \in Elems(handles) PROVE f \in {Head(handles)} \cup Elems(Tail(handles))
  <2>1. PICK i \in 1 .. Len(handles) : f = handles[i]
    BY DEF Elems
  <2>2. CASE i = 1
    BY <1>1, <2>1, <2>2
  <2>3. CASE i # 1
    <3>1. i - 1 \in 1 .. Len(handles) - 1 /\ (i - 1) + 1 = i
      BY <1>1, <2>1, <2>3
    <3>2. Tail(handles)[i - 1] = f
      BY <1>1, <2>1, <3>1
    <3>3. QED
      BY <1>1, <3>1, <3>2 DEF Elems
  <2>4. QED
    BY <2>2, <2>3
<1>3. Head(handles) \in Elems(handles)
  <2>1. 1 \in 1 .. Len(handles)
    BY <1>1
  <2>2. QED
    BY <1>1, <2>1 DEF Elems
<1>4. ASSUME NEW f \in Elems(Tail(handles)) PROVE f \in Elems(handles)
  <2>1. PICK i \in 1 .. Len(handles) - 1 : f = handles[i + 1]
    BY <1>1 DEF Elems
  <2>2. i + 1 \in 1 .. Len(handles)
    BY <1>1, <2>1
  <2>3. QED
    BY <2>1, <2>2 DEF Elems
<1>5. QED
  BY <1>1, <1>2, <1>3, <1>4

LEMMA AheadFiles ==
    ASSUME TypeOK
    PROVE  Ahead \subseteq Files /\ Ahead \cap Free = {}
<1>1. Ahead \subseteq Named \cup Elems(scan.handles)
  BY ConstantsAssumption DEF Ahead, Named
<1>2. (Named \cup Elems(scan.handles)) \cap Free = {}
  BY DEF Free, Elems
<1>3. QED
  BY <1>1, <1>2 DEF Ahead

\* The logger cannot take a file from a scan, except by pruning it.
LEMMA AheadStep ==
    ASSUME StoreInv, [Next]_vars, scan' = scan, scan.pc \in Reading, NEW f \in Ahead, ~Prune(f)
    PROVE  f \in Ahead' /\ Stored(f) \subseteq Stored(f)'
<1>1. f \in Files /\ f \notin Free /\ f # NoFile
  BY AheadFiles, ConstantsAssumption DEF StoreInv
<1>2. Stored(f) \subseteq Stored(f)'
  BY <1>1, FileEffect DEF StoreInv, Same, Written, Made
<1>3. f \in Named => f \in Named'
  BY <1>1, NamedStep
<1>4. f \in archives => f \in archives'
  <2>1. CASE ScanStep
    BY <2>1, ScanLeavesStore DEF storeVars
  <2>2. CASE Archive
    BY <2>2 DEF Archive, storeVars
  <2>3. CASE \E g \in archives : Prune(g)
    BY <2>3 DEF Prune
  <2>4. CASE Import
    BY <2>4 DEF Import
  <2>5. CASE UNCHANGED archives
    BY <2>5
  <2>6. QED
    BY <2>1, <2>2, <2>3, <2>4, <2>5
       DEF Next, LoggerStep, Stamp, Take, Shift, RotateFails, PruneEnds, Open, OpenFails, Write,
           WriteFails, Start, Crash, Tick, vars, storeVars
<1>5. f = backup => f \in ({backup'} \cup archives')
  <2>1. CASE ScanStep
    BY <2>1, ScanLeavesStore DEF storeVars
  <2>2. CASE Archive
    BY <2>2 DEF Archive, storeVars
  <2>3. CASE Shift
    BY <1>1, <2>3 DEF Shift, StoreInv, WriterShape
  <2>4. CASE UNCHANGED backup
    BY <2>4
  <2>5. QED
    BY <2>1, <2>2, <2>3, <2>4
       DEF Next, LoggerStep, Stamp, Take, RotateFails, Prune, PruneEnds, Open, OpenFails, Write,
           WriteFails, Start, Crash, Import, Tick, vars, storeVars
<1>6. CASE scan.pc = "live"
  BY <1>1, <1>2, <1>3, <1>6 DEF Ahead
<1>7. CASE scan.pc = "backup"
  BY <1>1, <1>2, <1>4, <1>5, <1>7 DEF Ahead
<1>8. CASE scan.pc = "list"
  BY <1>1, <1>2, <1>4, <1>8 DEF Ahead
<1>9. CASE scan.pc = "read"
  BY <1>1, <1>2, <1>4, <1>9 DEF Ahead
<1>10. QED
  BY <1>2, <1>6, <1>7, <1>8, <1>9 DEF Reading

LEMMA ScanStays ==
    ASSUME StoreInv, ScanInv, TypeOK', [Next]_vars, scan' = scan
    PROVE  ScanInv'
<1>t. /\ TypeOK /\ Dated /\ WriterShape
      /\ \A n \in 1 .. Len(at) : at[n] <= clock
  BY DEF StoreInv, Dated
<1>1. /\ clock <= clock' /\ Len(at) <= Len(at')
      /\ \A n \in 1 .. Len(at) : at'[n] = at[n]
  BY <1>t, TimeStep
<1>2. /\ clock \in Nat /\ clock' \in Nat /\ Len(at) \in Nat /\ Len(at') \in Nat
      /\ scan.end \in Nat /\ Retention \in Nat /\ Window \in Nat
      /\ \A n \in 1 .. Len(at) : at[n] \in Nat
  BY SMTT(30), <1>t, ElementOfSeq, ConstantsAssumption DEF TypeOK, ScanType
<1>3. ASSUME NEW n \in 1 .. Len(at), ~Kept(n)
      PROVE  ~Kept(n)'
  BY <1>1, <1>2, <1>3 DEF Kept
<1>4. ASSUME NEW n \in scan.due
      PROVE  n \in 1 .. Len(at') /\ InWindow(n)'
  <2>1. n \in 1 .. Len(at) /\ InWindow(n)
    BY DEF ScanInv
  <2>2. n \in 1 .. Len(at') /\ at'[n] = at[n]
    BY <1>1, <1>2, <2>1
  <2>3. QED
    BY <2>1, <2>2 DEF InWindow
<1>5. ASSUME NEW n \in scan.due, Owed(n)
      PROVE  Owed(n)'
  <2>1. CASE scan.counted[n] = 1
    BY <2>1 DEF Owed
  <2>2. CASE Kept(n) /\ scan.pc \in Reading /\ \E f \in Ahead \ scan.read : n \in Stored(f)
    <3>1. PICK f \in Ahead \ scan.read : n \in Stored(f)
      BY <2>2
    <3>2. ~Prune(f)
      <4>1. SUFFICES ASSUME Prune(f) PROVE FALSE
        OBVIOUS
      <4>2. f \in Files /\ n \in 1 .. Len(at) /\ at[n] <= file[f].modified
        BY <1>t, <3>1, AheadFiles DEF Dated
      <4>3. file[f].modified < writer.cutoff /\ writer.cutoff <= clock - Retention
        BY <1>t, <4>1 DEF Prune, Expired, WriterShape
      <4>4. at[n] >= clock - Retention
        BY <2>2 DEF Kept
      <4>5. file[f].modified \in Int /\ writer.cutoff \in Int /\ at[n] \in Nat
        BY <1>t, <1>2, <4>2 DEF TypeOK, FileType, WriterType
      <4>6. QED
        BY SMTT(30), <1>2, <4>2, <4>3, <4>4, <4>5
    <3>3. f \in Ahead' /\ n \in Stored(f)'
      BY <2>2, <3>1, <3>2, AheadStep
    <3>4. QED
      BY <2>2, <3>1, <3>3 DEF Owed
  <2>3. CASE ~Kept(n)
    BY <1>3, <2>3 DEF ScanInv, Owed
  <2>4. QED
    BY <1>5, <2>1, <2>2, <2>3 DEF Owed
<1>6. QED
  BY <1>4, <1>5 DEF ScanInv

\* A file that is read drops out, and every due request in it is counted.
LEMMA ReadStep ==
    ASSUME StoreInv, ScanInv, NEW f \in Files, NEW rest \in ScanType, Read(f, rest),
           UNCHANGED <<storeVars, clock, at>>, scan.pc = "read",
           rest.pc = "read", rest.end = scan.end, rest.due = scan.due, rest.read = scan.read,
           rest.counted = scan.counted,
           \A g \in Ahead : g = f \/ g \in Elems(rest.handles) \/ g \in rest.todo \cap archives
    PROVE  ScanInv'
<1>t. /\ TypeOK /\ scan.counted \in [1 .. MaxEvents -> Nat] /\ scan.due \subseteq 1 .. MaxEvents
      /\ \A n \in 1 .. MaxEvents : scan.counted[n] <= 1
  BY DEF StoreInv, TypeOK, ScanType, ScanInv
<1>1. /\ scan'.pc = "read" /\ scan'.end = scan.end /\ scan'.due = scan.due
      /\ scan'.handles = rest.handles /\ scan'.todo = rest.todo
      /\ \/ Unix /\ f \in scan.read /\ scan'.read = scan.read /\ scan'.counted = scan.counted
         \/ ~(Unix /\ f \in scan.read) /\ scan'.read = scan.read \cup {f} /\ scan'.counted = Count(Fresh(f))
  BY DEF Read, ScanType
<1>2. ASSUME NEW n \in 1 .. MaxEvents
      PROVE  /\ scan'.counted[n] <= 1
             /\ scan.counted[n] = 1 => scan'.counted[n] = 1
             /\ scan'.counted = Count(Fresh(f)) /\ n \in Stored(f) /\ InWindow(n) /\ IsRequestEnd(Entry[n])
                  => scan'.counted[n] = 1
  <2>1. scan.counted[n] \in Nat /\ scan.counted[n] <= 1
    BY <1>t
  <2>2. CASE scan'.counted = scan.counted /\ scan'.counted # Count(Fresh(f))
    BY <2>1, <2>2
  <2>3. CASE scan'.counted = Count(Fresh(f))
    <3>1. scan'.counted[n] = scan.counted[n] + (IF n \in Fresh(f) THEN 1 ELSE 0)
      BY <2>3 DEF Count
    <3>2. n \in Fresh(f) => scan.counted[n] = 0
      BY DEF Fresh
    <3>3. n \in Stored(f) /\ InWindow(n) /\ IsRequestEnd(Entry[n]) /\ scan.counted[n] = 0 => n \in Fresh(f)
      BY DEF Fresh
    <3>4. QED
      BY <2>1, <3>1, <3>2, <3>3
  <2>4. QED
    BY <1>1, <2>2, <2>3
<1>3. ASSUME NEW n \in scan.due, IsRequestEnd(Entry[n])
      PROVE  Owed(n)'
  <2>1. n \in 1 .. MaxEvents /\ InWindow(n) /\ Owed(n)
    BY <1>t, <1>3 DEF ScanInv
  <2>2. CASE scan.counted[n] = 1
    BY <1>2, <2>1, <2>2 DEF Owed
  <2>3. CASE \E g \in Ahead \ scan.read : n \in Stored(g)
    <3>1. PICK g \in Ahead \ scan.read : n \in Stored(g)
      BY <2>3
    <3>2. CASE g = f
      <4>1. scan'.counted = Count(Fresh(f))
        BY <1>1, <3>1, <3>2
      <4>2. scan'.counted[n] = 1
        BY <1>2, <1>3, <2>1, <3>1, <3>2, <4>1
      <4>3. QED
        BY <4>2 DEF Owed
    <3>3. CASE g # f
      <4>1. g \in Files
        BY <3>1 DEF Ahead
      <4>2. g \in Elems(rest.handles) \/ g \in rest.todo \cap archives
        BY <3>1, <3>3
      <4>3. g \in Ahead'
        BY <1>1, <4>1, <4>2 DEF Ahead, storeVars
      <4>4. g \notin scan'.read
        BY <1>1, <3>1, <3>3
      <4>5. n \in Stored(g)'
        BY <3>1 DEF Stored, storeVars
      <4>6. QED
        BY <1>1, <4>3, <4>4, <4>5 DEF Owed, Reading
    <3>4. QED
      BY <3>2, <3>3
  <2>4. CASE ~Kept(n)
    BY <2>4 DEF Owed, Kept
  <2>5. QED
    BY <2>1, <2>2, <2>3, <2>4 DEF Owed
<1>4. \A n \in scan.due : n \in 1 .. Len(at) /\ InWindow(n)'
  BY <1>1 DEF ScanInv, InWindow
<1>5. QED
  BY <1>1, <1>2, <1>3, <1>4 DEF ScanInv

LEMMA NoScanInv ==
    ASSUME TypeOK, scan = NoScan
    PROVE  ScanInv
<1>1. scan.pc = "off" /\ scan.due = {} /\ scan.counted = [n \in 1 .. MaxEvents |-> 0]
  BY DEF NoScan
<1>2. \A n \in 1 .. MaxEvents : scan.counted[n] <= 1
  BY <1>1
<1>3. QED
  BY <1>1, <1>2 DEF ScanInv

\* A scan that goes on to the next step, with the same files ahead.
LEMMA AheadKept ==
    ASSUME StoreInv, ScanInv, UNCHANGED <<storeVars, clock, at>>, scan.pc \in Reading,
           scan'.pc \in Reading, scan'.end = scan.end, scan'.due = scan.due,
           scan'.read = scan.read, scan'.counted = scan.counted,
           \A f \in Ahead : (\E n \in scan.due : n \in Stored(f)) => f \in Ahead'
    PROVE  ScanInv'
<1>1. ASSUME NEW n \in scan.due, Owed(n) PROVE Owed(n)'
  <2>1. CASE scan.counted[n] = 1
    BY <2>1 DEF Owed
  <2>2. CASE \E f \in Ahead \ scan.read : n \in Stored(f)
    <3>1. PICK f \in Ahead \ scan.read : n \in Stored(f)
      BY <2>2
    <3>2. f \in Ahead' /\ f \notin scan'.read
      BY <3>1
    <3>3. n \in Stored(f)'
      BY <3>1 DEF Stored, storeVars
    <3>4. QED
      BY <3>2, <3>3 DEF Owed
  <2>3. CASE ~Kept(n)
    BY <2>3 DEF Owed, Kept
  <2>4. QED
    BY <1>1, <2>1, <2>2, <2>3 DEF Owed
<1>2. \A n \in scan.due : n \in 1 .. Len(at) /\ InWindow(n)'
  BY DEF ScanInv, InWindow
<1>3. scan'.pc # "off"
  BY DEF Reading
<1>4. QED
  BY <1>1, <1>2, <1>3 DEF ScanInv

LEMMA ScanKeepsInv ==
    ASSUME StoreInv, ScanInv, TypeOK', ScanStep
    PROVE  ScanInv'
<1>t. /\ TypeOK /\ scan \in ScanType /\ scan.handles \in Seq(Files)
      /\ live \in Files \cup {NoFile} /\ backup \in Files \cup {NoFile} /\ archives \subseteq Files
  BY DEF StoreInv, TypeOK, ScanType
<1>u. UNCHANGED <<storeVars, clock, at>>
  BY ScanLeavesStore
<1>1. CASE ScanBegin
  <2>1. /\ scan'.pc = "live" /\ scan'.end = clock /\ scan'.read = {}
        /\ scan'.due = {n \in InStore : clock - Window <= at[n] /\ at[n] < clock}
        /\ scan'.counted = [n \in 1 .. MaxEvents |-> 0]
    BY <1>1 DEF ScanBegin, NoScan
  <2>2. ASSUME NEW n \in scan'.due
        PROVE  n \in 1 .. Len(at) /\ InWindow(n)' /\ Owed(n)'
    <3>1. n \in InStore /\ clock - Window <= at[n] /\ at[n] < clock
      BY <2>1
    <3>2. PICK f \in Named : n \in Stored(f)
      BY <3>1 DEF InStore
    <3>3. f \in Files /\ n \in 1 .. Len(at)
      BY <1>t, <3>2, NamedFiles DEF StoreInv, Dated
    <3>4. f \in Ahead'
      <4>1. f \in Named'
        BY <1>u, <3>2 DEF Named, storeVars
      <4>2. QED
        BY <2>1, <3>3, <4>1 DEF Ahead
    <3>5. n \in Stored(f)'
      BY <1>u, <3>2 DEF Stored, storeVars
    <3>6. at[n] \in Int /\ clock \in Int /\ Window \in Int
      BY <1>t, <3>3, ElementOfSeq, ConstantsAssumption DEF TypeOK
    <3>7. InWindow(n)'
      BY <1>u, <2>1, <3>1, <3>6 DEF InWindow
    <3>8. QED
      BY <2>1, <3>3, <3>4, <3>5, <3>7 DEF Owed, Reading
  <2>3. \A n \in 1 .. MaxEvents : scan'.counted[n] <= 1
    BY <2>1
  <2>4. QED
    BY <1>u, <2>1, <2>2, <2>3 DEF ScanInv
<1>2. CASE ScanOpen(1)
  <2>1. /\ scan.pc = "live" /\ scan'.pc = "backup" /\ scan'.handles = scan.handles \o Handle(live)
        /\ scan'.end = scan.end /\ scan'.due = scan.due /\ scan'.read = scan.read
        /\ scan'.counted = scan.counted
    BY <1>t, <1>2 DEF ScanOpen, OpenOrder, ScanType
  <2>2. Elems(scan'.handles) = Elems(scan.handles) \cup ({live} \ {NoFile})
    BY <1>t, <2>1, HandleElems
  <2>3. Ahead \subseteq Ahead'
    BY <1>u, <2>1, <2>2 DEF Ahead, Named, storeVars
  <2>4. QED
    BY <1>u, <2>1, <2>3, AheadKept DEF Reading
<1>3. CASE ScanOpen(2)
  <2>1. /\ scan.pc = "backup" /\ scan'.pc = "list" /\ scan'.handles = scan.handles \o Handle(backup)
        /\ scan'.end = scan.end /\ scan'.due = scan.due /\ scan'.read = scan.read
        /\ scan'.counted = scan.counted
    BY <1>t, <1>3 DEF ScanOpen, OpenOrder, ScanType
  <2>2. Elems(scan'.handles) = Elems(scan.handles) \cup ({backup} \ {NoFile})
    BY <1>t, <2>1, HandleElems
  <2>3. Ahead \subseteq Ahead'
    BY <1>u, <2>1, <2>2, ConstantsAssumption DEF Ahead, storeVars
  <2>4. QED
    BY <1>u, <2>1, <2>3, AheadKept DEF Reading
<1>4. CASE ScanList
  <2>1. /\ scan.pc = "list" /\ scan'.pc = "read" /\ scan'.handles = scan.handles
        /\ scan'.todo = {f \in archives : file[f].modified >= scan.end - Window}
        /\ scan'.end = scan.end /\ scan'.due = scan.due /\ scan'.read = scan.read
        /\ scan'.counted = scan.counted
    BY <1>t, <1>4 DEF ScanList, ScanType
  <2>2. ASSUME NEW f \in Ahead, NEW n \in scan.due, n \in Stored(f)
        PROVE  f \in Ahead'
    <3>1. CASE f \in Elems(scan.handles)
      BY <2>1, <3>1 DEF Ahead
    <3>2. CASE f \in archives
      <4>1. f \in Files /\ n \in 1 .. Len(at) /\ at[n] <= file[f].modified
        BY <2>2 DEF StoreInv, Dated, Ahead
      <4>2. at[n] >= scan.end - Window
        BY DEF ScanInv, InWindow
      <4>3. at[n] \in Int /\ file[f].modified \in Int /\ scan.end \in Int /\ Window \in Int
        <5>1. at \in Seq(0 .. MaxTime) /\ file[f] \in FileType
          BY <1>t, <4>1 DEF TypeOK
        <5>2. at[n] \in 0 .. MaxTime
          BY <4>1, <5>1, ElementOfSeq
        <5>3. QED
          BY <1>t, <5>1, <5>2, ConstantsAssumption DEF FileType, ScanType
      <4>4. f \in scan'.todo
        BY <2>1, <3>2, <4>1, <4>2, <4>3
      <4>5. QED
        BY <1>u, <2>1, <3>2, <4>1, <4>4 DEF Ahead, storeVars
    <3>3. QED
      BY <2>1, <3>1, <3>2 DEF Ahead
  <2>3. QED
    BY <1>u, <2>1, <2>2, AheadKept DEF Reading
<1>5. CASE ScanRead
  <2> DEFINE rest == [scan EXCEPT !.handles = Tail(scan.handles)]
  <2>1. scan.pc = "read" /\ scan.handles # <<>> /\ Read(Head(scan.handles), rest)
    BY <1>5 DEF ScanRead
  <2>2. /\ Tail(scan.handles) \in Seq(Files)
        /\ Elems(scan.handles) = {Head(scan.handles)} \cup Elems(Tail(scan.handles))
    BY <1>t, <2>1, HeadTailElems
  <2>3. PICK f \in Files : f = Head(scan.handles)
    BY <1>t, <2>1
  <2>4. /\ rest \in ScanType /\ rest.pc = "read" /\ rest.end = scan.end /\ rest.due = scan.due
        /\ rest.read = scan.read /\ rest.counted = scan.counted
        /\ rest.handles = Tail(scan.handles) /\ rest.todo = scan.todo
    BY <1>t, <2>1, <2>2 DEF ScanType
  <2>5. Read(f, rest)
    BY <2>1, <2>3
  <2> HIDE DEF rest
  <2>6. \A g \in Ahead : g = f \/ g \in Elems(rest.handles) \/ g \in rest.todo \cap archives
    BY <2>1, <2>2, <2>3, <2>4 DEF Ahead
  <2>7. QED
    BY <1>u, <2>1, <2>4, <2>5, <2>6, ReadStep
<1>6. CASE \E f \in scan.todo : ScanArchive(f)
  <2>1. PICK f \in scan.todo : ScanArchive(f)
    BY <1>6
  <2>2. f \in Files
    BY <1>t DEF ScanType
  <2> DEFINE rest == [scan EXCEPT !.todo = scan.todo \ {f}]
  <2>3. /\ rest \in ScanType /\ rest.pc = scan.pc /\ rest.end = scan.end /\ rest.due = scan.due
        /\ rest.read = scan.read /\ rest.counted = scan.counted
        /\ rest.handles = scan.handles /\ rest.todo = scan.todo \ {f}
    BY <1>t DEF ScanType
  <2>4. scan.pc = "read" /\ IF f \in archives THEN Read(f, rest) ELSE scan' = rest
    BY <2>1 DEF ScanArchive
  <2> HIDE DEF rest
  <2>5. CASE f \in archives
    <3>1. \A g \in Ahead : g = f \/ g \in Elems(rest.handles) \/ g \in rest.todo \cap archives
      BY <2>3, <2>4 DEF Ahead
    <3>2. QED
      BY <1>u, <2>2, <2>3, <2>4, <2>5, <3>1, ReadStep
  <2>6. CASE f \notin archives
    <3>1. scan' = rest
      BY <2>4, <2>6
    <3>2. Ahead \subseteq Ahead'
      BY <1>u, <2>3, <2>4, <2>6, <3>1 DEF Ahead, storeVars
    <3>3. QED
      BY <1>u, <2>3, <2>4, <3>1, <3>2, AheadKept DEF Reading
  <2>7. QED
    BY <2>5, <2>6
<1>7. CASE ScanEnds
  <2>1. /\ scan.pc = "read" /\ scan.handles = <<>> /\ scan.todo = {}
        /\ scan'.pc = "done" /\ scan'.end = scan.end /\ scan'.due = scan.due
        /\ scan'.counted = scan.counted
    BY <1>t, <1>7 DEF ScanEnds, ScanType
  <2>2. Ahead = {}
    BY <2>1 DEF Ahead, Elems
  <2>3. \A n \in scan.due : IsRequestEnd(Entry[n]) => scan.counted[n] = 1 \/ ~Kept(n)
    BY <2>2 DEF ScanInv, Owed
  <2>4. \A n \in scan'.due : IsRequestEnd(Entry[n]) => Owed(n)'
    BY <1>u, <2>1, <2>3 DEF Owed, Kept
  <2>5. \A n \in scan.due : n \in 1 .. Len(at) /\ InWindow(n)'
    BY <1>u, <2>1 DEF ScanInv, InWindow
  <2>6. QED
    BY <1>u, <2>1, <2>4, <2>5 DEF ScanInv
<1>8. CASE ScanForget
  <2>1. /\ scan'.pc = "off" /\ scan'.due = {}
        /\ scan'.counted = [n \in 1 .. MaxEvents |-> 0]
    BY <1>8 DEF ScanForget, NoScan
  <2>2. \A n \in 1 .. MaxEvents : scan'.counted[n] <= 1
    BY <2>1
  <2>3. QED
    BY <2>1, <2>2 DEF ScanInv
<1>9. QED
  <2>1. (\E i \in 1 .. 2 : ScanOpen(i)) => ScanOpen(1) \/ ScanOpen(2)
    OBVIOUS
  <2>2. QED
    BY <1>1, <1>2, <1>3, <1>4, <1>5, <1>6, <1>7, <1>8, <2>1 DEF ScanStep

LEMMA ScanInductive == Spec => []ScanInv
<1>1. Init => ScanInv
  <2>1. SUFFICES ASSUME Init PROVE ScanInv
    OBVIOUS
  <2>2. TypeOK /\ scan = NoScan
    BY <2>1, InitStore DEF StoreInv, Init
  <2>3. QED
    BY <2>2, NoScanInv
<1>2. StoreInv /\ StoreInv' /\ ScanInv /\ [Next]_vars => ScanInv'
  <2>1. SUFFICES ASSUME StoreInv, StoreInv', ScanInv, [Next]_vars PROVE ScanInv'
    OBVIOUS
  <2>2. TypeOK'
    BY <2>1 DEF StoreInv
  <2>3. CASE ScanStep
    BY <2>1, <2>2, <2>3, ScanKeepsInv
  <2>4. CASE scan' = scan
    BY <2>1, <2>2, <2>4, ScanStays
  <2>5. QED
    <3>1. CASE LoggerStep
      BY <2>4, <3>1 DEF LoggerStep, Stamp, Take, Archive, Shift, RotateFails, Prune, PruneEnds, Open,
                  OpenFails, Write, WriteFails, Start, Crash
    <3>2. QED
      BY <2>1, <2>3, <2>4, <3>1 DEF Next, Import, Tick, vars
<1>3. QED
  BY StoreInductive, <1>1, <1>2, PTL DEF Spec

\* For any number of files and lines, with rotations, crashes, imports and
\* pruning at any step: a scan counts every request that it owes and that is
\* still kept, once.
THEOREM ScanCountsOnce == Spec => []ScanExact
<1>1. ScanInv => ScanExact
  <2>1. SUFFICES ASSUME ScanInv, scan.pc = "done" PROVE ScanExact
    BY DEF ScanExact
  <2>2. \A n \in scan.due : IsRequestEnd(Entry[n]) /\ Kept(n) => scan.counted[n] = 1
    BY <2>1 DEF ScanInv, Owed, Reading
  <2>3. QED
    BY <2>1, <2>2 DEF ScanInv, ScanExact
<1>2. QED
  BY ScanInductive, <1>1, PTL

-----------------------------------------------------------------------------
(* Names of accounts *)

LEMMA LeastNumber ==
    ASSUME NEW T \in SUBSET Nat, T # {}
    PROVE  \E m \in T : \A n \in T : m <= n
<1>1. PICK m \in T : \A n \in T : ~(<<n, m>> \in OpToRel(<, Nat))
  BY NatLessThanWellFounded, WFMin
<1>2. \A n \in T : ~(n < m)
  BY <1>1 DEF OpToRel
<1>3. QED
  BY <1>2

Teaches(e) == e.id # "" /\ e.label # ""

Taught(e) == <<Service(e), e.id>>

\* What is known after the first n of some lines: nothing is forgotten, every
\* account that a line names is known, and nothing else is.
Grown(old, new, es, n) ==
    /\ DOMAIN old \subseteq DOMAIN new
    /\ \A k \in DOMAIN old : new[k] = old[k]
    /\ \A i \in 1 .. n : Teaches(es[i]) => Taught(es[i]) \in DOMAIN new
    /\ \A k \in DOMAIN new \ DOMAIN old :
          \E i \in 1 .. n : Teaches(es[i]) /\ Taught(es[i]) = k /\ new[k] = es[i].label

LEMMA LearnGrows ==
    ASSUME NEW old, NEW new, NEW es, NEW n \in Nat \ {0}, Grown(old, new, es, n - 1)
    PROVE  Grown(old, Learn(new, es[n]), es, n)
<1>1. PICK e : e = es[n]
  OBVIOUS
<1>2. PICK k : k = Taught(e)
  OBVIOUS
<1>3. PICK next : next = Learn(new, e)
  OBVIOUS
<1>4. \A i \in 1 .. n : i \in 1 .. n - 1 \/ i = n
  OBVIOUS
<1>5. \A i \in 1 .. n - 1 : i \in 1 .. n
  OBVIOUS
<1>6. n \in 1 .. n
  OBVIOUS
<1>7. CASE Teaches(e) /\ k \notin DOMAIN new
  <2>1. next = [j \in DOMAIN new \cup {k} |-> IF j = k THEN e.label ELSE new[j]]
    BY <1>2, <1>3, <1>7 DEF Learn, Teaches, Taught
  <2>2. /\ DOMAIN next = DOMAIN new \cup {k} /\ next[k] = e.label
        /\ \A j \in DOMAIN new : next[j] = new[j]
    BY <1>7, <2>1
  <2>3. QED
    BY <1>1, <1>2, <1>3, <1>4, <1>5, <1>6, <1>7, <2>2 DEF Grown
<1>8. CASE ~(Teaches(e) /\ k \notin DOMAIN new)
  <2>1. next = new
    BY <1>2, <1>3, <1>8 DEF Learn, Teaches, Taught
  <2>2. QED
    BY <1>1, <1>2, <1>3, <1>4, <1>5, <1>8, <2>1 DEF Grown
<1>9. QED
  BY <1>7, <1>8

\* The recursion by which a file is read is well defined.
LEMMA LearnAllRuns ==
    ASSUME NEW old, NEW es, Len(es) \in Nat
    PROVE  \E g : /\ g = [i \in 0 .. Len(es) |-> IF i = 0 THEN old ELSE Learn(g[i - 1], es[i])]
                  /\ LearnAll(old, es) = g[Len(es)]
<1> DEFINE Runs(g, m) == g = [i \in 0 .. m |-> IF i = 0 THEN old ELSE Learn(g[i - 1], es[i])]
           T == {m \in Nat : ~\E g : Runs(g, m)}
<1>1. T = {}
  <2>1. SUFFICES ASSUME T # {} PROVE FALSE
    OBVIOUS
  <2>2. PICK m \in T : \A n \in T : m <= n
    <3> HIDE DEF T
    <3>1. T \in SUBSET Nat
      BY DEF T
    <3>2. QED
      BY <2>1, <3>1, LeastNumber
  <2>3. m \in Nat /\ ~\E g : Runs(g, m)
    OBVIOUS
  <2>4. CASE m = 0
    <3>1. PICK g : g = [i \in 0 .. 0 |-> old]
      OBVIOUS
    <3>2. g = [i \in 0 .. 0 |-> IF i = 0 THEN old ELSE Learn(g[i - 1], es[i])]
      <4>1. \A i \in 0 .. 0 : i = 0
        OBVIOUS
      <4>2. \A i \in 0 .. 0 : (IF i = 0 THEN old ELSE Learn(g[i - 1], es[i])) = old
        BY <4>1, Zenon
      <4>3. QED
        BY <3>1, <4>2, Zenon
    <3>3. QED
      BY <2>3, <2>4, <3>2
  <2>5. CASE m # 0
    <3>1. m - 1 \in Nat /\ m - 1 \notin T
      <4>1. m - 1 \in Nat /\ ~(m <= m - 1)
        BY <2>3, <2>5
      <4> HIDE DEF T
      <4>2. QED
        BY <2>2, <4>1
    <3>2. PICK g : Runs(g, m - 1)
      BY <3>1
    <3>3. PICK h : h = [i \in 0 .. m |-> IF i = m THEN Learn(g[m - 1], es[m]) ELSE g[i]]
      OBVIOUS
    <3>4. ASSUME NEW i \in 0 .. m
          PROVE  h[i] = IF i = 0 THEN old ELSE Learn(h[i - 1], es[i])
      <4>1. h[i] = IF i = m THEN Learn(g[m - 1], es[m]) ELSE g[i]
        BY <3>3
      <4>2. CASE i = m
        <5>1. m - 1 \in 0 .. m /\ m - 1 # m
          BY <2>3, <2>5
        <5>2. h[m - 1] = g[m - 1]
          BY <3>3, <5>1
        <5>3. QED
          BY <2>5, <4>1, <4>2, <5>2, Zenon
      <4>3. CASE i # m
        <5>1. i \in 0 .. m - 1
          BY <2>3, <4>3
        <5>2. g[i] = IF i = 0 THEN old ELSE Learn(g[i - 1], es[i])
          BY <3>2, <5>1
        <5>3. CASE i = 0
          BY <4>1, <4>3, <5>2, <5>3, Zenon
        <5>4. CASE i # 0
          <6>1. i - 1 \in 0 .. m /\ i - 1 # m
            BY <2>3, <4>3, <5>1, <5>4
          <6>2. h[i - 1] = g[i - 1]
            BY <3>3, <6>1
          <6>3. QED
            BY <4>1, <4>3, <5>2, <5>4, <6>2, Zenon
        <5>5. QED
          BY <5>3, <5>4
      <4>4. QED
        BY <4>2, <4>3
    <3>5. DOMAIN h = 0 .. m /\ h = [i \in 0 .. m |-> h[i]]
      BY <3>3
    <3>6. Runs(h, m)
      BY <3>4, <3>5, Zenon
    <3>7. QED
      BY <2>3, <3>6
  <2>6. QED
    BY <2>4, <2>5
<1>2. \E g : Runs(g, Len(es))
  BY <1>1
<1>3. PICK h : h = CHOOSE g : Runs(g, Len(es))
  OBVIOUS
<1>4. Runs(h, Len(es))
  BY <1>2, <1>3, Zenon
<1>5. LearnAll(old, es) = h[Len(es)]
  BY <1>3, Zenon DEF LearnAll
<1>6. QED
  BY <1>4, <1>5, Zenon

LEMMA LearnAllGrows ==
    ASSUME NEW old, NEW es, Len(es) \in Nat
    PROVE  Grown(old, LearnAll(old, es), es, Len(es))
<1>1. PICK g : /\ g = [i \in 0 .. Len(es) |-> IF i = 0 THEN old ELSE Learn(g[i - 1], es[i])]
               /\ LearnAll(old, es) = g[Len(es)]
  BY LearnAllRuns
<1> DEFINE T == {m \in 0 .. Len(es) : ~Grown(old, g[m], es, m)}
<1>2. T = {}
  <2>1. SUFFICES ASSUME T # {} PROVE FALSE
    OBVIOUS
  <2>2. PICK m \in T : \A n \in T : m <= n
    <3>1. T \in SUBSET Nat
      OBVIOUS
    <3> HIDE DEF T
    <3>2. QED
      BY <2>1, <3>1, LeastNumber
  <2>3. m \in 0 .. Len(es) /\ ~Grown(old, g[m], es, m)
    OBVIOUS
  <2>4. g[m] = IF m = 0 THEN old ELSE Learn(g[m - 1], es[m])
    BY <1>1, <2>3
  <2>5. CASE m = 0
    <3>1. g[m] = old /\ \A i : i \notin 1 .. m
      BY <2>4, <2>5
    <3>2. QED
      BY <2>3, <3>1 DEF Grown
  <2>6. CASE m # 0
    <3>1. m \in Nat \ {0} /\ m - 1 \in 0 .. Len(es) /\ ~(m <= m - 1)
      BY <2>3, <2>6
    <3>2. Grown(old, g[m - 1], es, m - 1)
      BY <2>2, <3>1
    <3>3. Grown(old, Learn(g[m - 1], es[m]), es, m)
      BY <3>1, <3>2, LearnGrows
    <3>4. QED
      BY <2>3, <2>4, <2>6, <3>3
  <2>7. QED
    BY <2>5, <2>6
<1>3. Len(es) \in 0 .. Len(es)
  OBVIOUS
<1>4. QED
  BY <1>1, <1>2, <1>3

\* What a file teaches, in terms of its lines.
LEMMA FileTeaches ==
    ASSUME StoreInv, NEW f \in Files
    PROVE  /\ DOMAIN labels \subseteq DOMAIN LabelsOf(f)
           /\ \A k \in DOMAIN labels : LabelsOf(f)[k] = labels[k]
           /\ \A m \in Stored(f) : Teaches(Entry[m]) => Account(m) \in DOMAIN LabelsOf(f)
           /\ \A k \in DOMAIN LabelsOf(f) \ DOMAIN labels :
                 \E m \in Stored(f) : Teaches(Entry[m]) /\ Account(m) = k /\ LabelsOf(f)[k] = Entry[m].label
<1>1. PICK lines : lines = file[f].lines
  OBVIOUS
<1>2. lines \in Seq(Lines) /\ Len(lines) \in Nat /\ DOMAIN lines = 1 .. Len(lines)
  BY <1>1 DEF StoreInv, TypeOK, FileType
<1>3. PICK es : es = Entries(lines)
  OBVIOUS
<1>4. PICK mute : mute = [Line EXCEPT !.event = "other"]
  OBVIOUS
<1>5. mute.id = ""
  BY <1>4 DEF Line
<1>6. /\ es = [i \in 1 .. Len(lines) |-> IF lines[i] = 0 THEN mute ELSE Entry[lines[i]]]
      /\ Len(es) = Len(lines)
  <2>1. es = [i \in 1 .. Len(lines) |-> IF lines[i] = 0 THEN mute ELSE Entry[lines[i]]]
    BY <1>2, <1>3, <1>4, Zenon DEF Entries
  <2>2. Len(es) = Len(lines)
    BY <1>2, <2>1
  <2>3. QED
    BY <2>1, <2>2
<1>7. PICK new : new = LabelsOf(f)
  OBVIOUS
<1>8. Grown(labels, new, es, Len(lines))
  <2>1. new = LearnAll(labels, es)
    BY <1>1, <1>3, <1>7 DEF LabelsOf
  <2>2. QED
    BY <1>2, <1>6, <2>1, LearnAllGrows
<1>9. ASSUME NEW m \in Stored(f), Teaches(Entry[m])
      PROVE  Account(m) \in DOMAIN new
  <2>1. PICK i \in 1 .. Len(lines) : m = lines[i] /\ m # 0
    BY <1>1 DEF Stored
  <2>2. es[i] = Entry[m]
    BY <1>6, <2>1
  <2>3. QED
    BY <1>8, <1>9, <2>2 DEF Grown, Taught, Account
<1>10. ASSUME NEW k \in DOMAIN new \ DOMAIN labels
       PROVE  \E m \in Stored(f) : Teaches(Entry[m]) /\ Account(m) = k /\ new[k] = Entry[m].label
  <2>1. PICK i \in 1 .. Len(lines) : Teaches(es[i]) /\ Taught(es[i]) = k /\ new[k] = es[i].label
    BY <1>8 DEF Grown
  <2>2. lines[i] # 0 /\ es[i] = Entry[lines[i]]
    BY <1>5, <1>6, <2>1 DEF Teaches
  <2>3. lines[i] \in Stored(f)
    BY <1>1, <2>2 DEF Stored
  <2>4. QED
    BY <2>1, <2>2, <2>3 DEF Taught, Account
<1>11. QED
  BY <1>7, <1>8, <1>9, <1>10 DEF Grown
-----------------------------------------------------------------------------
(* A scan hears every name *)

\* The scan does not skip an archive that was written this late.
Recent(f) == file[f].modified >= scan.end - Window

\* The account of a line is known, or a file ahead tells its name, unless the
\* line is older than what is kept.
Hears(m) ==
    \/ ~Kept(m)
    \/ Account(m) \in DOMAIN labels
    \/ scan.pc \in Reading /\ \E f \in Ahead \ scan.read : m \in Stored(f) /\ Recent(f)

\* A name is one that a line gave to the account.
Told(k) == \E l \in 1 .. Len(at) : Teaches(Entry[l]) /\ Account(l) = k /\ labels[k] = Entry[l].label

LabelInv ==
    /\ DOMAIN Configured \subseteq DOMAIN labels
    /\ \A k \in DOMAIN Configured : labels[k] = Configured[k]
    /\ \A k \in DOMAIN labels \ DOMAIN Configured : Told(k)
    /\ scan.pc = "off" => scan.named = {}
    /\ \A m \in scan.named : m \in 1 .. Len(at) /\ Teaches(Entry[m]) /\ Hears(m)

LEMMA LabelStays ==
    ASSUME StoreInv, ScanInv, LabelInv, TypeOK', [Next]_vars, scan' = scan, labels' = labels
    PROVE  LabelInv'
<1>t. /\ TypeOK /\ Dated /\ WriterShape
      /\ \A n \in 1 .. Len(at) : at[n] <= clock
  BY DEF StoreInv, Dated
<1>1. /\ clock <= clock' /\ Len(at) <= Len(at')
      /\ \A n \in 1 .. Len(at) : at'[n] = at[n]
  BY <1>t, TimeStep
<1>2. /\ clock \in Nat /\ clock' \in Nat /\ Len(at) \in Nat /\ Len(at') \in Nat
      /\ \A n \in 1 .. Len(at) : at[n] \in Nat
      /\ scan.end \in Nat /\ Retention \in Nat /\ Window \in Nat
  <2>1. at \in Seq(0 .. MaxTime) /\ at' \in Seq(0 .. MaxTime) /\ scan \in ScanType
    BY <1>t DEF TypeOK
  <2>2. Len(at) \in Nat /\ Len(at') \in Nat
    BY <2>1
  <2>3. clock \in 0 .. MaxTime /\ clock' \in 0 .. MaxTime
    BY <1>t DEF TypeOK
  <2>4. scan.end \in 0 .. MaxTime
    BY <2>1 DEF ScanType
  <2>5. MaxTime \in Nat /\ Retention \in Nat /\ Window \in Nat
    BY ConstantsAssumption
  <2>6. \A n \in 1 .. Len(at) : at[n] \in Nat
    BY <2>1, <2>5, ElementOfSeq
  <2>7. QED
    BY <2>2, <2>3, <2>4, <2>5, <2>6
<1>3. ASSUME NEW m \in 1 .. Len(at), Hears(m) PROVE Hears(m)'
  <2>0. CASE ~Kept(m)
    BY <1>1, <1>2, <2>0 DEF Hears, Kept
  <2>1. CASE Account(m) \in DOMAIN labels
    BY <2>1 DEF Hears, Account
  <2>2. CASE Kept(m) /\ scan.pc \in Reading /\ \E f \in Ahead \ scan.read : m \in Stored(f) /\ Recent(f)
    <3>1. PICK f \in Ahead \ scan.read : m \in Stored(f) /\ Recent(f)
      BY <2>2
    <3>2. f \in Files /\ f \notin Free
      BY <1>t, <3>1, AheadFiles
    <3>3. /\ file[f].modified \in Int /\ file'[f].modified \in Int /\ writer.cutoff \in Int
          /\ file[f].modified <= clock /\ file[f].modified >= scan.end - Window
      <4>1. file[f] \in FileType /\ file'[f] \in FileType /\ writer \in WriterType
        BY <1>t, <3>2 DEF TypeOK
      <4>2. QED
        BY <1>t, <3>1, <3>2, <4>1 DEF FileType, WriterType, Dated, Recent
    <3>4. ~Prune(f)
      <4>1. SUFFICES ASSUME Prune(f) PROVE FALSE
        OBVIOUS
      <4>2. file[f].modified < writer.cutoff /\ writer.cutoff <= clock - Retention
        BY <1>t, <4>1 DEF Prune, Expired, WriterShape
      <4>3. at[m] >= clock - Retention
        BY <2>2 DEF Kept
      <4>4. at[m] <= file[f].modified
        BY <1>t, <3>1, <3>2 DEF Dated
      <4>5. QED
        BY SMTT(30), <1>2, <3>3, <4>2, <4>3, <4>4
    <3>5. f \in Ahead' /\ m \in Stored(f)'
      BY <2>2, <3>1, <3>4, AheadStep
    <3>6. file'[f].modified = file[f].modified \/ file'[f].modified = clock
      BY <1>t, <3>2, FileEffect DEF Same, Written, Made
    <3>7. file'[f].modified >= scan.end - Window
      BY <1>2, <3>3, <3>6
    <3>8. Recent(f)'
      BY <3>7 DEF Recent
    <3>9. QED
      BY <2>2, <3>1, <3>5, <3>8 DEF Hears
  <2>3. QED
    BY <1>3, <2>0, <2>1, <2>2 DEF Hears
<1>4. \A l \in 1 .. Len(at) : l \in 1 .. Len(at')
  BY <1>1, <1>2
<1>5. \A k : Told(k) => Told(k)'
  BY <1>4 DEF Told, Account
<1>6. QED
  BY <1>3, <1>4, <1>5 DEF LabelInv

\* A scan that goes on to the next step, with the same files ahead.
LEMMA LabelKept ==
    ASSUME LabelInv, UNCHANGED <<storeVars, clock, at, labels>>, scan.pc \in Reading,
           scan'.pc \in Reading, scan'.end = scan.end, scan'.named = scan.named,
           scan'.read = scan.read, \A f \in Ahead : Recent(f) => f \in Ahead'
    PROVE  LabelInv'
<1>1. ASSUME NEW m, Hears(m) PROVE Hears(m)'
  <2>1. CASE Account(m) \in DOMAIN labels
    BY <2>1 DEF Hears, Account
  <2>2. CASE \E f \in Ahead \ scan.read : m \in Stored(f) /\ Recent(f)
    <3>1. PICK f \in Ahead \ scan.read : m \in Stored(f) /\ Recent(f)
      BY <2>2
    <3>2. f \in Ahead' /\ f \notin scan'.read
      BY <3>1
    <3>3. m \in Stored(f)' /\ Recent(f)'
      BY <3>1 DEF Stored, Recent, storeVars
    <3>4. QED
      BY <3>2, <3>3 DEF Hears
  <2>3. CASE ~Kept(m)
    BY <2>3 DEF Hears, Kept
  <2>4. QED
    BY <1>1, <2>1, <2>2, <2>3 DEF Hears
<1>2. \A k : Told(k) => Told(k)'
  BY DEF Told, Account
<1>3. scan'.pc # "off"
  BY DEF Reading
<1>4. QED
  BY <1>1, <1>2, <1>3 DEF LabelInv

\* A file that is read drops out, and the names in it are known.
LEMMA LabelRead ==
    ASSUME StoreInv, LabelInv, NEW f \in Files, NEW rest \in ScanType, Read(f, rest),
           UNCHANGED <<storeVars, clock, at>>, scan.pc = "read",
           rest.pc = "read", rest.end = scan.end, rest.named = scan.named, rest.read = scan.read,
           \A g \in Ahead : g = f \/ g \in Elems(rest.handles) \/ g \in rest.todo \cap archives
    PROVE  LabelInv'
<1>1. /\ scan'.pc = "read" /\ scan'.end = scan.end /\ scan'.named = scan.named
      /\ scan'.handles = rest.handles /\ scan'.todo = rest.todo
      /\ \/ Unix /\ f \in scan.read /\ scan'.read = scan.read /\ labels' = labels
         \/ ~(Unix /\ f \in scan.read) /\ scan'.read = scan.read \cup {f} /\ labels' = LabelsOf(f)
  BY DEF Read, ScanType
<1>2. PICK known : known = LabelsOf(f)
  OBVIOUS
<1>3. /\ DOMAIN labels \subseteq DOMAIN known
      /\ \A k \in DOMAIN labels : known[k] = labels[k]
      /\ \A m \in Stored(f) : Teaches(Entry[m]) => Account(m) \in DOMAIN known
      /\ \A k \in DOMAIN known \ DOMAIN labels :
            \E m \in Stored(f) : Teaches(Entry[m]) /\ Account(m) = k /\ known[k] = Entry[m].label
  BY <1>2, FileTeaches
<1>4. labels' = labels \/ labels' = known
  BY <1>1, <1>2
<1>5. \A k \in DOMAIN labels : k \in DOMAIN labels' /\ labels'[k] = labels[k]
  BY <1>3, <1>4
<1>6. Stored(f) \subseteq 1 .. Len(at)
  BY DEF StoreInv, Dated
<1>7. ASSUME NEW k \in DOMAIN labels', k \notin DOMAIN Configured PROVE Told(k)'
  <2>1. CASE k \in DOMAIN labels
    <3>1. PICK l \in 1 .. Len(at) : Teaches(Entry[l]) /\ Account(l) = k /\ labels[k] = Entry[l].label
      BY <1>7, <2>1 DEF LabelInv, Told
    <3>2. labels'[k] = labels[k]
      BY <1>5, <2>1
    <3>3. QED
      BY <3>1, <3>2 DEF Told, Account
  <2>2. CASE k \notin DOMAIN labels
    <3>1. labels' = known
      BY <1>4, <1>7, <2>2
    <3>2. PICK m \in Stored(f) : Teaches(Entry[m]) /\ Account(m) = k /\ known[k] = Entry[m].label
      BY <1>3, <1>7, <2>2, <3>1
    <3>3. QED
      BY <1>6, <3>1, <3>2 DEF Told, Account
  <2>3. QED
    BY <2>1, <2>2
<1>8. ASSUME NEW m \in scan.named PROVE Hears(m)'
  <2>1. Teaches(Entry[m]) /\ Hears(m)
    BY DEF LabelInv
  <2>2. CASE Account(m) \in DOMAIN labels
    BY <1>5, <2>2 DEF Hears, Account
  <2>3. CASE \E g \in Ahead \ scan.read : m \in Stored(g) /\ Recent(g)
    <3>1. PICK g \in Ahead \ scan.read : m \in Stored(g) /\ Recent(g)
      BY <2>3
    <3>2. CASE g = f
      <4>1. labels' = known
        BY <1>1, <1>2, <3>1, <3>2
      <4>2. Account(m) \in DOMAIN labels'
        BY <1>3, <2>1, <3>1, <3>2, <4>1
      <4>3. QED
        BY <4>2 DEF Hears, Account
    <3>3. CASE g # f
      <4>1. g \in Files
        BY <3>1 DEF Ahead
      <4>2. g \in Elems(rest.handles) \/ g \in rest.todo \cap archives
        BY <3>1, <3>3
      <4>3. g \in Ahead'
        BY <1>1, <4>1, <4>2 DEF Ahead, storeVars
      <4>4. g \notin scan'.read
        BY <1>1, <3>1, <3>3
      <4>5. m \in Stored(g)' /\ Recent(g)'
        BY <1>1, <3>1 DEF Stored, Recent, storeVars
      <4>6. QED
        BY <1>1, <4>3, <4>4, <4>5 DEF Hears, Reading
    <3>4. QED
      BY <3>2, <3>3
  <2>4. CASE ~Kept(m)
    BY <2>4 DEF Hears, Kept
  <2>5. QED
    BY <2>1, <2>2, <2>3, <2>4 DEF Hears
<1>9. scan'.pc # "off"
  BY <1>1
<1>10. \A k \in DOMAIN Configured : k \in DOMAIN labels' /\ labels'[k] = Configured[k]
  BY <1>5 DEF LabelInv
<1>11. \A m \in scan'.named : m \in 1 .. Len(at) /\ Teaches(Entry[m]) /\ Hears(m)'
  BY <1>1, <1>8 DEF LabelInv
<1>12. QED
  BY <1>7, <1>9, <1>10, <1>11 DEF LabelInv

LEMMA NoScanLabels ==
    ASSUME scan = NoScan, labels = Configured
    PROVE  LabelInv
<1>1. scan.pc = "off" /\ scan.named = {}
  BY DEF NoScan
<1>2. QED
  BY <1>1 DEF LabelInv

LEMMA ScanKeepsLabels ==
    ASSUME StoreInv, LabelInv, ScanStep
    PROVE  LabelInv'
<1>t. /\ TypeOK /\ scan \in ScanType /\ scan.handles \in Seq(Files)
      /\ live \in Files \cup {NoFile} /\ backup \in Files \cup {NoFile} /\ archives \subseteq Files
  BY DEF StoreInv, TypeOK, ScanType
<1>u. UNCHANGED <<storeVars, clock, at>>
  BY ScanLeavesStore
<1>1. CASE ScanBegin
  <2>1. /\ scan'.pc = "live" /\ scan'.end = clock /\ scan'.read = {} /\ labels' = Configured
        /\ scan'.named = {n \in UNION {Stored(f) : f \in {g \in Named : file[g].modified >= clock - Window}} :
                              Entry[n].id # "" /\ Entry[n].label # ""}
    BY <1>1 DEF ScanBegin, NoScan
  <2>2. ASSUME NEW m \in scan'.named
        PROVE  m \in 1 .. Len(at) /\ Teaches(Entry[m]) /\ Hears(m)'
    <3>1. PICK f \in Named : m \in Stored(f) /\ file[f].modified >= clock - Window
      BY <2>1
    <3>2. f \in Files /\ f \in Named'
      BY <1>t, <1>u, <3>1, NamedFiles DEF Named, storeVars
    <3>3. f \in Ahead' /\ f \notin scan'.read
      BY <2>1, <3>2 DEF Ahead
    <3>4. m \in Stored(f)' /\ Recent(f)'
      BY <1>u, <2>1, <3>1 DEF Stored, Recent, storeVars
    <3>5. Hears(m)'
      BY <2>1, <3>3, <3>4 DEF Hears, Reading
    <3>6. m \in 1 .. Len(at)
      BY <3>1, <3>2 DEF StoreInv, Dated
    <3>7. QED
      BY <2>1, <3>5, <3>6 DEF Teaches
  <2>3. QED
    BY <1>u, <2>1, <2>2 DEF LabelInv
<1>2. CASE ScanOpen(1)
  <2>1. /\ scan.pc = "live" /\ scan'.pc = "backup" /\ scan'.handles = scan.handles \o Handle(live)
        /\ scan'.end = scan.end /\ scan'.named = scan.named /\ scan'.read = scan.read
        /\ labels' = labels
    BY <1>t, <1>2 DEF ScanOpen, OpenOrder, ScanType
  <2>2. Elems(scan'.handles) = Elems(scan.handles) \cup ({live} \ {NoFile})
    BY <1>t, <2>1, HandleElems
  <2>3. Ahead \subseteq Ahead'
    BY <1>u, <2>1, <2>2 DEF Ahead, Named, storeVars
  <2>4. QED
    BY <1>u, <2>1, <2>3, LabelKept DEF Reading
<1>3. CASE ScanOpen(2)
  <2>1. /\ scan.pc = "backup" /\ scan'.pc = "list" /\ scan'.handles = scan.handles \o Handle(backup)
        /\ scan'.end = scan.end /\ scan'.named = scan.named /\ scan'.read = scan.read
        /\ labels' = labels
    BY <1>t, <1>3 DEF ScanOpen, OpenOrder, ScanType
  <2>2. Elems(scan'.handles) = Elems(scan.handles) \cup ({backup} \ {NoFile})
    BY <1>t, <2>1, HandleElems
  <2>3. Ahead \subseteq Ahead'
    BY <1>u, <2>1, <2>2, ConstantsAssumption DEF Ahead, storeVars
  <2>4. QED
    BY <1>u, <2>1, <2>3, LabelKept DEF Reading
<1>4. CASE ScanList
  <2>1. /\ scan.pc = "list" /\ scan'.pc = "read" /\ scan'.handles = scan.handles
        /\ scan'.todo = {f \in archives : file[f].modified >= scan.end - Window}
        /\ scan'.end = scan.end /\ scan'.named = scan.named /\ scan'.read = scan.read
        /\ labels' = labels
    BY <1>t, <1>4 DEF ScanList, ScanType
  <2>2. ASSUME NEW f \in Ahead, Recent(f)
        PROVE  f \in Ahead'
    <3>1. f \in Files
      BY DEF Ahead
    <3>2. CASE f \in Elems(scan.handles)
      BY <2>1, <3>1, <3>2 DEF Ahead
    <3>3. CASE f \in archives
      <4>1. f \in scan'.todo
        BY <2>1, <2>2, <3>3 DEF Recent
      <4>2. QED
        BY <1>u, <2>1, <3>1, <3>3, <4>1 DEF Ahead, storeVars
    <3>4. QED
      BY <2>1, <3>2, <3>3 DEF Ahead
  <2>3. QED
    BY <1>u, <2>1, <2>2, LabelKept DEF Reading
<1>5. CASE ScanRead
  <2> DEFINE rest == [scan EXCEPT !.handles = Tail(scan.handles)]
  <2>1. scan.pc = "read" /\ scan.handles # <<>> /\ Read(Head(scan.handles), rest)
    BY <1>5 DEF ScanRead
  <2>2. /\ Tail(scan.handles) \in Seq(Files)
        /\ Elems(scan.handles) = {Head(scan.handles)} \cup Elems(Tail(scan.handles))
    BY <1>t, <2>1, HeadTailElems
  <2>3. PICK f \in Files : f = Head(scan.handles)
    BY <1>t, <2>1
  <2>4. /\ rest \in ScanType /\ rest.pc = "read" /\ rest.end = scan.end /\ rest.named = scan.named
        /\ rest.read = scan.read
        /\ rest.handles = Tail(scan.handles) /\ rest.todo = scan.todo
    BY <1>t, <2>1, <2>2 DEF ScanType
  <2>5. Read(f, rest)
    BY <2>1, <2>3
  <2> HIDE DEF rest
  <2>6. \A g \in Ahead : g = f \/ g \in Elems(rest.handles) \/ g \in rest.todo \cap archives
    BY <2>1, <2>2, <2>3, <2>4 DEF Ahead
  <2>7. QED
    BY <1>u, <2>1, <2>4, <2>5, <2>6, LabelRead
<1>6. CASE \E f \in scan.todo : ScanArchive(f)
  <2>1. PICK f \in scan.todo : ScanArchive(f)
    BY <1>6
  <2>2. f \in Files
    BY <1>t DEF ScanType
  <2> DEFINE rest == [scan EXCEPT !.todo = scan.todo \ {f}]
  <2>3. /\ rest \in ScanType /\ rest.pc = scan.pc /\ rest.end = scan.end /\ rest.named = scan.named
        /\ rest.read = scan.read
        /\ rest.handles = scan.handles /\ rest.todo = scan.todo \ {f}
    BY <1>t DEF ScanType
  <2>4. /\ scan.pc = "read"
        /\ IF f \in archives THEN Read(f, rest) ELSE scan' = rest /\ labels' = labels
    BY <2>1 DEF ScanArchive
  <2> HIDE DEF rest
  <2>5. CASE f \in archives
    <3>1. \A g \in Ahead : g = f \/ g \in Elems(rest.handles) \/ g \in rest.todo \cap archives
      BY <2>3, <2>4 DEF Ahead
    <3>2. QED
      BY <1>u, <2>2, <2>3, <2>4, <2>5, <3>1, LabelRead
  <2>6. CASE f \notin archives
    <3>1. scan' = rest /\ labels' = labels
      BY <2>4, <2>6
    <3>2. Ahead \subseteq Ahead'
      BY <1>u, <2>3, <2>4, <2>6, <3>1 DEF Ahead, storeVars
    <3>3. QED
      BY <1>u, <2>3, <2>4, <3>1, <3>2, LabelKept DEF Reading
  <2>7. QED
    BY <2>5, <2>6
<1>7. CASE ScanEnds
  <2>1. /\ scan.pc = "read" /\ scan.handles = <<>> /\ scan.todo = {}
        /\ scan'.pc = "done" /\ scan'.named = scan.named /\ labels' = labels
    BY <1>t, <1>7 DEF ScanEnds, ScanType
  <2>2. Ahead = {}
    BY <2>1 DEF Ahead, Elems
  <2>3. \A m \in scan.named : Teaches(Entry[m]) /\ (~Kept(m) \/ Account(m) \in DOMAIN labels)
    BY <2>2 DEF LabelInv, Hears
  <2>4. \A m \in scan'.named : m \in 1 .. Len(at) /\ Teaches(Entry[m]) /\ Hears(m)'
    BY <1>u, <2>1, <2>3 DEF LabelInv, Hears, Account, Kept
  <2>5. \A k : Told(k) => Told(k)'
    BY <1>u, <2>1 DEF Told, Account
  <2>6. QED
    BY <1>u, <2>1, <2>4, <2>5 DEF LabelInv
<1>8. CASE ScanForget
  <2>1. scan'.pc = "off" /\ scan'.named = {} /\ labels' = Configured
    BY <1>8 DEF ScanForget, NoScan
  <2>2. QED
    BY <2>1 DEF LabelInv
<1>9. QED
  <2>1. (\E i \in 1 .. 2 : ScanOpen(i)) => ScanOpen(1) \/ ScanOpen(2)
    OBVIOUS
  <2>2. QED
    BY <1>1, <1>2, <1>3, <1>4, <1>5, <1>6, <1>7, <1>8, <2>1 DEF ScanStep

\* The account of a request that no key names gives it the name, if it has one.
LEMMA AccountNames ==
    ASSUME LabelInv, NEW n, OfAccountOnly(n), Account(n) \in DOMAIN labels
    PROVE  Name(n) = labels[Account(n)]
<1>1. PICK s, p, i : s = Service(Entry[n]) /\ p = Entry[n].provider /\ i = Entry[n].id
  OBVIOUS
<1>2. Account(n) = <<s, i>>
  BY <1>1 DEF Account
<1>3. i # "" /\ labels[<<s, i>>] # ""
  <2>1. CASE <<s, i>> \in DOMAIN Configured
    <3>1. <<s, i>>[2] # "" /\ Configured[<<s, i>>] # ""
      BY <2>1, ConfiguredAssumption
    <3>2. labels[<<s, i>>] = Configured[<<s, i>>]
      BY <2>1 DEF LabelInv
    <3>3. QED
      BY <3>1, <3>2
  <2>2. CASE <<s, i>> \notin DOMAIN Configured
    <3>1. Told(<<s, i>>)
      BY <1>2, <2>2 DEF LabelInv
    <3>2. PICK l \in 1 .. Len(at) : /\ Teaches(Entry[l]) /\ Account(l) = <<s, i>>
                                    /\ labels[<<s, i>>] = Entry[l].label
      BY <3>1 DEF Told
    <3>3. Entry[l].id = i
      BY <3>2 DEF Account
    <3>4. QED
      BY <3>2, <3>3 DEF Teaches
  <2>3. QED
    BY <2>1, <2>2
<1>4. ~(p # "" /\ <<s, p>> \in DOMAIN labels)
  <2>1. SUFFICES ASSUME p # "", <<s, p>> \in DOMAIN labels PROVE FALSE
    OBVIOUS
  <2>2. CASE <<s, p>> \in DOMAIN Configured
    <3>1. KeyOf(n) = Configured[<<s, p>>]
      BY <1>1, <2>1, <2>2, Zenon DEF KeyOf, Label
    <3>2. Configured[<<s, p>>] # ""
      BY <2>2, ConfiguredAssumption
    <3>3. QED
      BY <3>1, <3>2 DEF OfAccountOnly
  <2>3. CASE <<s, p>> \notin DOMAIN Configured
    <3>1. Told(<<s, p>>)
      BY <2>1, <2>3 DEF LabelInv
    <3>2. PICK l \in 1 .. Len(at) : Account(l) = <<s, p>>
      BY <3>1 DEF Told
    <3>3. QED
      BY <1>1, <2>1, <3>2 DEF OfAccountOnly
  <2>4. QED
    BY <2>2, <2>3
<1>5. Label(labels, s, p) = "" /\ Label(labels, s, i) = labels[<<s, i>>]
  BY <1>2, <1>3, <1>4, Zenon DEF Label
<1>6. Name(n) = Or(Label(labels, s, p),
                Or(Label(labels, s, i),
                Or(Entry[n].label, Or(FallbackName(p), Or(i, "Unidentified")))))
  BY <1>1, Zenon DEF Name, Credential
<1>7. \A x, y : x # "" => Or("", Or(x, y)) = x
  BY DEF Or
<1>8. Name(n) = Or("", Or(labels[<<s, i>>],
                Or(Entry[n].label, Or(FallbackName(p), Or(i, "Unidentified")))))
  BY <1>5, <1>6, Zenon
<1>9. Name(n) = labels[<<s, i>>]
  BY <1>3, <1>7, <1>8, Zenon
<1>10. QED
  BY <1>2, <1>9

LEMMA KeyNames ==
    ASSUME LabelInv, NEW n, KeyOf(n) # ""
    PROVE  Name(n) = KeyOf(n)
<1>1. PICK s, p, i : s = Service(Entry[n]) /\ p = Entry[n].provider /\ i = Entry[n].id
  OBVIOUS
<1>2. p # "" /\ <<s, p>> \in DOMAIN Configured /\ KeyOf(n) = Configured[<<s, p>>]
  BY <1>1, Zenon DEF KeyOf, Label
<1>3. Label(labels, s, p) = KeyOf(n)
  <2>1. <<s, p>> \in DOMAIN labels /\ labels[<<s, p>>] = KeyOf(n)
    BY <1>2 DEF LabelInv
  <2>2. QED
    BY <1>2, <2>1, Zenon DEF Label
<1>4. Name(n) = Or(Label(labels, s, p),
                Or(Label(labels, s, i),
                Or(Entry[n].label, Or(FallbackName(p), Or(i, "Unidentified")))))
  BY <1>1, Zenon DEF Name, Credential
<1>5. \A x, y : x # "" => Or(x, y) = x
  BY DEF Or
<1>6. QED
  BY <1>3, <1>4, <1>5

LEMMA NamedAlike == LabelInv => OneName
<1>1. SUFFICES ASSUME LabelInv, scan.pc = "done", NEW n \in Counted
               PROVE  /\ KeyOf(n) # "" => Name(n) = KeyOf(n)
                      /\ OfAccountOnly(n) /\ Account(n) \in DOMAIN Configured
                            => Name(n) = Configured[Account(n)]
                      /\ OfAccountOnly(n) /\ Account(n) \notin DOMAIN Configured =>
                          \A m \in scan.named : Kept(m) /\ Account(m) = Account(n) =>
                              /\ \E l \in 1 .. Len(at) : Account(l) = Account(n) /\ Name(n) = Entry[l].label
                              /\ \A o \in Counted :
                                    OfAccountOnly(o) /\ Account(o) = Account(n)
                                        => Group(Entry[o], labels) = Group(Entry[n], labels)
  BY Zenon DEF OneName
<1>2. KeyOf(n) # "" => Name(n) = KeyOf(n)
  BY <1>1, KeyNames
<1>3. ASSUME OfAccountOnly(n), Account(n) \in DOMAIN Configured
      PROVE  Name(n) = Configured[Account(n)]
  <2>1. Account(n) \in DOMAIN labels /\ labels[Account(n)] = Configured[Account(n)]
    BY <1>1, <1>3 DEF LabelInv
  <2>2. QED
    BY <1>1, <1>3, <2>1, AccountNames
<1>4. ASSUME OfAccountOnly(n), Account(n) \notin DOMAIN Configured,
             NEW m \in scan.named, Kept(m), Account(m) = Account(n)
      PROVE  /\ \E l \in 1 .. Len(at) : Account(l) = Account(n) /\ Name(n) = Entry[l].label
             /\ \A o \in Counted :
                   OfAccountOnly(o) /\ Account(o) = Account(n)
                       => Group(Entry[o], labels) = Group(Entry[n], labels)
  <2>1. Account(n) \in DOMAIN labels
    BY <1>1, <1>4 DEF LabelInv, Hears, Reading
  <2>2. Name(n) = labels[Account(n)]
    BY <1>1, <1>4, <2>1, AccountNames
  <2>3. PICK l \in 1 .. Len(at) : Account(l) = Account(n) /\ labels[Account(n)] = Entry[l].label
    BY <1>1, <1>4, <2>1 DEF LabelInv, Told
  <2>4. ASSUME NEW o \in Counted, OfAccountOnly(o), Account(o) = Account(n)
        PROVE  Group(Entry[o], labels) = Group(Entry[n], labels)
    <3>1. Name(o) = Name(n)
      BY <1>1, <2>1, <2>2, <2>4, AccountNames
    <3>2. Service(Entry[o]) = Service(Entry[n])
      BY <2>4 DEF Account
    <3>3. QED
      BY <3>1, <3>2, Zenon DEF Group, Name
  <2>5. QED
    BY <2>2, <2>3, <2>4
<1>5. QED
  BY <1>2, <1>3, <1>4

LEMMA LabelInductive == Spec => []LabelInv
<1>1. Init => LabelInv
  BY NoScanLabels DEF Init
<1>2. StoreInv /\ StoreInv' /\ ScanInv /\ LabelInv /\ [Next]_vars => LabelInv'
  <2>1. SUFFICES ASSUME StoreInv, StoreInv', ScanInv, LabelInv, [Next]_vars PROVE LabelInv'
    OBVIOUS
  <2>2. TypeOK'
    BY <2>1 DEF StoreInv
  <2>3. CASE ScanStep
    BY <2>1, <2>3, ScanKeepsLabels
  <2>4. CASE scan' = scan /\ labels' = labels
    BY <2>1, <2>2, <2>4, LabelStays
  <2>5. QED
    <3>1. CASE LoggerStep
      BY <2>4, <3>1 DEF LoggerStep, Stamp, Take, Archive, Shift, RotateFails, Prune, PruneEnds, Open,
                  OpenFails, Write, WriteFails, Start, Crash
    <3>2. QED
      BY <2>1, <2>3, <2>4, <3>1 DEF Next, Import, Tick, vars
<1>3. QED
  BY StoreInductive, ScanInductive, <1>1, <1>2, PTL DEF Spec

\* For any number of files and lines and whatever they say, in whichever order
\* they are read: all requests of an account stand under one name, its
\* configured one or one that a retained line gave it.
THEOREM CountedUnderOneName == Spec => []OneName
<1>1. LabelInv => OneName
  BY NamedAlike
<1>2. QED
  BY LabelInductive, <1>1, PTL

-----------------------------------------------------------------------------
(* One log, asked at once *)

\* A line is written once, and only what was stored can be read.
OnceInv ==
    /\ waiting \cap stored = {} /\ writer.line \notin stored \cup waiting
    /\ \A f \in Files : Stored(f) \subseteq stored

\* What a scan counts was stored and belongs to its window.
SoundInv ==
    \A n \in 1 .. MaxEvents :
        scan.counted[n] > 0 => n \in stored /\ InWindow(n) /\ IsRequestEnd(Entry[n])

Filled(f) == /\ f = writer.handle /\ stored' = stored \cup {writer.line}
             /\ Stored(f)' = Stored(f) \cup {writer.line}
             /\ \A g \in Files \ {f} : Stored(g)' = Stored(g)

Fills == Write /\ writer.line # 0 /\ \E f \in Files : Filled(f)

\* The file f is made, empty or as a copy of the backup.
Copied(f) == f \in Free /\ (Stored(f)' = {} \/ (backup \in Files /\ Stored(f)' = Stored(backup)))

Moves == stored' = stored /\ \A f \in Files : Stored(f)' = Stored(f) \/ Copied(f)

LEMMA Contents ==
    ASSUME TypeOK, [Next]_vars
    PROVE  Fills \/ Moves
<1>1. ASSUME UNCHANGED <<file, stored>> PROVE Moves
  BY <1>1 DEF Moves, Stored
<1>2. ASSUME NEW g \in Files, Tear(g), stored' = stored PROVE Moves
  <2>1. Stored(g)' = Stored(g) /\ \A h \in Files \ {g} : file'[h] = file[h]
    BY <1>2, TearStored
  <2>2. ASSUME NEW h \in Files, h # g PROVE Stored(h)' = Stored(h)
    <3>1. file'[h] = file[h]
      BY <2>1, <2>2
    <3>2. QED
      BY <3>1 DEF Stored
  <2>3. \A h \in Files : Stored(h)' = Stored(h)
    BY <2>1, <2>2
  <2>4. QED
    BY <1>2, <2>3 DEF Moves
<1>3. CASE Archive
  <2>1. CASE backup = NoFile
    BY <1>1, <1>3, <2>1 DEF Archive, storeVars
  <2>2. CASE backup # NoFile
    <3>1. file' = [file EXCEPT ![backup].archived = clock] /\ stored' = stored
      BY <1>3, <2>2 DEF Archive
    <3>2. \A f \in Files : file'[f].lines = file[f].lines
      BY <3>1 DEF TypeOK, FileType
    <3>3. QED
      BY <3>1, <3>2 DEF Moves, Stored
  <2>3. QED
    BY <2>1, <2>2
<1>4. CASE Open
  <2>1. stored' = stored
    BY <1>4 DEF Open
  <2>2. CASE \E g \in Free : file' = [file EXCEPT ![g] = Empty]
    <3>1. PICK g \in Free : file' = [file EXCEPT ![g] = Empty]
      BY <2>2
    <3>2. ASSUME NEW f \in Files PROVE Stored(f)' = Stored(f) \/ Copied(f)
      <4>1. CASE f = g
        <5>1. file'[f] = Empty
          BY <3>1, <4>1 DEF TypeOK
        <5>2. Stored(f)' = {}
          BY <5>1 DEF Stored, Empty
        <5>3. QED
          BY <4>1, <5>2 DEF Copied
      <4>2. CASE f # g
        BY <3>1, <4>2 DEF TypeOK, Stored
      <4>3. QED
        BY <4>1, <4>2
    <3>3. QED
      BY <2>1, <3>2 DEF Moves
  <2>3. QED
    BY <1>1, <1>4, <2>1, <2>2 DEF Open
<1>5. CASE Import
  <2>1. PICK g \in Free : file' = [file EXCEPT ![g] = [lines |-> file[backup].lines, torn |-> FALSE,
                                                       modified |-> clock, archived |-> Never]]
    BY <1>5, ImportFile
  <2>2. stored' = stored /\ backup \in Files
    BY <1>5 DEF Import, TypeOK
  <2>3. ASSUME NEW f \in Files PROVE Stored(f)' = Stored(f) \/ Copied(f)
    <3>1. CASE f = g
      <4>1. file'[f] = [lines |-> file[backup].lines, torn |-> FALSE, modified |-> clock, archived |-> Never]
        BY <2>1, <3>1 DEF TypeOK
      <4>2. Stored(f)' = Stored(backup)
        BY <4>1 DEF Stored
      <4>3. QED
        BY <2>2, <3>1, <4>2 DEF Copied
    <3>2. CASE f # g
      BY <2>1, <3>2 DEF TypeOK, Stored
    <3>3. QED
      BY <3>1, <3>2
  <2>4. QED
    BY <2>2, <2>3 DEF Moves
<1>6. CASE Write
  <2>1. CASE writer.handle = NoFile \/ writer.line = 0
    BY <1>1, <1>6, <2>1 DEF Write
  <2>2. CASE writer.handle # NoFile /\ writer.line # 0
    <3>1. PICK g \in Files : g = writer.handle
      BY <2>2 DEF TypeOK, WriterType
    <3>2. PICK lines \in Seq(Lines) :
             /\ Leaves(g, lines, FALSE)
             /\ \/ lines = file[g].lines /\ stored' = stored
                \/ /\ lines = Append(file[g].lines, writer.line)
                   /\ stored' = stored \cup {writer.line}
      BY <1>6, <2>2, <3>1, WriteFile
    <3>3. /\ Stored(g)' = Elems(lines) \ {0}
          /\ \A h \in Files \ {g} : file'[h] = file[h]
      BY <3>2, LeavesStored
    <3>4. Stored(g) = Elems(file[g].lines) \ {0}
      BY DEF Stored, Elems
    <3>5. \A h \in Files \ {g} : Stored(h)' = Stored(h)
      BY <3>3 DEF Stored
    <3>6. CASE lines = file[g].lines /\ stored' = stored
      BY <3>3, <3>4, <3>5, <3>6 DEF Moves
    <3>7. CASE lines = Append(file[g].lines, writer.line) /\ stored' = stored \cup {writer.line}
      <4>1. writer.line \in Lines /\ file[g].lines \in Seq(Lines)
        BY DEF TypeOK, WriterType, FileType
      <4>2. Elems(lines) = Elems(file[g].lines) \cup {writer.line}
        BY <3>7, <4>1, ElemsAppend
      <4>3. Stored(g)' = Stored(g) \cup {writer.line}
        BY <2>2, <3>3, <3>4, <4>2
      <4>4. QED
        BY <1>6, <2>2, <3>1, <3>5, <3>7, <4>3 DEF Fills, Filled
    <3>8. QED
      BY <3>2, <3>6, <3>7
  <2>3. QED
    BY <2>1, <2>2
<1>7. CASE WriteFails
  BY <1>1, <1>2, <1>7 DEF WriteFails, TypeOK, WriterType
<1>8. CASE Crash
  BY <1>1, <1>2, <1>8 DEF Crash, TypeOK, WriterType
<1>9. CASE ScanStep
  BY <1>1, <1>9, ScanLeavesStore DEF storeVars
<1>10. CASE Stamp \/ (\E n \in waiting : Take(n)) \/ Shift \/ RotateFails
            \/ (\E g \in archives : Prune(g)) \/ PruneEnds \/ OpenFails \/ Start \/ Tick
  BY <1>1, <1>10 DEF Stamp, Take, Shift, RotateFails, Prune, PruneEnds, OpenFails, Start, Tick, storeVars
<1>11. CASE UNCHANGED vars
  BY <1>1, <1>11 DEF vars
<1>12. QED
  BY <1>3, <1>4, <1>5, <1>6, <1>7, <1>8, <1>9, <1>10, <1>11 DEF Next, LoggerStep

LEMMA InitOnce == Init => OnceInv /\ SoundInv
<1> SUFFICES ASSUME Init PROVE OnceInv /\ SoundInv
  OBVIOUS
<1>1. \A f \in Files : Stored(f) = {}
  <2>1. \A f \in Files : file[f].lines = <<>>
    BY DEF Init, Empty
  <2>2. QED
    BY <2>1 DEF Stored
<1>2. \A n \in 1 .. MaxEvents : scan.counted[n] = 0
  BY DEF Init, NoScan
<1>3. QED
  BY <1>1, <1>2 DEF Init, OnceInv, SoundInv

LEMMA OnceStep ==
    ASSUME StoreInv, OnceInv, [Next]_vars
    PROVE  OnceInv'
<1>t. /\ TypeOK /\ Dated /\ writer \in WriterType /\ Len(at) \in Nat
  <2>1. at \in Seq(0 .. MaxTime)
    BY DEF StoreInv, TypeOK
  <2>2. QED
    BY <2>1 DEF StoreInv, TypeOK
<1>1. 0 \notin stored /\ 0 \notin waiting /\ Len(at) + 1 \notin stored /\ Len(at) + 1 \notin waiting
      /\ writer.line # Len(at) + 1
  BY <1>t DEF Dated, WriterType, Lines
<1>2. /\ waiting' \cap stored' = {} /\ writer'.line \notin stored' \cup waiting'
  <2>1. CASE Fills
    <3>1. writer'.line = 0 /\ waiting' = waiting /\ stored' = stored \cup {writer.line} /\ writer.line # 0
      BY <1>t, <2>1 DEF Fills, Filled, Write, WriterType
    <3>2. QED
      BY <1>1, <3>1 DEF OnceInv
  <2>2. CASE stored' = stored
    <3>1. CASE Stamp
      <4>1. waiting' = waiting \cup {Len(at) + 1} /\ writer' = writer
        BY <3>1 DEF Stamp
      <4>2. QED
        BY <1>1, <2>2, <4>1 DEF OnceInv
    <3>2. CASE \E n \in waiting : Take(n)
      <4>1. PICK n \in waiting : Take(n)
        BY <3>2
      <4>2. waiting' = waiting \ {n} /\ writer'.line = n
        BY <1>t, <4>1 DEF Take, WriterType
      <4>3. QED
        BY <2>2, <4>2 DEF OnceInv
    <3>3. CASE waiting' \subseteq waiting /\ writer'.line \in {0, writer.line}
      BY <1>1, <2>2, <3>3 DEF OnceInv
    <3>4. CASE Write \/ WriteFails \/ Crash
      <4>1. waiting' \subseteq waiting /\ writer'.line = 0
        BY <1>t, <3>4 DEF Write, WriteFails, Crash, WriterType
      <4>2. QED
        BY <3>3, <4>1
    <3>5. CASE Archive \/ Shift \/ RotateFails \/ (\E f \in archives : Prune(f)) \/ PruneEnds \/ Open
               \/ OpenFails \/ Start
      <4>1. waiting' = waiting /\ writer'.line = writer.line
        BY <1>t, <3>5 DEF Archive, Shift, RotateFails, Prune, PruneEnds, Open, OpenFails, Start, WriterType
      <4>2. QED
        BY <3>3, <4>1
    <3>6. CASE ScanStep
      BY <3>3, <3>6, ScanLeavesStore
    <3>7. CASE Import \/ Tick \/ UNCHANGED vars
      BY <3>3, <3>7 DEF Import, Tick, vars
    <3>8. QED
      BY <3>1, <3>2, <3>4, <3>5, <3>6, <3>7 DEF Next, LoggerStep
  <2>3. QED
    BY <1>t, <2>1, <2>2, Contents DEF Moves
<1>3. \A f \in Files : Stored(f)' \subseteq stored'
  <2>1. CASE Fills
    <3>1. PICK g \in Files : Filled(g)
      BY <2>1 DEF Fills
    <3>2. ASSUME NEW f \in Files PROVE Stored(f)' \subseteq stored'
      BY <3>1 DEF Filled, OnceInv
    <3>3. QED
      BY <3>2
  <2>2. CASE Moves
    BY <2>2 DEF Moves, Copied, OnceInv
  <2>3. QED
    BY <1>t, <2>1, <2>2, Contents
<1>4. QED
  BY <1>2, <1>3 DEF OnceInv

\* A file gets a name when it is made, and holds nothing that is not in the log.
LEMMA NewNames ==
    ASSUME TypeOK, [Next]_vars, NEW f \in Named', f \notin Named
    PROVE  f \in Files /\ Stored(f)' \subseteq InStore
<1>1. CASE Open
  <2>1. Named' \subseteq Named \cup {live'}
    BY <1>1 DEF Open, Named
  <2>2. CASE live' = live
    <3>1. Named' = Named
      BY <1>1, <2>2 DEF Open, Named
    <3>2. QED
      BY <3>1
  <2>3. CASE \E g \in Free : live' = g /\ file' = [file EXCEPT ![g] = Empty]
    <3>1. PICK g \in Free : live' = g /\ file' = [file EXCEPT ![g] = Empty]
      BY <2>3
    <3>2. f = g /\ g \in Files
      BY <2>1, <3>1 DEF Free
    <3>3. file'[f] = Empty
      BY <3>1, <3>2 DEF TypeOK
    <3>4. Stored(f)' = {}
      BY <3>3 DEF Stored, Empty
    <3>5. QED
      BY <3>2, <3>4
  <2>4. QED
    BY <1>1, <2>2, <2>3 DEF Open
<1>2. CASE Import
  <2>1. PICK g \in Free : /\ archives' = archives \cup {g}
                          /\ file' = [file EXCEPT ![g] = [lines |-> file[backup].lines, torn |-> FALSE,
                                                          modified |-> clock, archived |-> Never]]
    BY <1>2, ImportFile
  <2>2. f = g /\ g \in Files
    BY <1>2, <2>1 DEF Import, Named, Free
  <2>3. file'[f] = [lines |-> file[backup].lines, torn |-> FALSE, modified |-> clock, archived |-> Never]
    BY <2>1, <2>2 DEF TypeOK
  <2>4. Stored(f)' = Stored(backup)
    BY <2>3 DEF Stored
  <2>5. backup \in Named
    BY <1>2 DEF Import, Named
  <2>6. QED
    BY <2>2, <2>4, <2>5 DEF InStore
<1>3. CASE Archive
  <2>1. Named' \subseteq Named
    BY <1>3 DEF Archive, Named, storeVars
  <2>2. QED
    BY <2>1
<1>4. CASE Shift
  <2>1. Named' \subseteq Named
    BY <1>4 DEF Shift, Named
  <2>2. QED
    BY <2>1
<1>5. CASE \E g \in archives : Prune(g)
  <2>1. Named' \subseteq Named
    BY <1>5 DEF Prune, Named
  <2>2. QED
    BY <2>1
<1>6. CASE UNCHANGED <<live, backup, archives>>
  BY <1>6 DEF Named
<1>7. QED
  <2>1. CASE ScanStep
    BY <1>6, <2>1, ScanLeavesStore DEF storeVars
  <2>2. QED
    BY <1>1, <1>2, <1>3, <1>4, <1>5, <1>6, <2>1
       DEF Next, LoggerStep, Stamp, Take, RotateFails, PruneEnds, OpenFails, Write, WriteFails, Start,
           Crash, Tick, vars, storeVars

LogStays == UNCHANGED <<clock, at, stored, InStore>>

LogFilled(n) == /\ n \in 1 .. Len(at) \ stored /\ stored' = stored \cup {n} /\ InStore' = InStore \cup {n}
                /\ UNCHANGED <<clock, at>>

LogCut(old) == /\ old \subseteq InStore /\ (\A n \in old : at[n] < clock - Retention)
               /\ InStore' = InStore \ old /\ UNCHANGED <<clock, at, stored>>

\* However files are renamed, made and copied, the lines in them stay the same.
LEMMA LogKept ==
    ASSUME StoreInv, [Next]_vars, Moves, ~\E f \in archives : Prune(f)
    PROVE  InStore' = InStore
<1>t. TypeOK /\ \A f : ~Prune(f)
  BY DEF StoreInv, Prune
<1>1. ASSUME NEW n \in InStore PROVE n \in InStore'
  <2>1. PICK f \in Named : n \in Stored(f)
    BY DEF InStore
  <2>2. f \in Named' /\ n \in Stored(f)'
    BY <1>t, <2>1, NamedStep
  <2>3. QED
    BY <2>2 DEF InStore
<1>2. ASSUME NEW n \in InStore' PROVE n \in InStore
  <2>1. PICK f \in Named' : n \in Stored(f)'
    BY DEF InStore
  <2>2. CASE f \in Named
    <3>1. f \in Files /\ f \notin Free
      BY <1>t, <2>2, NamedFiles DEF Free
    <3>2. Stored(f)' = Stored(f)
      BY <3>1 DEF Moves, Copied
    <3>3. QED
      BY <2>1, <2>2, <3>2 DEF InStore
  <2>3. CASE f \notin Named
    BY <1>t, <2>1, <2>3, NewNames
  <2>4. QED
    BY <2>2, <2>3
<1>3. QED
  BY <1>1, <1>2

LEMMA LogPruned ==
    ASSUME StoreInv, NEW f \in archives, Prune(f)
    PROVE  \E old : LogCut(old)
<1>t. /\ TypeOK /\ Dated /\ WriterShape /\ f \in Files /\ writer \in WriterType
      /\ clock \in Nat /\ Retention \in Nat
  <2>1. clock \in 0 .. MaxTime /\ Retention \in Nat
    BY ConstantsAssumption DEF StoreInv, TypeOK
  <2>2. QED
    BY <2>1 DEF StoreInv, TypeOK
<1>1. /\ UNCHANGED <<live, backup, file, clock, at, stored>> /\ archives' = archives \ {f}
      /\ file[f].modified < writer.cutoff /\ writer.cutoff <= clock - Retention
  BY <1>t DEF Prune, Expired, WriterShape
<1>2. \A g : Stored(g)' = Stored(g)
  BY <1>1 DEF Stored
<1>3. Named' \subseteq Named /\ Named \subseteq Named' \cup {f}
  BY <1>1 DEF Named
<1>4. PICK old : old = InStore \ InStore'
  OBVIOUS
<1>5. InStore' \subseteq InStore
  BY <1>2, <1>3 DEF InStore
<1>6. ASSUME NEW n \in old PROVE at[n] < clock - Retention
  <2>1. PICK g \in Named : n \in Stored(g)
    BY <1>4 DEF InStore
  <2>2. g = f
    BY <1>2, <1>3, <1>4, <2>1 DEF InStore
  <2>3. n \in 1 .. Len(at) /\ at[n] <= file[f].modified
    BY <1>t, <2>1, <2>2 DEF Dated
  <2>4. at[n] \in Int /\ file[f].modified \in Int /\ writer.cutoff \in Int
    <3>1. at \in Seq(0 .. MaxTime) /\ file[f] \in FileType
      BY <1>t DEF TypeOK
    <3>2. at[n] \in 0 .. MaxTime
      BY <2>3, <3>1, ElementOfSeq
    <3>3. QED
      BY <1>t, <3>1, <3>2 DEF FileType, WriterType
  <2>5. QED
    BY <1>1, <1>t, <2>3, <2>4
<1>7. LogCut(old)
  BY <1>1, <1>4, <1>5, <1>6 DEF LogCut
<1>8. QED
  BY <1>7

LEMMA LogWritten ==
    ASSUME StoreInv, OnceInv, [Next]_vars, Fills
    PROVE  LogFilled(writer.line)
<1>t. TypeOK /\ Dated /\ writer.line \in Nat /\ Len(at) \in Nat
  <2>1. at \in Seq(0 .. MaxTime) /\ writer \in WriterType
    BY DEF StoreInv, TypeOK
  <2>2. QED
    BY <2>1, ConstantsAssumption DEF StoreInv, WriterType, Lines
<1>1. PICK f \in Files : Filled(f)
  BY DEF Fills
<1>2. UNCHANGED <<live, backup, archives, clock, at>> /\ writer.line # 0
  BY DEF Fills, Write
<1>3. f \in Named
  <2>1. f = live /\ f # NoFile
    BY <1>1, ConstantsAssumption DEF Filled, StoreInv, AppendsToLive
  <2>2. QED
    BY <2>1 DEF Named
<1>4. Named' = Named /\ Named \subseteq Files
  BY <1>t, <1>2, NamedFiles DEF Named
<1>5. \A g \in Named : Stored(g)' = IF g = f THEN Stored(g) \cup {writer.line} ELSE Stored(g)
  BY <1>1, <1>4 DEF Filled
<1>6. InStore' = InStore \cup {writer.line}
  <2>1. ASSUME NEW n PROVE n \in InStore' <=> n \in InStore \cup {writer.line}
    <3>1. n \in InStore' <=> \E g \in Named : n \in Stored(g)'
      BY <1>4 DEF InStore
    <3>2. n \in InStore <=> \E g \in Named : n \in Stored(g)
      BY DEF InStore
    <3>3. QED
      BY <1>3, <1>5, <3>1, <3>2
  <2>2. QED
    BY <2>1
<1>7. writer.line \in 1 .. Len(at) /\ writer.line \notin stored
  BY <1>t, <1>2 DEF Dated, OnceInv
<1>8. QED
  BY <1>1, <1>2, <1>6, <1>7 DEF LogFilled, Filled

\* Whatever the logger, an import or the clock does is one of a few things to the log.
LEMMA LogSteps ==
    ASSUME StoreInv, OnceInv, [Next]_vars, ~ScanStep
    PROVE  \/ LogStays
           \/ Stamp /\ UNCHANGED InStore
           \/ Tick /\ UNCHANGED InStore
           \/ \E n : LogFilled(n)
           \/ \E old : LogCut(old)
<1>1. CASE Fills
  BY <1>1, LogWritten
<1>2. CASE \E f \in archives : Prune(f)
  BY <1>2, LogPruned
<1>3. CASE Moves /\ ~\E f \in archives : Prune(f)
  <2>1. InStore' = InStore /\ stored' = stored
    BY <1>3, LogKept DEF Moves
  <2>2. CASE Stamp \/ Tick
    BY <2>1, <2>2
  <2>3. CASE UNCHANGED <<clock, at>>
    BY <2>1, <2>3 DEF LogStays
  <2>4. QED
    BY <1>3, <2>2, <2>3
       DEF Next, LoggerStep, Take, Archive, Shift, RotateFails, PruneEnds, Open, OpenFails, Write,
           WriteFails, Start, Crash, Import, vars
<1>4. QED
  BY <1>1, <1>2, <1>3, Contents DEF StoreInv

LEMMA SoundStays ==
    ASSUME StoreInv, SoundInv, TypeOK', [Next]_vars, scan' = scan
    PROVE  SoundInv'
<1>1. \A n \in 1 .. Len(at) : at'[n] = at[n]
  BY TimeStep DEF StoreInv, Dated
<1>2. stored \subseteq stored' /\ stored \subseteq 1 .. Len(at)
  <2>1. TypeOK
    BY DEF StoreInv
  <2>2. QED
    BY <2>1, Contents DEF Fills, Filled, Moves, StoreInv, Dated
<1>3. QED
  BY <1>1, <1>2 DEF SoundInv, InWindow

\* What a step of a scan leaves, and which lines it adds to those it has counted.
LEMMA SoundCounts ==
    ASSUME StoreInv, OnceInv, SoundInv, UNCHANGED <<at, stored>>, scan'.end = scan.end,
           \/ scan'.counted = scan.counted
           \/ \E f \in Files : scan'.counted = Count(Fresh(f))
    PROVE  SoundInv'
<1>1. ASSUME NEW n \in 1 .. MaxEvents, scan'.counted[n] > 0
      PROVE  n \in stored /\ InWindow(n) /\ IsRequestEnd(Entry[n])
  <2>1. CASE scan'.counted = scan.counted
    BY <1>1, <2>1 DEF SoundInv
  <2>2. CASE \E f \in Files : scan'.counted = Count(Fresh(f))
    <3>1. PICK f \in Files : scan'.counted = Count(Fresh(f))
      BY <2>2
    <3>2. scan'.counted[n] = scan.counted[n] + (IF n \in Fresh(f) THEN 1 ELSE 0)
      BY <3>1 DEF Count
    <3>3. CASE n \in Fresh(f)
      BY <3>3 DEF Fresh, OnceInv
    <3>4. CASE n \notin Fresh(f)
      <4>1. scan.counted \in [1 .. MaxEvents -> Nat]
        BY DEF StoreInv, TypeOK, ScanType
      <4>2. scan.counted[n] \in Nat /\ scan'.counted[n] = scan.counted[n] + 0
        BY <3>2, <3>4, <4>1
      <4>3. scan.counted[n] > 0
        BY <1>1, <4>2
      <4>4. QED
        BY <4>3 DEF SoundInv
    <3>5. QED
      BY <3>3, <3>4
  <2>3. QED
    BY <2>1, <2>2
<1>2. \A n : InWindow(n) => InWindow(n)'
  BY DEF InWindow
<1>3. QED
  BY <1>1, <1>2 DEF SoundInv

\* The steps of a scan between its begin and its end.
ScanGoesOn ==
    /\ scan.pc \in Reading /\ scan'.pc \in Reading /\ scan'.end = scan.end /\ scan'.due = scan.due
    /\ \/ scan'.counted = scan.counted
       \/ \E f \in Files : scan'.counted = Count(Fresh(f))

LEMMA ReadGoesOn ==
    ASSUME NEW f \in Files, NEW rest \in ScanType, Read(f, rest), scan.pc = "read",
           rest.pc = "read", rest.end = scan.end, rest.due = scan.due, rest.counted = scan.counted
    PROVE  ScanGoesOn
BY DEF Read, ScanType, ScanGoesOn, Reading

LEMMA ScanKinds ==
    ASSUME TypeOK, ScanStep
    PROVE  ScanBegin \/ ScanGoesOn \/ ScanEnds \/ ScanForget
<1>t. scan \in ScanType /\ scan.handles \in Seq(Files)
  BY DEF TypeOK, ScanType
<1>1. ASSUME NEW i \in 1 .. 2, ScanOpen(i) PROVE ScanGoesOn
  <2>1. /\ scan.pc \in {"live", "backup"} /\ scan'.pc \in {"backup", "list"}
        /\ scan'.end = scan.end /\ scan'.due = scan.due /\ scan'.counted = scan.counted
    BY <1>t, <1>1 DEF ScanOpen, ScanType
  <2>2. QED
    BY <2>1 DEF ScanGoesOn, Reading
<1>2. CASE ScanList
  <2>1. /\ scan.pc = "list" /\ scan'.pc = "read"
        /\ scan'.end = scan.end /\ scan'.due = scan.due /\ scan'.counted = scan.counted
    BY <1>t, <1>2 DEF ScanList, ScanType
  <2>2. QED
    BY <2>1 DEF ScanGoesOn, Reading
<1>3. CASE ScanRead
  <2> DEFINE rest == [scan EXCEPT !.handles = Tail(scan.handles)]
  <2>1. scan.pc = "read" /\ scan.handles # <<>> /\ Read(Head(scan.handles), rest)
    BY <1>3 DEF ScanRead
  <2>2. Tail(scan.handles) \in Seq(Files) /\ Head(scan.handles) \in Files
    BY <1>t, <2>1, HeadTailElems
  <2>3. PICK f \in Files : f = Head(scan.handles)
    BY <2>2
  <2>4. /\ rest \in ScanType /\ rest.pc = "read" /\ rest.end = scan.end /\ rest.due = scan.due
        /\ rest.counted = scan.counted
    BY <1>t, <2>1, <2>2 DEF ScanType
  <2>5. Read(f, rest)
    BY <2>1, <2>3
  <2> HIDE DEF rest
  <2>6. QED
    BY <2>1, <2>4, <2>5, ReadGoesOn
<1>4. CASE \E f \in scan.todo : ScanArchive(f)
  <2>1. PICK f \in scan.todo : ScanArchive(f)
    BY <1>4
  <2>2. f \in Files
    BY <1>t DEF ScanType
  <2> DEFINE rest == [scan EXCEPT !.todo = scan.todo \ {f}]
  <2>3. /\ scan.pc = "read"
        /\ IF f \in archives THEN Read(f, rest) ELSE scan' = rest /\ labels' = labels
    BY <2>1 DEF ScanArchive
  <2>4. /\ rest \in ScanType /\ rest.pc = "read" /\ rest.end = scan.end /\ rest.due = scan.due
        /\ rest.counted = scan.counted
    BY <1>t, <2>3 DEF ScanType
  <2> HIDE DEF rest
  <2>5. CASE f \in archives
    BY <2>2, <2>3, <2>4, <2>5, ReadGoesOn
  <2>6. CASE f \notin archives
    BY <2>3, <2>4, <2>6 DEF ScanGoesOn, Reading
  <2>7. QED
    BY <2>5, <2>6
<1>5. QED
  BY <1>1, <1>2, <1>3, <1>4 DEF ScanStep

LEMMA SoundStep ==
    ASSUME StoreInv, OnceInv, SoundInv, TypeOK', [Next]_vars
    PROVE  SoundInv'
<1>t. TypeOK /\ scan \in ScanType
  BY DEF StoreInv, TypeOK
<1>1. CASE ScanStep
  <2>1. UNCHANGED <<at, stored>>
    BY <1>1, ScanLeavesStore
  <2>2. CASE ScanBegin \/ ScanForget
    <3>1. scan'.counted = [n \in 1 .. MaxEvents |-> 0]
      <4>1. CASE ScanBegin
        BY <4>1 DEF ScanBegin, NoScan
      <4>2. CASE ScanForget
        BY <4>2 DEF ScanForget, NoScan
      <4>3. QED
        BY <2>2, <4>1, <4>2
    <3>2. \A n \in 1 .. MaxEvents : ~(scan'.counted[n] > 0)
      BY <3>1
    <3>3. QED
      BY <3>2 DEF SoundInv
  <2>3. CASE ScanGoesOn
    BY <2>1, <2>3, SoundCounts DEF ScanGoesOn
  <2>4. CASE ScanEnds
    <3>1. scan'.end = scan.end /\ scan'.counted = scan.counted
      BY <1>t, <2>4 DEF ScanEnds, ScanType
    <3>2. QED
      BY <2>1, <3>1, SoundCounts
  <2>5. QED
    BY <1>t, <1>1, <2>2, <2>3, <2>4, ScanKinds
<1>2. CASE scan' = scan
  BY <1>2, SoundStays
<1>3. QED
  <2>1. CASE LoggerStep
    BY <1>2, <2>1 DEF LoggerStep, Stamp, Take, Archive, Shift, RotateFails, Prune, PruneEnds, Open,
                OpenFails, Write, WriteFails, Start, Crash
  <2>2. QED
    BY <1>1, <1>2, <2>1 DEF Next, Import, Tick, vars

OneLogInv == StoreInv /\ ScanInv /\ OnceInv /\ SoundInv

LEMMA OneLogInductive == Spec => []OneLogInv
<1>1. Init => OnceInv /\ SoundInv
  BY InitOnce
<1>2. StoreInv /\ StoreInv' /\ OnceInv /\ SoundInv /\ [Next]_vars => OnceInv' /\ SoundInv'
  <2>1. SUFFICES ASSUME StoreInv, StoreInv', OnceInv, SoundInv, [Next]_vars PROVE OnceInv' /\ SoundInv'
    OBVIOUS
  <2>2. TypeOK'
    BY <2>1 DEF StoreInv
  <2>3. QED
    BY <2>1, <2>2, OnceStep, SoundStep
<1>3. QED
  BY StoreInductive, ScanInductive, <1>1, <1>2, PTL DEF Spec, OneLogInv

Zero == [n \in 1 .. MaxEvents |-> 0]

QueryShape ==
    /\ scan.pc = "off" => Query.stage = "idle"
    /\ scan.pc \in Reading => Query.stage = "asked"
    /\ scan.pc = "done" => Query.stage = "answered" /\ Query.answer = scan.counted
    /\ scan.pc # "done" => Query.answer = Zero
    /\ Query.end = scan.end /\ Query.due = {n \in scan.due : IsRequestEnd(Entry[n])}
    /\ Query = [stage |-> Query.stage, end |-> Query.end, due |-> Query.due, answer |-> Query.answer]

LEMMA QueryFields == QueryShape /\ QueryShape'
BY DEF QueryShape, Query, Stage, Reading, Zero, NoScan

LEMMA IdleShape == Promise!Idle = [stage |-> "idle", end |-> 0, due |-> {}, answer |-> Zero]
BY DEF Promise!Idle, Zero

LEMMA BeginAsks ==
    ASSUME OneLogInv, ScanBegin
    PROVE  Promise!Ask
<1>t. TypeOK /\ scan \in ScanType /\ clock \in Int /\ Window \in Int
  <2>1. clock \in 0 .. MaxTime /\ Window \in Nat
    BY ConstantsAssumption DEF OneLogInv, StoreInv, TypeOK
  <2>2. QED
    BY <2>1 DEF OneLogInv, StoreInv, TypeOK
<1>1. /\ scan.pc = "off" /\ scan'.pc = "live" /\ scan'.end = clock
      /\ scan'.due = {n \in InStore : clock - Window <= at[n] /\ at[n] < clock}
      /\ UNCHANGED <<storeVars, clock, at, stored>>
  BY DEF ScanBegin, NoScan
<1>2. ASSUME NEW n \in InStore
      PROVE  n \in 1 .. MaxEvents /\ n \in 1 .. Len(at)
  <2>1. PICK f \in Named : n \in Stored(f)
    BY DEF InStore
  <2>2. f \in Files
    BY <1>t, <2>1, NamedFiles
  <2>3. QED
    BY <1>t, <2>1, <2>2, StoredLines DEF OneLogInv, StoreInv, Dated
<1>3. ASSUME NEW n \in InStore
      PROVE  (clock - Window <= at[n] /\ at[n] < clock /\ IsRequestEnd(Entry[n])) <=> Promise!Concerns(n, clock)
  <2>1. at \in Seq(0 .. MaxTime)
    BY <1>t DEF TypeOK
  <2>2. at[n] \in 0 .. MaxTime
    BY <1>2, <2>1, ElementOfSeq
  <2>3. at[n] \in Int
    BY <2>2
  <2>4. QED
    BY <1>t, <1>2, <2>3 DEF Promise!Concerns
<1>4. /\ Query.stage = "idle"
      /\ Query' = [stage |-> "asked", end |-> clock, due |-> Query'.due, answer |-> Zero]
      /\ Query'.due = {n \in scan'.due : IsRequestEnd(Entry[n])}
  BY <1>1, QueryFields DEF QueryShape, Reading
<1>5. Query'.due = {n \in InStore : Promise!Concerns(n, clock)}
  BY <1>1, <1>3, <1>4
<1>6. Query' = [Promise!Idle EXCEPT !.stage = "asked", !.end = clock,
                                    !.due = {n \in InStore : Promise!Concerns(n, clock)}]
  <2>1. PICK due : due = {n \in InStore : Promise!Concerns(n, clock)}
    OBVIOUS
  <2>2. PICK idle : idle = Promise!Idle
    OBVIOUS
  <2>3. Query' = [stage |-> "asked", end |-> clock, due |-> due, answer |-> Zero]
    BY <1>4, <1>5, <2>1
  <2>4. idle = [stage |-> "idle", end |-> 0, due |-> {}, answer |-> Zero]
    BY <2>2, IdleShape
  <2>5. Query' = [idle EXCEPT !.stage = "asked", !.end = clock, !.due = due]
    <3>1. PICK asked : asked = [idle EXCEPT !.stage = "asked", !.end = clock, !.due = due]
      OBVIOUS
    <3>2. asked = [stage |-> "asked", end |-> clock, due |-> due, answer |-> Zero]
      BY <2>4, <3>1
    <3>3. QED
      BY <2>3, <3>1, <3>2, Zenon
  <2>6. QED
    BY <2>1, <2>2, <2>5, Zenon
<1>7. UNCHANGED <<clock, at, stored, InStore>>
  BY <1>1 DEF InStore, Named, Stored, storeVars
<1>8. QED
  BY <1>4, <1>6, <1>7 DEF Promise!Ask

LEMMA ForgetDrops ==
    ASSUME OneLogInv, ScanForget, UNCHANGED <<clock, at, stored, InStore>>
    PROVE  Promise!Drop
<1>1. scan.pc # "off" /\ scan'.pc = "off" /\ scan'.end = 0 /\ scan'.due = {}
  BY DEF ScanForget, NoScan
<1>2. Query.stage # "idle"
  BY <1>1 DEF Query, Stage
<1>3. Query' = Promise!Idle
  BY <1>1, QueryFields, IdleShape DEF QueryShape
<1>4. QED
  BY <1>2, <1>3 DEF Promise!Drop

LEMMA EndAnswers ==
    ASSUME OneLogInv, ScanInv', TypeOK', ScanEnds, UNCHANGED <<clock, at, stored, InStore>>
    PROVE  \E counted \in SUBSET {n \in stored : Promise!Concerns(n, Query.end)} : Promise!Answer(counted)
<1>t. scan \in ScanType /\ scan.counted \in [1 .. MaxEvents -> Nat] /\ scan.due \subseteq 1 .. MaxEvents
  BY DEF OneLogInv, StoreInv, TypeOK, ScanType
<1>1. /\ scan.pc = "read" /\ scan'.pc = "done" /\ scan'.end = scan.end /\ scan'.due = scan.due
      /\ scan'.counted = scan.counted
  BY <1>t DEF ScanEnds, ScanType
<1>2. PICK counted : counted = {n \in 1 .. MaxEvents : scan.counted[n] > 0}
  OBVIOUS
<1>3. ASSUME NEW n \in counted PROVE n \in stored /\ Promise!Concerns(n, Query.end)
  <2>1. n \in 1 .. MaxEvents /\ n \in stored /\ InWindow(n) /\ IsRequestEnd(Entry[n])
    BY <1>2 DEF OneLogInv, SoundInv
  <2>2. Query.end = scan.end
    BY QueryFields DEF QueryShape
  <2>3. QED
    BY <2>1, <2>2 DEF Promise!Concerns, InWindow
<1>4. \A n \in scan.due : IsRequestEnd(Entry[n]) /\ Kept(n) => scan.counted[n] = 1
  BY <1>1 DEF ScanInv, Owed, Kept, Reading
<1>5. {n \in Query.due : at[n] >= clock - Retention} \subseteq counted
  <2>1. ASSUME NEW n \in Query.due, at[n] >= clock - Retention PROVE n \in counted
    <3>1. n \in scan.due /\ IsRequestEnd(Entry[n])
      BY QueryFields DEF QueryShape
    <3>2. n \in 1 .. MaxEvents /\ scan.counted[n] = 1
      BY <1>t, <1>4, <2>1, <3>1 DEF Kept
    <3>3. QED
      BY <1>2, <3>2
  <2>2. QED
    BY <2>1
<1>6. scan.counted = [n \in 1 .. MaxEvents |-> IF n \in counted THEN 1 ELSE 0]
  <2>1. ASSUME NEW n \in 1 .. MaxEvents PROVE scan.counted[n] = IF n \in counted THEN 1 ELSE 0
    <3>1. scan.counted[n] \in Nat /\ scan.counted[n] <= 1
      BY <1>t DEF OneLogInv, ScanInv
    <3>2. QED
      BY <1>2, <3>1
  <2>2. QED
    BY <1>t, <2>1
<1>7. Query.stage = "asked" /\ Query'.stage = "answered" /\ Query'.answer = scan.counted
      /\ Query'.end = Query.end /\ Query'.due = Query.due
      /\ Query = [stage |-> "asked", end |-> Query.end, due |-> Query.due, answer |-> Query.answer]
      /\ Query' = [stage |-> "answered", end |-> Query.end, due |-> Query.due, answer |-> scan.counted]
  BY <1>1, QueryFields DEF QueryShape, Reading
<1>8. Query' = [Query EXCEPT !.stage = "answered",
                             !.answer = [n \in 1 .. MaxEvents |-> IF n \in counted THEN 1 ELSE 0]]
  BY <1>6, <1>7
<1>9. Promise!Answer(counted)
  BY <1>5, <1>7, <1>8 DEF Promise!Answer
<1>10. QED
  BY <1>3, <1>9

\* For any number of files and lines, any limit, retention and window, and any
\* interleaving of the logger, crashes, imports and a scan: the files are one log.
THEOREM LogImplementsRetainedLog == Spec => ImplementsRetainedLog
<1>1. Init => Promise!Init
  <2>1. SUFFICES ASSUME Init PROVE Promise!Init
    OBVIOUS
  <2>2. InStore = {}
    BY <2>1 DEF Init, InStore, Named
  <2>3. scan.pc = "off" /\ scan.end = 0 /\ scan.due = {}
    BY <2>1 DEF Init, NoScan
  <2>4. Query = Promise!Idle
    BY <2>3, QueryFields, IdleShape DEF QueryShape
  <2>5. QED
    BY <2>1, <2>2, <2>4 DEF Init, Promise!Init
<1>2. OneLogInv /\ OneLogInv' /\ [Next]_vars => [Promise!Next]_(Promise!vars)
  <2>1. SUFFICES ASSUME OneLogInv, OneLogInv', [Next]_vars PROVE [Promise!Next]_(Promise!vars)
    OBVIOUS
  <2>2. /\ StoreInv /\ OnceInv /\ TypeOK /\ TypeOK' /\ ScanInv'
    BY <2>1 DEF OneLogInv, StoreInv
  <2>3. CASE ScanStep
    <3>1. UNCHANGED <<clock, at, stored, InStore>>
      BY <2>3, ScanLeavesStore DEF InStore, Named, Stored, storeVars
    <3>2. CASE ScanBegin
      BY <2>1, <3>2, BeginAsks DEF Promise!Next
    <3>3. CASE ScanForget
      BY <2>1, <3>1, <3>3, ForgetDrops DEF Promise!Next
    <3>4. CASE ScanEnds
      BY <2>1, <2>2, <3>1, <3>4, EndAnswers DEF Promise!Next
    <3>5. CASE ScanGoesOn
      <4>1. Query' = Query
        BY <3>5, QueryFields DEF ScanGoesOn, QueryShape, Reading
      <4>2. QED
        BY <3>1, <4>1 DEF Promise!vars
    <3>6. QED
      BY <2>2, <2>3, <3>2, <3>3, <3>4, <3>5, ScanKinds
  <2>4. CASE ~ScanStep
    <3>1. scan' = scan
      <4>1. CASE LoggerStep
        BY <4>1 DEF LoggerStep, Stamp, Take, Archive, Shift, RotateFails, Prune, PruneEnds, Open,
                    OpenFails, Write, WriteFails, Start, Crash
      <4>2. QED
        BY <2>1, <2>4, <4>1 DEF Next, Import, Tick, vars
    <3>2. Query' = Query
      BY <3>1 DEF Query, Stage, NoScan
    <3>3. CASE LogStays
      BY <3>2, <3>3 DEF LogStays, Promise!vars
    <3>4. CASE Stamp /\ UNCHANGED InStore
      BY <3>2, <3>4 DEF Stamp, Promise!Stamp, Promise!Next
    <3>5. CASE Tick /\ UNCHANGED InStore
      BY <3>2, <3>5 DEF Tick, Promise!Tick, Promise!Next
    <3>6. CASE \E n : LogFilled(n)
      BY <3>2, <3>6 DEF LogFilled, Promise!Store, Promise!Next
    <3>7. CASE \E old : LogCut(old)
      BY <3>2, <3>7 DEF LogCut, Promise!Forget, Promise!Next
    <3>8. QED
      BY <2>1, <2>2, <2>4, <3>3, <3>4, <3>5, <3>6, <3>7, LogSteps
  <2>5. QED
    BY <2>3, <2>4
<1>3. QED
  BY OneLogInductive, <1>1, <1>2, PTL DEF Spec, ImplementsRetainedLog, Promise!Spec
=============================================================================
