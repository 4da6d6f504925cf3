---------------------------- MODULE LogFeedProofs ----------------------------
(***************************************************************************)
(* What the log view shows, for any number of logs, files and entries,     *)
(* however the daemon writes and rotates and the user switches and clears  *)
(* between the steps of the thread.                                        *)
(***************************************************************************)
EXTENDS LogFeed, SequenceTheorems, TLAPS

Entry == [file : Files, line : Nat]

StoreType == [path : Paths, entries : Seq(Entry), generation : Nat]

TailType ==
    [pc : {"look", "stat", "open", "read", "ingest"}, path : Paths, generation : Nat,
     file : Files \cup {None}, id : Files \cup {None}, offset : Nat,
     seen : Files \cup {None}, len : Nat, cut : BOOLEAN, lines : Seq(Entry)]

TypeOK ==
    /\ disk \in [Paths -> Files \cup {None}] /\ length \in [Files -> Nat]
    /\ store \in StoreType /\ tail \in TailType /\ crossed \in BOOLEAN

-----------------------------------------------------------------------------
(* Sequences of entries. *)

\* The lines of a file stand side by side, one after the other.
Gapless(s) ==
    \A i, j \in DOMAIN s : i <= j /\ s[i].file = s[j].file =>
        /\ s[j].line = s[i].line + (j - i)
        /\ \A k \in i .. j : s[k].file = s[i].file

\* If s has lines of f at all, they are its last ones, up to line n.
EndsAt(s, f, n) ==
    \A i \in DOMAIN s : s[i].file = f =>
        /\ s[i].line + (Len(s) - i) = n
        /\ \A k \in i .. Len(s) : s[k].file = f

Lacks(s, f) == \A i \in DOMAIN s : s[i].file # f

LEMMA ElementTypes ==
    ASSUME NEW s \in Seq(Entry)
    PROVE  /\ Len(s) \in Nat /\ DOMAIN s = 1 .. Len(s)
           /\ \A i \in 1 .. Len(s) : s[i] \in Entry /\ s[i].file \in Files /\ s[i].line \in Nat
<1>1. ASSUME NEW i \in 1 .. Len(s) PROVE s[i] \in Entry
  OBVIOUS
<1> QED BY <1>1 DEF Entry

LEMMA LinesType ==
    ASSUME NEW f \in Files, NEW first \in Nat, NEW last \in Nat, first <= last
    PROVE  /\ Lines(f, first, last) \in Seq(Entry) /\ Len(Lines(f, first, last)) = last - first
           /\ \A i \in 1 .. last - first : /\ Lines(f, first, last)[i].file = f
                                           /\ Lines(f, first, last)[i].line = first + i
  BY DEF Lines, Entry

\* What is read next fits behind what is there.
LEMMA LinesFit ==
    ASSUME NEW s \in Seq(Entry), NEW f \in Files, NEW first \in Nat, NEW last \in Nat,
           first <= last, Gapless(s), EndsAt(s, f, first)
    PROVE  LET t == s \o Lines(f, first, last) IN Gapless(t) /\ EndsAt(t, f, last)
<1> DEFINE n == last - first
           l == Lines(f, first, last)
           t == s \o l
<1>1. /\ l \in Seq(Entry) /\ Len(l) = n /\ n \in Nat /\ n = last - first /\ Len(s) \in Nat
      /\ \A i \in 1 .. n : l[i].file = f /\ l[i].line = first + i
  <2>1. Len(s) \in Nat /\ n \in Nat
    OBVIOUS
  <2>2. /\ Lines(f, first, last) \in Seq(Entry) /\ Len(Lines(f, first, last)) = last - first
        /\ \A i \in 1 .. last - first : /\ Lines(f, first, last)[i].file = f
                                        /\ Lines(f, first, last)[i].line = first + i
    BY LinesType, Zenon
  <2> QED BY <2>1, <2>2, Zenon
<1> HIDE DEF l, n
<1>2. /\ t \in Seq(Entry) /\ Len(t) = Len(s) + n
      /\ \A i \in 1 .. Len(s) : t[i] = s[i]
      /\ \A i \in Len(s) + 1 .. Len(t) : t[i] = l[i - Len(s)]
  <2>1. /\ t \in Seq(Entry) /\ Len(t) = Len(s) + Len(l)
        /\ \A i \in 1 .. Len(s) + Len(l) : t[i] = IF i <= Len(s) THEN s[i] ELSE l[i - Len(s)]
    BY <1>1, ConcatProperties
  <2> HIDE DEF t
  <2>2. Len(t) = Len(s) + n
    BY <1>1, <2>1
  <2>3. ASSUME NEW i \in 1 .. Len(s) PROVE t[i] = s[i]
    <3>1. i \in 1 .. Len(s) + Len(l) /\ i <= Len(s)
      BY <1>1
    <3> QED BY <2>1, <3>1
  <2>4. ASSUME NEW i \in Len(s) + 1 .. Len(t) PROVE t[i] = l[i - Len(s)]
    <3>1. i \in 1 .. Len(s) + Len(l) /\ ~(i <= Len(s))
      BY <1>1, <2>2
    <3> QED BY <2>1, <3>1
  <2> QED BY <2>1, <2>2, <2>3, <2>4
<1> HIDE DEF t
<1>3. \A i \in Len(s) + 1 .. Len(t) : t[i].file = f /\ t[i].line = first + (i - Len(s))
  <2>1. TAKE i \in Len(s) + 1 .. Len(t)
  <2>2. i - Len(s) \in 1 .. n
    BY <1>1, <1>2
  <2> QED BY <1>1, <1>2, <2>2
<1>4. DOMAIN s = 1 .. Len(s) /\ DOMAIN t = 1 .. Len(t) /\ \A i \in 1 .. Len(t) : t[i].line \in Nat
  BY <1>2, ElementTypes
<1>5. EndsAt(t, f, last)
  <2> SUFFICES ASSUME NEW i \in 1 .. Len(t), t[i].file = f
               PROVE  t[i].line + (Len(t) - i) = last /\ \A k \in i .. Len(t) : t[k].file = f
    BY <1>4 DEF EndsAt
  <2>1. CASE i <= Len(s)
    <3>1. s[i].line + (Len(s) - i) = first /\ \A k \in i .. Len(s) : s[k].file = f
      <4>1. i \in DOMAIN s /\ s[i].file = f
        BY <1>1, <1>2, <1>4, <2>1
      <4> QED BY <4>1 DEF EndsAt
    <3>2. \A k \in i .. Len(t) : k \in i .. Len(s) \/ k \in Len(s) + 1 .. Len(t)
      BY <1>1, <1>2, <2>1
    <3>3. \A k \in i .. Len(s) : t[k] = s[k]
      BY <1>2
    <3>4. t[i].line + (Len(t) - i) = last
      <4>1. t[i].line = s[i].line /\ t[i].line \in Nat
        BY <1>1, <1>2, <1>4, <2>1
      <4> QED BY SMTT(30), <1>1, <1>2, <3>1, <4>1
    <3> QED BY <1>3, <3>1, <3>2, <3>3, <3>4
  <2>2. CASE i > Len(s)
    <3>1. i \in Len(s) + 1 .. Len(t)
      BY <1>1, <1>2, <2>2
    <3>2. t[i].line = first + (i - Len(s))
      BY <1>3, <3>1
    <3>3. \A k \in i .. Len(t) : k \in Len(s) + 1 .. Len(t)
      BY <1>1, <1>2, <3>1
    <3> QED BY <1>1, <1>2, <1>3, <3>2, <3>3
  <2> QED BY <1>1, <2>1, <2>2
<1>6. Gapless(t)
  <2> SUFFICES ASSUME NEW i \in 1 .. Len(t), NEW j \in 1 .. Len(t), i <= j, t[i].file = t[j].file
               PROVE  /\ t[j].line = t[i].line + (j - i)
                      /\ \A k \in i .. j : t[k].file = t[i].file
    BY <1>4 DEF Gapless
  <2>1. CASE j <= Len(s)
    <3>1. i \in 1 .. Len(s) /\ j \in 1 .. Len(s) /\ \A k \in i .. j : t[k] = s[k]
      <4>1. i \in 1 .. Len(s) /\ j \in 1 .. Len(s) /\ \A k \in i .. j : k \in 1 .. Len(s)
        BY <1>1, <2>1
      <4> QED BY <1>2, <4>1
    <3>2. t[i] = s[i] /\ t[j] = s[j]
      BY <1>2, <3>1
    <3>3. /\ s[j].line = s[i].line + (j - i)
          /\ \A k \in i .. j : s[k].file = s[i].file
      BY <1>4, <3>1, <3>2 DEF Gapless
    <3> QED BY <3>1, <3>2, <3>3
  <2>2. CASE j > Len(s)
    <3>1. t[j].file = f /\ t[j].line = first + (j - Len(s))
      BY <1>1, <1>2, <1>3, <2>2
    <3>2. t[i].line + (Len(t) - i) = last /\ \A k \in i .. Len(t) : t[k].file = f
      BY <1>4, <1>5, <3>1 DEF EndsAt
    <3>3. t[j].line = t[i].line + (j - i)
      <4>1. t[i].line \in Nat /\ t[j].line \in Nat /\ Len(t) = Len(s) + (last - first)
        BY <1>1, <1>2, <1>4
      <4>2. i \in Nat /\ j \in Nat /\ Len(s) \in Nat /\ first \in Nat /\ last \in Nat
        BY <1>1
      <4>3. t[i].line + ((Len(s) + (last - first)) - i) = last
        BY <3>2, <4>1
      <4>4. t[j].line = first + (j - Len(s))
        BY <3>1
      <4> DEFINE x == t[i].line
                 y == t[j].line
                 m == Len(s)
      <4>5. x \in Nat /\ y \in Nat /\ m \in Nat
            /\ x + ((m + (last - first)) - i) = last /\ y = first + (j - m)
        BY <4>1, <4>2, <4>3, <4>4
      <4> HIDE DEF x, y, m
      <4>6. y = x + (j - i)
        BY <4>2, <4>5
      <4> QED BY <4>6 DEF x, y
    <3> QED BY <1>1, <1>2, <3>1, <3>2, <3>3
  <2> QED BY <1>1, <2>1, <2>2
<1> QED BY <1>5, <1>6 DEF t, l

\* The newest entries are as good as all of them.
LEMMA KeepNewest ==
    ASSUME NEW s \in Seq(Entry)
    PROVE  /\ Keep(s) \in Seq(Entry) /\ Len(Keep(s)) <= Capacity
           /\ \A i \in DOMAIN Keep(s) : \E j \in DOMAIN s : Keep(s)[i] = s[j]
           /\ Gapless(s) => Gapless(Keep(s))
           /\ \A f, n : EndsAt(s, f, n) => EndsAt(Keep(s), f, n)
<1> DEFINE t == Keep(s)
           d == Len(s) - Len(t)
<1>1. Len(s) \in Nat /\ Capacity \in Nat /\ Capacity > 0
  BY FeedAssumption
<1>2. /\ t \in Seq(Entry) /\ Len(t) <= Capacity /\ Len(t) <= Len(s) /\ Len(t) \in Nat
      /\ \A i \in 1 .. Len(t) : t[i] = s[i + (Len(s) - Len(t))]
  <2>1. CASE Len(s) <= Capacity
    <3>1. t = s
      BY <2>1 DEF Keep
    <3> QED BY <1>1, <2>1, <3>1
  <2>2. CASE Len(s) > Capacity
    <3>1. t = SubSeq(s, Len(s) - Capacity + 1, Len(s))
      BY <1>1, <2>2 DEF Keep
    <3>2. t \in Seq(Entry) /\ Len(t) = Capacity
      BY <1>1, <2>2, <3>1
    <3>3. \A i \in 1 .. Capacity : t[i] = s[Len(s) - Capacity + 1 + i - 1]
      BY <1>1, <2>2, <3>1
    <3> QED BY <1>1, <2>2, <3>2, <3>3
  <2> QED BY <1>1, <2>1, <2>2
<1> HIDE DEF t
<1>3. DOMAIN s = 1 .. Len(s) /\ DOMAIN t = 1 .. Len(t) /\ d \in Nat
  BY <1>1, <1>2
<1>4. \A i \in 1 .. Len(t) : i + d \in 1 .. Len(s) /\ t[i] = s[i + d]
  BY <1>1, <1>2
<1>5. \A i \in 1 .. Len(s) : s[i].line \in Nat
  BY ElementTypes
<1>6. ASSUME Gapless(s) PROVE Gapless(t)
  <2> SUFFICES ASSUME NEW i \in 1 .. Len(t), NEW j \in 1 .. Len(t), i <= j, t[i].file = t[j].file
               PROVE  /\ t[j].line = t[i].line + (j - i)
                      /\ \A k \in i .. j : t[k].file = t[i].file
    BY <1>3 DEF Gapless
  <2>1. /\ s[j + d].line = s[i + d].line + ((j + d) - (i + d))
        /\ \A k \in i + d .. j + d : s[k].file = s[i + d].file
    <3>1. i + d \in DOMAIN s /\ j + d \in DOMAIN s /\ i + d <= j + d /\ s[i + d].file = s[j + d].file
      BY <1>3, <1>4
    <3> HIDE DEF d
    <3> QED BY <1>6, <3>1 DEF Gapless
  <2>2. \A k \in i .. j : k \in 1 .. Len(t) /\ k + d \in i + d .. j + d
    BY <1>2, <1>3
  <2>3. t[j].line = t[i].line + (j - i)
    BY <1>2, <1>3, <1>4, <1>5, <2>1
  <2> QED BY <1>4, <2>1, <2>2, <2>3
<1>7. ASSUME NEW f, NEW n, EndsAt(s, f, n) PROVE EndsAt(t, f, n)
  <2> SUFFICES ASSUME NEW i \in 1 .. Len(t), t[i].file = f
               PROVE  t[i].line + (Len(t) - i) = n /\ \A k \in i .. Len(t) : t[k].file = f
    BY <1>3 DEF EndsAt
  <2>1. s[i + d].line + (Len(s) - (i + d)) = n /\ \A k \in i + d .. Len(s) : s[k].file = f
    BY <1>3, <1>4, <1>7 DEF EndsAt
  <2>2. \A k \in i .. Len(t) : k \in 1 .. Len(t) /\ k + d \in i + d .. Len(s)
    BY <1>2, <1>3
  <2>3. Len(s) - (i + d) = Len(t) - i
    BY <1>1, <1>2
  <2> QED BY <1>4, <2>1, <2>2, <2>3
<1> QED BY <1>2, <1>3, <1>4, <1>6, <1>7 DEF t

-----------------------------------------------------------------------------
(* What always holds: a name is of one file, and of one that was written;  *)
(* only written lines are read and shown.                                  *)

Written(s, len) == \A i \in DOMAIN s : s[i].line \in 1 .. len[s[i].file]

DiskInv ==
    /\ \A p, q \in Paths : p # q /\ disk[p] = disk[q] => disk[p] = None
    /\ \A p \in Paths : disk[p] # None => length[disk[p]] > 0

LinesInv ==
    /\ Len(store.entries) <= Capacity /\ Written(store.entries, length) /\ Written(tail.lines, length)
    /\ tail.pc # "ingest" => tail.lines = <<>>
    /\ tail.file # None => length[tail.file] > 0

-----------------------------------------------------------------------------
(* What holds until a rotation or a switch crosses a pass.  A thread that   *)
(* has not seen the last switch is between two passes, and the view is      *)
(* empty; otherwise the open file is the log's or was, the view ends where *)
(* the thread is in it, and the log's present file is either the one that  *)
(* is open or not in the view at all.                                      *)

PassInv ==
    /\ tail.path = store.path
    /\ \A i \in DOMAIN store.entries :
        /\ store.entries[i].file = disk[store.path] => tail.file = store.entries[i].file
        /\ \A q \in Paths \ {store.path} : disk[q] # store.entries[i].file
    /\ tail.file # None =>
        /\ tail.id = tail.file /\ tail.offset <= length[tail.file]
        /\ \A q \in Paths \ {store.path} : disk[q] # tail.file
        /\ EndsAt(store.entries, tail.file, tail.offset - Len(tail.lines))
        /\ tail.cut => Lacks(store.entries, tail.file)
    /\ tail.pc = "open" =>
        /\ tail.seen # None /\ disk[store.path] = tail.seen /\ tail.file # tail.seen
        /\ tail.len <= length[tail.seen]
    /\ tail.pc = "ingest" =>
        /\ tail.file # None /\ Len(tail.lines) <= tail.offset /\ ~tail.cut
        /\ tail.lines = Lines(tail.file, tail.offset - Len(tail.lines), tail.offset)

OrderInv ==
    /\ Gapless(store.entries)
    /\ tail.generation <= store.generation
    /\ IF tail.generation = store.generation THEN PassInv
       ELSE store.entries = <<>> /\ tail.pc = "look"

FeedInv == TypeOK /\ DiskInv /\ LinesInv /\ (crossed \/ OrderInv)

-----------------------------------------------------------------------------
(* Types. *)

LEMMA InitTyped == Init => TypeOK
<1> SUFFICES ASSUME Init PROVE TypeOK
  OBVIOUS
<1>1. PICK p \in Paths : store = [path |-> p, entries |-> <<>>, generation |-> 0]
  BY DEF Init
<1>2. store \in StoreType /\ store.path = p
  BY <1>1 DEF StoreType
<1>3. tail \in TailType
  BY <1>2 DEF Init, TailType
<1>4. length \in [Files -> Nat]
  BY FeedAssumption DEF Init
<1> QED BY <1>2, <1>3, <1>4 DEF Init, TypeOK

\* The entries that come in are as the lines that were read.
LEMMA IngestTyped == TypeOK /\ Ingest => store'.entries \in Seq(Entry) /\ store' \in StoreType
<1> SUFFICES ASSUME TypeOK, Ingest PROVE store'.entries \in Seq(Entry) /\ store' \in StoreType
  OBVIOUS
<1> DEFINE s == store.entries \o tail.lines
<1>1. store.entries \in Seq(Entry) /\ tail.lines \in Seq(Entry)
  BY DEF TypeOK, StoreType, TailType
<1>2. s \in Seq(Entry)
  BY <1>1, ConcatProperties
<1>3. Keep(s) \in Seq(Entry)
  BY <1>2, KeepNewest
<1>4. store' = [store EXCEPT !.entries = Keep(s)]
  BY DEF Ingest
<1> HIDE DEF s
<1> QED BY <1>3, <1>4 DEF TypeOK, StoreType

LEMMA ReadTyped == TypeOK /\ Read => tail' \in TailType
<1> SUFFICES ASSUME TypeOK, Read PROVE tail' \in TailType
  OBVIOUS
<1> DEFINE end   == Min2(tail.len, length[tail.file])
           first == IF tail.cut THEN tail.offset + 1 ELSE tail.offset
<1>1. CASE tail.file = None \/ end <= tail.offset
  BY <1>1 DEF Read, Pass, TypeOK, TailType
<1>2. CASE ~(tail.file = None \/ end <= tail.offset)
  <2>1. tail.len \in Nat /\ length[tail.file] \in Nat /\ tail.offset \in Nat /\ tail.file \in Files
    BY <1>2 DEF TypeOK, TailType
  <2>2. end \in Nat /\ first \in Nat /\ first <= end
    BY <1>2, <2>1 DEF Min2
  <2>3. Lines(tail.file, first, end) \in Seq(Entry)
    BY <2>1, <2>2, LinesType
  <2>4. tail' = [tail EXCEPT !.pc = "ingest", !.offset = end, !.cut = FALSE,
                             !.lines = Lines(tail.file, first, end)]
    BY <1>2 DEF Read, Pass
  <2> HIDE DEF end, first
  <2> QED BY <2>2, <2>3, <2>4 DEF TypeOK, TailType
<1> QED BY <1>1, <1>2

LEMMA NextTyped == TypeOK /\ [Next]_vars => TypeOK'
<1> SUFFICES ASSUME TypeOK, [Next]_vars PROVE TypeOK'
  OBVIOUS
<1> USE DEF TypeOK
<1>1. CASE UNCHANGED vars
  BY <1>1 DEF vars
<1>2. ASSUME NEW p \in Paths, Append1(p) PROVE TypeOK'
  BY <1>2 DEF Append1
<1>3. ASSUME NEW p \in Paths, RotateAway(p) PROVE TypeOK'
  BY <1>3 DEF RotateAway
<1>4. ASSUME NEW p \in Paths, Create(p) PROVE TypeOK'
  BY <1>4 DEF Create
<1>5. ASSUME NEW p \in Paths, SetPath(p) PROVE TypeOK'
  <2>1. store' \in StoreType
    BY <1>5 DEF SetPath, StoreType
  <2> QED BY <1>5, <2>1 DEF SetPath
<1>6. CASE Clear
  <2>1. store' \in StoreType
    <3>1. <<>> \in Seq(Entry)
      OBVIOUS
    <3> QED BY <1>6, <3>1, Zenon DEF Clear, StoreType
  <2> QED BY <1>6, <2>1 DEF Clear
<1>7. CASE Look
  <2>1. tail' \in TailType
    BY <1>7 DEF Look, Pass, TailType, StoreType
  <2> QED BY <1>7, <2>1 DEF Look, Pass
<1>8. CASE Stat
  <2>1. disk[tail.path] \in Files \cup {None}
        /\ (disk[tail.path] # None => length[disk[tail.path]] \in Nat)
    BY DEF TailType
  <2>2. tail' \in TailType
    BY <1>8, <2>1 DEF Stat, Pass, TailType
  <2> QED BY <1>8, <2>2 DEF Stat, Pass
<1>9. CASE Open
  <2>1. disk[tail.path] \in Files \cup {None}
    BY DEF TailType
  <2>2. tail.len > Backfill => tail.len - Backfill \in Nat
    BY FeedAssumption DEF TailType
  <2>3. tail' \in TailType
    <3> DEFINE from == IF store.entries = <<>> /\ tail.len > Backfill THEN tail.len - Backfill ELSE 0
    <3>1. from \in Nat /\ (from > 0) \in BOOLEAN
      BY <2>2
    <3>2. tail' \in {[tail EXCEPT !.pc = "read"],
                    [tail EXCEPT !.pc = "read", !.file = disk[tail.path], !.id = tail.seen,
                                 !.offset = from, !.cut = from > 0]}
      BY <1>9 DEF Open, Pass
    <3> HIDE DEF from
    <3> QED BY ZenonT(60), <2>1, <3>1, <3>2 DEF TailType
  <2> QED BY <1>9, <2>3 DEF Open, Pass
<1>10. CASE Read
  BY <1>10, ReadTyped DEF Read, Pass
<1>11. CASE Ingest
  <2>1. tail' \in TailType
    <3>1. <<>> \in Seq(Entry)
      OBVIOUS
    <3> QED BY <1>11, <3>1, Zenon DEF Ingest, Pass, TailType
  <2> QED BY <1>11, <2>1, IngestTyped DEF Ingest, Pass
<1> QED BY <1>1, <1>2, <1>3, <1>4, <1>5, <1>6, <1>7, <1>8, <1>9, <1>10, <1>11 DEF Next, Run, Others

THEOREM FeedTyped == Spec => []TypeOK
  BY InitTyped, NextTyped, PTL DEF Spec

-----------------------------------------------------------------------------
(* What always holds, step by step. *)

LEMMA WrittenMore ==
    ASSUME NEW s \in Seq(Entry), NEW m \in [Files -> Nat], NEW n \in [Files -> Nat],
           \A f \in Files : m[f] <= n[f], Written(s, m)
    PROVE  Written(s, n)
<1> SUFFICES ASSUME NEW i \in DOMAIN s PROVE s[i].line \in 1 .. n[s[i].file]
  BY DEF Written
<1>1. s[i].file \in Files /\ s[i].line \in Nat
  BY ElementTypes
<1>2. s[i].line \in 1 .. m[s[i].file]
  BY DEF Written
<1> QED BY <1>1, <1>2

LEMMA WrittenBoth ==
    ASSUME NEW s \in Seq(Entry), NEW t \in Seq(Entry), NEW m, Written(s, m), Written(t, m)
    PROVE  Written(s \o t, m)
<1>1. /\ Len(s) \in Nat /\ Len(t) \in Nat /\ Len(s \o t) = Len(s) + Len(t) /\ s \o t \in Seq(Entry)
      /\ \A i \in 1 .. Len(s) + Len(t) : (s \o t)[i] = IF i <= Len(s) THEN s[i] ELSE t[i - Len(s)]
  BY ConcatProperties, ElementTypes
<1>2. DOMAIN s = 1 .. Len(s) /\ DOMAIN t = 1 .. Len(t) /\ DOMAIN (s \o t) = 1 .. Len(s) + Len(t)
  BY <1>1, ElementTypes
<1> SUFFICES ASSUME NEW i \in 1 .. Len(s) + Len(t)
             PROVE  (s \o t)[i].line \in 1 .. m[(s \o t)[i].file]
  BY <1>2 DEF Written
<1>3. CASE i <= Len(s)
  <2>1. i \in DOMAIN s /\ (s \o t)[i] = s[i]
    BY <1>1, <1>2, <1>3
  <2> QED BY <2>1 DEF Written
<1>4. CASE ~(i <= Len(s))
  <2>1. i - Len(s) \in DOMAIN t /\ (s \o t)[i] = t[i - Len(s)]
    BY <1>1, <1>2, <1>4
  <2> QED BY <2>1 DEF Written
<1> QED BY <1>3, <1>4

LEMMA WrittenKept ==
    ASSUME NEW s \in Seq(Entry), NEW m, Written(s, m)
    PROVE  Written(Keep(s), m)
  BY KeepNewest DEF Written

LEMMA InitLines == Init => DiskInv /\ LinesInv
<1> SUFFICES ASSUME Init PROVE DiskInv /\ LinesInv
  OBVIOUS
<1>1. store.entries = <<>> /\ tail.lines = <<>> /\ tail.file = None /\ tail.pc = "look"
  BY DEF Init
<1>2. Len(<<>>) <= Capacity /\ \A n : Written(<<>>, n)
  BY FeedAssumption DEF Written
<1>3. DiskInv
  BY FeedAssumption DEF Init, DiskInv
<1> QED BY <1>1, <1>2, <1>3 DEF LinesInv

\* The daemon and the user: files only grow, and a new one was empty.
LEMMA DiskStep ==
    ASSUME TypeOK, TypeOK', DiskInv, NEW p \in Paths, Append1(p) \/ RotateAway(p) \/ Create(p)
    PROVE  /\ DiskInv' /\ UNCHANGED <<store, tail>>
           /\ \A f \in Files : length[f] <= length'[f]
<1>1. CASE Append1(p)
  <2>1. /\ disk' = disk /\ UNCHANGED <<store, tail>>
        /\ \A f \in Files : length[f] \in Nat /\ length'[f] = IF f = disk[p] THEN length[f] + 1 ELSE length[f]
    BY <1>1 DEF Append1, TypeOK
  <2>2. \A f \in Files : length[f] <= length'[f]
    BY <2>1
  <2>3. \A q \in Paths : disk[q] \in Files \cup {None}
    BY DEF TypeOK
  <2> QED BY <2>1, <2>2, <2>3 DEF DiskInv
<1>2. CASE RotateAway(p)
  <2>1. /\ \A q \in Paths : disk'[q] = IF q = p THEN None ELSE disk[q]
        /\ length' = length /\ UNCHANGED <<store, tail>>
    BY <1>2 DEF RotateAway, TypeOK
  <2>2. \A f \in Files : length[f] <= length'[f]
    BY <2>1 DEF TypeOK
  <2> QED BY <2>1, <2>2 DEF DiskInv
<1>3. CASE Create(p)
  <2>1. PICK f \in Files : /\ length[f] = 0 /\ \A q \in Paths : disk[q] # f
                           /\ disk' = [disk EXCEPT ![p] = f] /\ length' = [length EXCEPT ![f] = 1]
    BY <1>3 DEF Create
  <2>2. /\ \A q \in Paths : disk'[q] = IF q = p THEN f ELSE disk[q]
        /\ \A g \in Files : length[g] \in Nat /\ length'[g] = IF g = f THEN 1 ELSE length[g]
    BY <2>1 DEF TypeOK
  <2>3. \A g \in Files : length[g] <= length'[g]
    BY <2>1, <2>2
  <2>4. \A q \in Paths : disk[q] \in Files \cup {None}
    BY DEF TypeOK
  <2>5. DiskInv'
    BY <2>1, <2>2, <2>4 DEF DiskInv
  <2> QED BY <1>3, <2>3, <2>5 DEF Create
<1> QED BY <1>1, <1>2, <1>3

LEMMA NextLines ==
    ASSUME TypeOK, DiskInv, LinesInv, [Next]_vars
    PROVE  DiskInv' /\ LinesInv'
<1>t. /\ store.entries \in Seq(Entry) /\ tail.lines \in Seq(Entry)
      /\ length \in [Files -> Nat] /\ tail.file \in Files \cup {None} /\ TypeOK'
  BY NextTyped DEF TypeOK, StoreType, TailType
<1>1. CASE UNCHANGED vars
  BY <1>1 DEF vars, DiskInv, LinesInv
<1>2. ASSUME NEW p \in Paths, Append1(p) \/ RotateAway(p) \/ Create(p) PROVE DiskInv' /\ LinesInv'
  <2>1. /\ DiskInv' /\ UNCHANGED <<store, tail>>
        /\ \A f \in Files : length[f] <= length'[f]
    BY <1>2, <1>t, DiskStep
  <2>2. length' \in [Files -> Nat]
    BY <1>t DEF TypeOK
  <2>3. Written(store.entries, length') /\ Written(tail.lines, length')
    BY <1>t, <2>1, <2>2, WrittenMore DEF LinesInv
  <2>4. tail.file # None => length'[tail.file] > 0
    BY <1>t, <2>1, <2>2 DEF LinesInv
  <2> QED BY <2>1, <2>3, <2>4 DEF LinesInv
<1>3. CASE Clear \/ \E p \in Paths : SetPath(p)
  <2>1. store'.entries = <<>> /\ UNCHANGED <<disk, length, tail>>
    BY <1>3 DEF Clear, SetPath, TypeOK, StoreType
  <2>2. Len(<<>>) <= Capacity /\ \A n : Written(<<>>, n)
    BY FeedAssumption DEF Written
  <2> QED BY <2>1, <2>2 DEF LinesInv, DiskInv
<1>4. CASE Look \/ Stat
  <2>1. /\ UNCHANGED <<disk, length, store>> /\ tail'.lines = tail.lines /\ tail.pc # "ingest"
        /\ tail'.file \in {tail.file, None}
    BY <1>4 DEF Look, Stat, Pass, TypeOK, TailType
  <2> QED BY <2>1 DEF LinesInv, DiskInv
<1>5. CASE Open
  <2>1. /\ UNCHANGED <<disk, length, store>> /\ tail'.lines = tail.lines /\ tail.pc # "ingest"
        /\ tail'.file = tail.file \/ (tail'.file = disk[tail.path] /\ disk[tail.path] # None)
        /\ tail.path \in Paths
    BY <1>5 DEF Open, Pass, TypeOK, TailType
  <2> QED BY <2>1 DEF LinesInv, DiskInv
<1>6. CASE Read
  <2> DEFINE end   == Min2(tail.len, length[tail.file])
             first == IF tail.cut THEN tail.offset + 1 ELSE tail.offset
  <2>1. UNCHANGED <<disk, length, store>> /\ tail.pc = "read"
    BY <1>6 DEF Read, Pass
  <2>2. CASE tail.file = None \/ end <= tail.offset
    <3>1. tail'.file = tail.file /\ tail'.lines = tail.lines
      BY <1>6, <2>2 DEF Read, Pass, TypeOK, TailType
    <3> QED BY <2>1, <3>1 DEF LinesInv, DiskInv
  <2>3. CASE ~(tail.file = None \/ end <= tail.offset)
    <3>1. tail.len \in Nat /\ length[tail.file] \in Nat /\ tail.offset \in Nat /\ tail.file \in Files
      BY <2>3 DEF TypeOK, TailType
    <3>2. end \in Nat /\ first \in Nat /\ first <= end /\ end <= length[tail.file]
      BY <2>3, <3>1 DEF Min2
    <3>3. tail' = [tail EXCEPT !.pc = "ingest", !.offset = end, !.cut = FALSE,
                               !.lines = Lines(tail.file, first, end)]
      BY <1>6, <2>3 DEF Read, Pass
    <3> HIDE DEF end, first
    <3>4. /\ tail'.file = tail.file /\ tail'.pc = "ingest"
          /\ tail'.lines = Lines(tail.file, first, end)
      BY <3>3 DEF TypeOK, TailType
    <3>5. Written(Lines(tail.file, first, end), length)
      <4> DEFINE l == Lines(tail.file, first, end)
      <4>1. /\ l \in Seq(Entry) /\ Len(l) = end - first
            /\ \A i \in 1 .. end - first : l[i].file = tail.file /\ l[i].line = first + i
        BY ZenonT(60), <3>1, <3>2, LinesType
      <4>2. DOMAIN l = 1 .. end - first
        BY <4>1, ElementTypes
      <4> HIDE DEF l
      <4>3. \A i \in 1 .. end - first : first + i \in 1 .. length[tail.file]
        BY <3>1, <3>2
      <4> QED BY <4>1, <4>2, <4>3 DEF Written, l
    <3> QED BY <2>1, <3>4, <3>5 DEF LinesInv, DiskInv
  <2> QED BY <2>2, <2>3
<1>7. CASE Ingest
  <2> DEFINE s == store.entries \o tail.lines
  <2>1. /\ UNCHANGED <<disk, length>> /\ store'.entries = Keep(s)
        /\ tail'.pc = "look" /\ tail'.lines = <<>> /\ tail'.file = tail.file
    BY <1>7 DEF Ingest, Pass, TypeOK, TailType, StoreType
  <2>2. s \in Seq(Entry) /\ Written(s, length)
    BY <1>t, WrittenBoth, ConcatProperties DEF LinesInv
  <2> HIDE DEF s
  <2>3. Written(Keep(s), length) /\ Len(Keep(s)) <= Capacity
    BY <2>2, WrittenKept, KeepNewest
  <2>4. Written(<<>>, length)
    BY DEF Written
  <2> QED BY <2>1, <2>3, <2>4 DEF LinesInv, DiskInv
<1> QED BY <1>1, <1>2, <1>3, <1>4, <1>5, <1>6, <1>7 DEF Next, Run, Others

-----------------------------------------------------------------------------
(* What holds until a pass is crossed, step by step. *)

LEMMA InitOrder == Init => OrderInv
<1> SUFFICES ASSUME Init PROVE OrderInv
  OBVIOUS
<1>1. /\ store.entries = <<>> /\ tail.pc = "look" /\ tail.file = None
      /\ tail.path = store.path /\ tail.generation = 0 /\ store.generation = 0
  BY DEF Init
<1>2. Gapless(<<>>)
  BY DEF Gapless
<1> QED BY <1>1, <1>2 DEF OrderInv, PassInv

LEMMA FeedFields ==
    ASSUME FeedInv
    PROVE  /\ store.entries \in Seq(Entry) /\ store.path \in Paths /\ store.generation \in Nat
           /\ tail.path \in Paths /\ tail.generation \in Nat /\ tail.file \in Files \cup {None}
           /\ tail.offset \in Nat /\ tail.len \in Nat /\ tail.lines \in Seq(Entry) /\ tail.cut \in BOOLEAN
           /\ \A p \in Paths : disk[p] \in Files \cup {None}
           /\ \A f \in Files : length[f] \in Nat
           /\ \A i \in DOMAIN store.entries :
                store.entries[i].file \in Files /\ length[store.entries[i].file] > 0
           /\ None \notin Files
<1>1. /\ store.entries \in Seq(Entry) /\ store.path \in Paths /\ store.generation \in Nat
      /\ tail.path \in Paths /\ tail.generation \in Nat /\ tail.file \in Files \cup {None}
      /\ tail.offset \in Nat /\ tail.len \in Nat /\ tail.lines \in Seq(Entry) /\ tail.cut \in BOOLEAN
      /\ \A p \in Paths : disk[p] \in Files \cup {None}
      /\ \A f \in Files : length[f] \in Nat
  BY DEF FeedInv, TypeOK, StoreType, TailType
<1>2. ASSUME NEW i \in DOMAIN store.entries
      PROVE  store.entries[i].file \in Files /\ length[store.entries[i].file] > 0
  <2>1. store.entries[i].file \in Files /\ store.entries[i].line \in Nat
    BY <1>1, ElementTypes
  <2>2. store.entries[i].line \in 1 .. length[store.entries[i].file]
    BY DEF FeedInv, LinesInv, Written
  <2> QED BY <1>1, <2>1, <2>2
<1> QED BY <1>1, <1>2, FeedAssumption

\* The daemon: a name moves only to a file that nobody knows yet.
LEMMA DiskOrder ==
    ASSUME FeedInv, OrderInv, TypeOK', NEW p \in Paths,
           Append1(p) \/ RotateAway(p) \/ Create(p), ~crossed'
    PROVE  OrderInv'
<1>f. /\ store.path \in Paths /\ tail.file \in Files \cup {None} /\ tail.offset \in Nat
      /\ tail.len \in Nat /\ None \notin Files
      /\ \A q \in Paths : disk[q] \in Files \cup {None}
      /\ \A f \in Files : length[f] \in Nat
      /\ \A i \in DOMAIN store.entries :
           store.entries[i].file \in Files /\ length[store.entries[i].file] > 0
      /\ tail.file # None => length[tail.file] > 0
  BY FeedFields DEF FeedInv, LinesInv
<1>1. UNCHANGED <<store, tail>> /\ (\A f \in Files : length[f] <= length'[f] /\ length'[f] \in Nat)
  <2>1. \A f \in Files : length'[f] \in Nat
    BY DEF TypeOK
  <2> QED BY <2>1, DiskStep DEF FeedInv
<1>2. \A q \in Paths : \/ disk'[q] = disk[q]
                       \/ disk'[q] = None
                       \/ disk[q] = None /\ disk'[q] \in Files /\ length[disk'[q]] = 0
  <2>1. CASE Append1(p)
    BY <2>1 DEF Append1
  <2>2. CASE RotateAway(p)
    BY <2>2 DEF RotateAway, FeedInv, TypeOK
  <2>3. CASE Create(p)
    <3>1. PICK f \in Files : length[f] = 0 /\ disk' = [disk EXCEPT ![p] = f]
      BY <2>3 DEF Create
    <3> QED BY <2>3, <3>1 DEF Create, FeedInv, TypeOK
  <2> QED BY <2>1, <2>2, <2>3
<1>3. tail.pc = "open" /\ tail.generation = store.generation => disk'[store.path] = disk[store.path]
  <2> SUFFICES ASSUME tail.pc = "open", tail.generation = store.generation
               PROVE  disk'[store.path] = disk[store.path]
    OBVIOUS
  <2>1. tail.path = store.path /\ tail.seen # None /\ disk[store.path] = tail.seen
    BY DEF OrderInv, PassInv
  <2>2. CASE Append1(p)
    BY <2>2 DEF Append1
  <2>3. CASE RotateAway(p)
    <3>1. p # tail.path
      BY <2>3 DEF RotateAway
    <3> QED BY <2>1, <2>3, <3>1, <1>f DEF RotateAway, FeedInv, TypeOK
  <2>4. CASE Create(p)
    <3>1. p # store.path
      BY <2>1, <2>4 DEF Create
    <3> QED BY <2>4, <3>1, <1>f DEF Create, FeedInv, TypeOK
  <2> QED BY <2>2, <2>3, <2>4
<1>4. ASSUME tail.generation = store.generation PROVE PassInv'
  <2> USE DEF OrderInv, PassInv
  <2>1. tail.path = store.path
    BY <1>4
  <2>2. ASSUME NEW i \in DOMAIN store.entries
        PROVE  /\ store.entries[i].file = disk'[store.path] => tail.file = store.entries[i].file
               /\ \A q \in Paths \ {store.path} : disk'[q] # store.entries[i].file
    BY <1>f, <1>2, <1>4
  <2>3. tail.file # None => /\ tail.offset <= length'[tail.file]
                            /\ \A q \in Paths \ {store.path} : disk'[q] # tail.file
    BY <1>f, <1>1, <1>2, <1>4
  <2>4. tail.pc = "open" => disk'[store.path] = tail.seen /\ tail.len <= length'[tail.seen]
    <3>1. tail.pc = "open" => tail.seen \in Files /\ tail.len <= length[tail.seen]
      BY <1>f, <1>4
    <3> QED BY <1>f, <1>1, <1>3, <1>4, <3>1
  <2> QED BY <1>1, <1>4, <2>1, <2>2, <2>3, <2>4
<1> QED BY <1>1, <1>4 DEF OrderInv

\* The user: the view becomes empty.
LEMMA UserOrder ==
    ASSUME FeedInv, OrderInv, Clear \/ \E p \in Paths : SetPath(p), ~crossed'
    PROVE  OrderInv'
<1>1. store.generation \in Nat /\ tail.generation \in Nat
  BY FeedFields
<1>2. /\ Gapless(<<>>)
      /\ \A f, n : EndsAt(<<>>, f, n) /\ Lacks(<<>>, f)
  BY DEF Gapless, EndsAt, Lacks
<1>3. CASE Clear
  <2>1. /\ store'.entries = <<>> /\ store'.path = store.path /\ store'.generation = store.generation
        /\ UNCHANGED <<disk, length, tail>>
    BY <1>3 DEF Clear, FeedInv, TypeOK, StoreType
  <2>2. tail.generation = store.generation => PassInv'
    BY <1>2, <2>1 DEF OrderInv, PassInv
  <2> QED BY <1>2, <2>1, <2>2 DEF OrderInv
<1>4. ASSUME NEW p \in Paths, SetPath(p) PROVE OrderInv'
  <2>1. store'.entries = <<>> /\ store'.generation = store.generation + 1 /\ tail' = tail
    BY <1>4 DEF SetPath
  <2>2. tail.pc = "look" /\ tail.generation <= store.generation
    BY <1>4 DEF SetPath, OrderInv
  <2> QED BY <1>1, <1>2, <2>1, <2>2 DEF OrderInv
<1> QED BY <1>3, <1>4

\* The thread's looks at the switch and at the file.
LEMMA LookOrder == FeedInv /\ OrderInv /\ Look => OrderInv'
<1> SUFFICES ASSUME FeedInv, OrderInv, Look PROVE OrderInv'
  OBVIOUS
<1>f. store.generation \in Nat /\ tail \in TailType
  BY FeedFields DEF FeedInv, TypeOK
<1>1. /\ UNCHANGED <<disk, length, store>>
      /\ tail'.pc = "stat" /\ tail'.path = store.path /\ tail'.generation = store.generation
      /\ tail'.file = IF tail.generation # store.generation THEN None ELSE tail.file
      /\ tail'.id = tail.id /\ tail'.offset = tail.offset /\ tail'.lines = tail.lines /\ tail'.cut = tail.cut
  BY <1>f DEF Look, Pass, TailType
<1>2. CASE tail.generation = store.generation
  <2>1. PassInv'
    BY <1>1, <1>2 DEF OrderInv, PassInv
  <2> QED BY <1>f, <1>1, <2>1 DEF OrderInv
<1>3. CASE tail.generation # store.generation
  <2>1. store.entries = <<>>
    BY <1>3 DEF OrderInv
  <2>2. PassInv'
    BY <1>1, <1>3, <2>1 DEF PassInv
  <2> QED BY <1>f, <1>1, <2>2 DEF OrderInv
<1> QED BY <1>2, <1>3

LEMMA StatOrder == FeedInv /\ OrderInv /\ Stat => OrderInv'
<1> SUFFICES ASSUME FeedInv, OrderInv, Stat PROVE OrderInv'
  OBVIOUS
<1>f. /\ store.generation \in Nat /\ store.path \in Paths /\ tail \in TailType /\ tail.offset \in Nat
      /\ disk[store.path] \in Files \cup {None} /\ None \notin Files
      /\ tail.file \in Files \cup {None} /\ \A f \in Files : length[f] \in Nat
  BY FeedFields DEF FeedInv, TypeOK
<1>1. tail.pc = "stat" /\ PassInv /\ tail.generation = store.generation /\ tail.path = store.path
  BY DEF Stat, OrderInv, PassInv
<1> DEFINE name == disk[store.path]
<1>2. /\ UNCHANGED <<disk, length, store>>
      /\ tail'.path = tail.path /\ tail'.generation = tail.generation /\ tail'.seen = name
      /\ tail'.id = tail.id /\ tail'.offset = tail.offset /\ tail'.lines = tail.lines /\ tail'.cut = tail.cut
      /\ tail'.len = IF name = None THEN 0 ELSE length[name]
      /\ \/ name = None /\ tail'.pc = "look" /\ tail'.file = None
         \/ name # None /\ tail'.pc = "read" /\ tail'.file = tail.file
         \/ /\ name # None /\ tail'.pc = "open" /\ tail'.file = tail.file
            /\ tail.file = None \/ ~Follows(tail.file, name)
  <2> DEFINE seen == [tail EXCEPT !.seen = name, !.len = IF name = None THEN 0 ELSE length[name]]
  <2>1. UNCHANGED <<disk, length, store>>
        /\ tail' = IF name = None THEN [seen EXCEPT !.pc = "look", !.file = None]
                   ELSE IF tail.file # None /\ Follows(tail.file, name) THEN [seen EXCEPT !.pc = "read"]
                   ELSE [seen EXCEPT !.pc = "open"]
    BY <1>1 DEF Stat, Pass
  <2>2. /\ DOMAIN seen = DOMAIN tail /\ seen.path = tail.path /\ seen.generation = tail.generation
        /\ seen.seen = name /\ seen.id = tail.id /\ seen.offset = tail.offset /\ seen.lines = tail.lines
        /\ seen.cut = tail.cut /\ seen.file = tail.file
        /\ seen.len = IF name = None THEN 0 ELSE length[name]
        /\ {"pc", "file"} \subseteq DOMAIN seen
    BY <1>f DEF TailType
  <2> HIDE DEF seen, name
  <2> QED BY <2>1, <2>2
<1>3. tail'.pc = "open" => tail.file # name
  <2> SUFFICES ASSUME tail.file = name, name # None, ~Follows(tail.file, name) PROVE FALSE
    BY <1>2
  <2>1. tail.id = tail.file /\ tail.offset <= length[name]
    BY <1>1 DEF PassInv
  <2> QED BY <1>f, <2>1 DEF Follows
<1> HIDE DEF name
<1>4. name # None => length[name] <= length[name]
  BY <1>f DEF name
<1>5. PassInv'
  <2>1. ASSUME NEW i \in DOMAIN store.entries, store.entries[i].file = disk[store.path]
        PROVE  tail'.file = store.entries[i].file
    <3>1. store.entries[i].file \in Files
      BY FeedFields
    <3> QED BY <1>f, <1>1, <1>2, <2>1, <3>1 DEF PassInv, name
  <2> QED BY <1>1, <1>2, <1>3, <1>4, <2>1 DEF PassInv, name
<1> QED BY <1>f, <1>1, <1>2, <1>5 DEF OrderInv

\* The file that is opened is the one that was seen, and new to the view.
LEMMA OpenOrder == FeedInv /\ OrderInv /\ Open => OrderInv'
<1> SUFFICES ASSUME FeedInv, OrderInv, Open PROVE OrderInv'
  OBVIOUS
<1>f. /\ store.generation \in Nat /\ store.path \in Paths /\ tail \in TailType
      /\ disk[store.path] \in Files \cup {None} /\ tail.len \in Nat
      /\ \A f \in Files : length[f] \in Nat
  BY FeedFields DEF FeedInv, TypeOK
<1>1. tail.pc = "open" /\ PassInv /\ tail.generation = store.generation /\ tail.path = store.path
  BY DEF Open, OrderInv, PassInv
<1> DEFINE name == disk[store.path]
           from == IF store.entries = <<>> /\ tail.len > Backfill THEN tail.len - Backfill ELSE 0
<1>2. name = tail.seen /\ name # None /\ tail.len <= length[name] /\ tail.file # name
  BY <1>1 DEF PassInv
<1>3. from \in Nat /\ from <= length[name]
  BY <1>f, <1>2, FeedAssumption
<1>4. /\ UNCHANGED <<disk, length, store>>
      /\ tail'.path = tail.path /\ tail'.generation = tail.generation /\ tail'.pc = "read"
      /\ tail'.file = name /\ tail'.id = name /\ tail'.offset = from /\ tail'.lines = tail.lines
  <2>1. UNCHANGED <<disk, length, store>>
        /\ tail' = [tail EXCEPT !.pc = "read", !.file = name, !.id = tail.seen, !.offset = from, !.cut = from > 0]
    BY <1>1, <1>2 DEF Open, Pass
  <2> HIDE DEF from, name
  <2> QED BY <1>f, <1>2, <2>1 DEF TailType
<1> HIDE DEF from
<1>5. Lacks(store.entries, name)
  BY <1>1, <1>2 DEF PassInv, Lacks
<1>6. \A n : EndsAt(store.entries, name, n)
  BY <1>5 DEF EndsAt, Lacks
<1>7. \A q \in Paths \ {store.path} : disk[q] # name
  BY <1>f, <1>2 DEF FeedInv, DiskInv
<1>8. PassInv'
  BY <1>1, <1>2, <1>3, <1>4, <1>5, <1>6, <1>7 DEF PassInv, Lacks
<1> QED BY <1>f, <1>1, <1>4, <1>8 DEF OrderInv

LEMMA ReadOrder == FeedInv /\ OrderInv /\ Read => OrderInv'
<1> SUFFICES ASSUME FeedInv, OrderInv, Read PROVE OrderInv'
  OBVIOUS
<1>f. /\ store.generation \in Nat /\ tail \in TailType /\ tail.offset \in Nat /\ tail.len \in Nat
      /\ tail.file \in Files \cup {None} /\ \A f \in Files : length[f] \in Nat
      /\ tail.cut \in BOOLEAN
  BY FeedFields DEF FeedInv, TypeOK
<1>1. tail.pc = "read" /\ PassInv /\ tail.generation = store.generation /\ tail.path = store.path
      /\ tail.lines = <<>>
  BY DEF Read, OrderInv, PassInv, FeedInv, LinesInv
<1> DEFINE end   == Min2(tail.len, length[tail.file])
           first == IF tail.cut THEN tail.offset + 1 ELSE tail.offset
<1>2. CASE tail.file = None \/ end <= tail.offset
  <2>1. UNCHANGED <<disk, length, store>> /\ tail' = [tail EXCEPT !.pc = "look"]
    BY <1>2 DEF Read, Pass
  <2>2. /\ tail'.pc = "look" /\ tail'.path = tail.path /\ tail'.generation = tail.generation
        /\ tail'.file = tail.file /\ tail'.id = tail.id /\ tail'.offset = tail.offset
        /\ tail'.lines = tail.lines /\ tail'.cut = tail.cut
    BY <1>f, <2>1 DEF TailType
  <2>3. PassInv'
    BY <1>1, <2>1, <2>2 DEF PassInv
  <2> QED BY <1>1, <1>f, <2>1, <2>2, <2>3 DEF OrderInv
<1>3. CASE ~(tail.file = None \/ end <= tail.offset)
  <2>1. tail.file \in Files /\ length[tail.file] \in Nat
    BY <1>f, <1>3
  <2>2. end \in Nat /\ first \in Nat /\ first <= end /\ end <= length[tail.file]
    BY <1>f, <1>3, <2>1 DEF Min2
  <2>3. UNCHANGED <<disk, length, store>>
        /\ tail' = [tail EXCEPT !.pc = "ingest", !.offset = end, !.cut = FALSE,
                                !.lines = Lines(tail.file, first, end)]
    BY <1>3 DEF Read, Pass
  <2>4. EndsAt(store.entries, tail.file, first)
    <3>1. CASE tail.cut
      BY <1>1, <2>1, <3>1, FeedAssumption DEF PassInv, Lacks, EndsAt
    <3>2. CASE ~tail.cut
      <4>1. EndsAt(store.entries, tail.file, tail.offset - Len(tail.lines))
        BY <1>1, <2>1, FeedAssumption DEF PassInv
      <4>2. tail.offset - Len(tail.lines) = tail.offset
        BY <1>f, <1>1
      <4> QED BY <3>2, <4>1, <4>2
    <3> QED BY <3>1, <3>2
  <2> HIDE DEF end, first
  <2>5. /\ tail'.pc = "ingest" /\ tail'.path = tail.path /\ tail'.generation = tail.generation
        /\ tail'.file = tail.file /\ tail'.id = tail.id /\ tail'.offset = end
        /\ tail'.lines = Lines(tail.file, first, end) /\ tail'.cut = FALSE
    BY <1>f, <2>3 DEF TailType
  <2>6. Len(Lines(tail.file, first, end)) = end - first
    BY <2>1, <2>2, LinesType
  <2>7. end - Len(tail'.lines) = first /\ Len(tail'.lines) <= end
    BY <2>2, <2>5, <2>6
  <2>8. PassInv'
    <3>1. tail.file # None
      BY <1>3
    <3> QED BY <1>1, <2>1, <2>2, <2>3, <2>4, <2>5, <2>7, <3>1 DEF PassInv
  <2> QED BY <1>1, <1>f, <2>3, <2>5, <2>8 DEF OrderInv
<1> QED BY <1>2, <1>3

\* What was read comes in behind the rest.
LEMMA IngestOrder == FeedInv /\ OrderInv /\ Ingest => OrderInv'
<1> SUFFICES ASSUME FeedInv, OrderInv, Ingest PROVE OrderInv'
  OBVIOUS
<1>f. /\ store \in StoreType /\ tail \in TailType /\ store.entries \in Seq(Entry) /\ store.generation \in Nat
      /\ tail.lines \in Seq(Entry) /\ tail.offset \in Nat /\ tail.file \in Files \cup {None}
  BY FeedFields DEF FeedInv, TypeOK
<1> DEFINE s == store.entries \o tail.lines
           first == tail.offset - Len(tail.lines)
<1>1. /\ tail.pc = "ingest" /\ PassInv /\ Gapless(store.entries)
      /\ tail.generation = store.generation /\ tail.path = store.path
  BY DEF Ingest, OrderInv, PassInv
<1>2. /\ tail.file \in Files /\ tail.lines = Lines(tail.file, first, tail.offset)
      /\ first \in Nat /\ first <= tail.offset /\ EndsAt(store.entries, tail.file, first)
  <2>1. tail.file # None /\ Len(tail.lines) <= tail.offset /\ Len(tail.lines) \in Nat
    BY <1>f, <1>1 DEF PassInv
  <2> QED BY <1>f, <1>1, <2>1 DEF PassInv
<1>3. /\ UNCHANGED <<disk, length>>
      /\ store'.entries = Keep(s) /\ store'.path = store.path /\ store'.generation = store.generation
      /\ tail'.pc = "look" /\ tail'.path = tail.path /\ tail'.generation = tail.generation
      /\ tail'.file = tail.file /\ tail'.id = tail.id /\ tail'.offset = tail.offset
      /\ tail'.lines = <<>> /\ tail'.cut = tail.cut
  <2>1. /\ UNCHANGED <<disk, length>> /\ store' = [store EXCEPT !.entries = Keep(s)]
        /\ tail' = [tail EXCEPT !.pc = "look", !.lines = <<>>]
    BY DEF Ingest, Pass
  <2> HIDE DEF s
  <2> QED BY <1>f, <2>1 DEF StoreType, TailType
<1> HIDE DEF first
<1>4. s \in Seq(Entry) /\ Gapless(s) /\ EndsAt(s, tail.file, tail.offset)
  BY <1>f, <1>1, <1>2, LinesFit, ConcatProperties
<1>5. \A i \in DOMAIN s : s[i].file = tail.file \/ \E j \in DOMAIN store.entries : s[i] = store.entries[j]
  <2>1. /\ Len(store.entries) \in Nat /\ Len(tail.lines) \in Nat
        /\ DOMAIN store.entries = 1 .. Len(store.entries)
        /\ DOMAIN s = 1 .. Len(store.entries) + Len(tail.lines)
        /\ \A i \in 1 .. Len(store.entries) + Len(tail.lines) :
             s[i] = IF i <= Len(store.entries) THEN store.entries[i] ELSE tail.lines[i - Len(store.entries)]
    BY ZenonT(60), <1>f, <1>4, ConcatProperties, ElementTypes
  <2>2. \A i \in 1 .. Len(tail.lines) : tail.lines[i].file = tail.file
    <3>0. tail.file \in Files /\ first \in Nat /\ tail.offset \in Nat /\ first <= tail.offset
      BY <1>f, <1>2
    <3>1. /\ Len(Lines(tail.file, first, tail.offset)) = tail.offset - first
          /\ \A i \in 1 .. tail.offset - first : Lines(tail.file, first, tail.offset)[i].file = tail.file
      BY ZenonT(60), <3>0, LinesType
    <3> QED BY <1>2, <3>1
  <2> HIDE DEF s
  <2>3. ASSUME NEW i \in 1 .. Len(store.entries) + Len(tail.lines)
        PROVE  s[i].file = tail.file \/ \E j \in DOMAIN store.entries : s[i] = store.entries[j]
    <3>1. CASE i <= Len(store.entries)
      <4>1. i \in 1 .. Len(store.entries)
        BY <2>1, <3>1
      <4>2. s[i] = store.entries[i]
        BY <2>1, <3>1
      <4> QED BY <2>1, <4>1, <4>2
    <3>2. CASE ~(i <= Len(store.entries))
      <4>1. i - Len(store.entries) \in 1 .. Len(tail.lines)
        <5> DEFINE m == Len(store.entries)
                   n == Len(tail.lines)
        <5>1. m \in Nat /\ n \in Nat /\ i \in 1 .. m + n /\ ~(i <= m)
          BY <2>1, <3>2
        <5> HIDE DEF m, n
        <5>2. i - m \in 1 .. n
          BY <5>1
        <5> QED BY <5>2 DEF m, n
      <4>2. s[i] = tail.lines[i - Len(store.entries)]
        BY <2>1, <3>2
      <4> QED BY <2>2, <4>1, <4>2
    <3> QED BY <3>1, <3>2
  <2> QED BY <2>1, <2>3
<1> HIDE DEF s
<1>6. /\ Gapless(Keep(s)) /\ EndsAt(Keep(s), tail.file, tail.offset)
      /\ \A i \in DOMAIN Keep(s) : \E j \in DOMAIN s : Keep(s)[i] = s[j]
  BY <1>4, KeepNewest
<1>7. \A i \in DOMAIN Keep(s) :
        Keep(s)[i].file = tail.file \/ \E j \in DOMAIN store.entries : Keep(s)[i] = store.entries[j]
  <2>1. TAKE i \in DOMAIN Keep(s)
  <2>2. PICK j \in DOMAIN s : Keep(s)[i] = s[j]
    BY <1>6
  <2> QED BY <1>5, <2>2
<1>8. ~tail.cut
  BY <1>1 DEF PassInv
<1>9. PassInv'
  <2>1. tail.file # None
    BY <1>2, FeedAssumption
  <2>2. tail'.offset - Len(tail'.lines) = tail.offset
    BY <1>f, <1>3
  <2>3. ASSUME NEW i \in DOMAIN Keep(s)
        PROVE  /\ Keep(s)[i].file = disk[store.path] => tail.file = Keep(s)[i].file
               /\ \A q \in Paths \ {store.path} : disk[q] # Keep(s)[i].file
    BY <1>1, <1>7, <2>1 DEF PassInv
  <2> QED BY <1>1, <1>3, <1>6, <1>8, <2>1, <2>2, <2>3 DEF PassInv
<1> QED BY <1>1, <1>3, <1>6, <1>9, <1>f DEF OrderInv

LEMMA NextOrder ==
    ASSUME FeedInv, [Next]_vars
    PROVE  crossed' \/ OrderInv'
<1>t. TypeOK'
  BY NextTyped DEF FeedInv
<1> SUFFICES ASSUME ~crossed' PROVE OrderInv'
  OBVIOUS
<1>1. CASE UNCHANGED vars
  BY <1>1 DEF vars, FeedInv, OrderInv, PassInv
<1>2. CASE Next
  <2>1. ~crossed
    BY <1>2 DEF Next, Run, Others, Look, Stat, Open, Read, Ingest, Pass, Clear,
                SetPath, Append1, RotateAway, Create
  <2>2. OrderInv
    BY <2>1 DEF FeedInv
  <2>3. CASE Run
    BY <2>2, <2>3, LookOrder, StatOrder, OpenOrder, ReadOrder, IngestOrder DEF Run
  <2>4. ASSUME NEW p \in Paths, Append1(p) \/ RotateAway(p) \/ Create(p) PROVE OrderInv'
    BY <1>t, <2>2, <2>4, DiskOrder
  <2>5. CASE Clear \/ \E p \in Paths : SetPath(p)
    BY <2>2, <2>5, UserOrder
  <2> QED BY <1>2, <2>3, <2>4, <2>5 DEF Next, Others
<1> QED BY <1>1, <1>2

-----------------------------------------------------------------------------
LEMMA FeedSound == Spec => []FeedInv
<1>1. Init => FeedInv
  BY InitTyped, InitLines, InitOrder DEF FeedInv
<1>2. FeedInv /\ [Next]_vars => FeedInv'
  BY NextTyped, NextLines, NextOrder DEF FeedInv
<1> QED BY <1>1, <1>2, PTL DEF Spec

LEMMA FeedIsFaithful == FeedInv => FaithfulView
<1> SUFFICES ASSUME FeedInv PROVE FaithfulView
  OBVIOUS
<1>1. /\ store.entries \in Seq(Entry) /\ Len(store.entries) \in Nat
      /\ DOMAIN store.entries = 1 .. Len(store.entries)
      /\ \A i \in DOMAIN store.entries : store.entries[i].line \in Nat
  BY FeedFields, ElementTypes
<1>2. /\ Len(store.entries) <= Capacity
      /\ \A i \in DOMAIN store.entries : store.entries[i].line \in 1 .. length[store.entries[i].file]
  BY DEF FeedInv, LinesInv, Written
<1>3. ASSUME ~crossed, NEW i \in 1 .. Len(store.entries) - 1
      PROVE  LET a == store.entries[i]  b == store.entries[i + 1]
             IN  IF a.file = b.file THEN b.line = a.line + 1
                 ELSE \A j \in i + 1 .. Len(store.entries) : store.entries[j].file # a.file
  <2>1. /\ i \in DOMAIN store.entries /\ i + 1 \in DOMAIN store.entries /\ i <= i + 1
        /\ (i + 1) - i = 1
    BY <1>1
  <2>2. Gapless(store.entries)
    BY <1>3 DEF FeedInv, OrderInv
  <2>3. store.entries[i].file = store.entries[i + 1].file =>
          store.entries[i + 1].line = store.entries[i].line + 1
    <3>1. store.entries[i].file = store.entries[i + 1].file =>
            store.entries[i + 1].line = store.entries[i].line + ((i + 1) - i)
      BY <2>1, <2>2 DEF Gapless
    <3> QED BY <2>1, <3>1
  <2>4. ASSUME NEW j \in i + 1 .. Len(store.entries), store.entries[j].file = store.entries[i].file
        PROVE  store.entries[i + 1].file = store.entries[i].file
    <3>1. j \in DOMAIN store.entries /\ i <= j /\ i + 1 \in i .. j
      BY <1>1, <2>1
    <3> QED BY <2>1, <2>2, <2>4, <3>1 DEF Gapless
  <2> QED BY <2>3, <2>4
<1>4. ASSUME ~crossed, NEW i \in DOMAIN store.entries, NEW p \in Paths \ {store.path}
      PROVE  disk[p] # store.entries[i].file
  <2>1. OrderInv /\ DOMAIN store.entries # {}
    BY <1>4 DEF FeedInv
  <2>2. PassInv
    BY <2>1 DEF OrderInv
  <2> QED BY <2>2, <1>4 DEF PassInv
<1> QED BY <1>2, <1>3, <1>4 DEF FaithfulView

\* For any number of logs, files and entries: the view never has more entries than
\* its limit nor a line that was not written, and until a rotation or a switch
\* crosses a pass of the thread (logs.rs: LogFeed::run) it has each file's lines
\* once, in order and without gaps, and none of another path's log.
THEOREM ViewIsFaithful == Spec => []FaithfulView
<1> QED BY FeedSound, FeedIsFaithful, PTL
=============================================================================
