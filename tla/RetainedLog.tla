---------------------------- MODULE RetainedLog ----------------------------
(***************************************************************************)
(* What the request log promises to who reads it, whatever files, renames, *)
(* crashes, imports and pruning are behind it: one log, in which a line is *)
(* stored at most once and from which only what is older than the          *)
(* retention is ever forgotten, and questions to it, each about the        *)
(* requests that ended in a window before it was asked.  An answer takes   *)
(* time.  It counts every request of the window that was in the log when   *)
(* the question was asked and is not older than the retention when it is   *)
(* answered, and others only if they were stored; each once.               *)
(***************************************************************************)
EXTENDS Integers, Sequences

CONSTANTS
    Lines,        \* the numbers of the lines
    Ends,         \* the lines that say how a request ended
    Retention, Window

VARIABLES
    clock,
    at,      \* the timestamp of each line
    stored,  \* the lines stored so far
    log,     \* the lines in the log
    query    \* a question, and the answer

vars == <<clock, at, stored, log, query>>

Idle == [stage |-> "idle", end |-> 0, due |-> {}, answer |-> [n \in Lines |-> 0]]

\* Request n ended in the window before end.
Concerns(n, end) == n \in Ends /\ at[n] >= end - Window /\ at[n] < end

Init == clock = 0 /\ at = <<>> /\ stored = {} /\ log = {} /\ query = Idle

Tick == clock' = clock + 1 /\ UNCHANGED <<at, stored, log, query>>

Stamp == at' = Append(at, clock) /\ UNCHANGED <<clock, stored, log, query>>

Store(n) ==
    /\ n \notin stored
    /\ stored' = stored \cup {n} /\ log' = log \cup {n}
    /\ UNCHANGED <<clock, at, query>>

Forget(old) ==
    /\ \A n \in old : at[n] < clock - Retention
    /\ log' = log \ old
    /\ UNCHANGED <<clock, at, stored, query>>

Ask ==
    /\ query.stage = "idle"
    /\ query' = [Idle EXCEPT !.stage = "asked", !.end = clock, !.due = {n \in log : Concerns(n, clock)}]
    /\ UNCHANGED <<clock, at, stored, log>>

Answer(counted) ==
    /\ query.stage = "asked"
    /\ {n \in query.due : at[n] >= clock - Retention} \subseteq counted
    /\ query' = [query EXCEPT !.stage = "answered",
                              !.answer = [n \in Lines |-> IF n \in counted THEN 1 ELSE 0]]
    /\ UNCHANGED <<clock, at, stored, log>>

\* The answer was taken, or the question is given up.
Drop ==
    /\ query.stage # "idle"
    /\ query' = Idle
    /\ UNCHANGED <<clock, at, stored, log>>

Next ==
    \/ Tick \/ Stamp \/ Ask \/ Drop
    \/ \E n \in 1 .. Len(at) : Store(n)
    \/ \E old \in SUBSET log : Forget(old)
    \/ \E counted \in SUBSET {n \in stored : Concerns(n, query.end)} : Answer(counted)

Spec == Init /\ [][Next]_vars
=============================================================================
