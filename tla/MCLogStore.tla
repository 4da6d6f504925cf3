----------------------------- MODULE MCLogStore -----------------------------
(***************************************************************************)
(* Instances of LogStore for TLC.                                          *)
(***************************************************************************)
EXTENDS LogStore, TLC

\* One account of Codex under two names, and a line without a name; the last
\* request came with an API key that is the account's, and has a name of its own.
OfAccount == [Line EXCEPT !.id = "1234"]

MCEntry == << [OfAccount EXCEPT !.label = "user@example.test"], OfAccount,
              [OfAccount EXCEPT !.label = "work", !.provider = "key"] >>

KeyConfigured == [k \in {<<"Codex", "key">>} |-> "key"]

FileSymmetry == Permutations(Files)

\* Bound: where the scan is the question, the daemon started at once has
\* neither crashed nor failed to write.
OneDaemon == /\ Is("down") => at = <<>> /\ clock = 0
             /\ Is("idle") => writer.handle # NoFile
             /\ \A f \in Files : ~file[f].torn

\* Bound: no scan, where the scan is not the question.
NoScanning == scan.pc = "off"

\* Bound: a scan begins once a request can have ended before it; one that
\* begins at time 1 may have files pruned under it at time 2.
Focused == NoScanning \/ (OneDaemon /\ scan.end > 0 /\ clock <= 2)
=============================================================================
