--------------------------- MODULE TrafficReport ---------------------------
(***************************************************************************)
(* Under which name the traffic view counts a request, and in which bar of *)
(* its chart: aggregate in gui/src/traffic.rs, with Entry of logs.rs.      *)
(*                                                                         *)
(* Abstracted: a line of the log is its fields, a missing field and an     *)
(* empty one being the same (""); of the path, "client" says whether it    *)
(* begins as one of Claude's does.                                         *)
(***************************************************************************)
EXTENDS Integers, Sequences

Events == {"request_finished", "request_rejected", "request_failed", "request_cancelled"}

LineType ==
    [event : Events \cup {"other"}, service : STRING, client : {"", "Claude", "Codex"},
     provider : STRING, id : STRING, label : STRING]

\* What a line without any of the optional fields is.
Line == [event |-> "request_finished", service |-> "codex", client |-> "Codex",
         provider |-> "", id |-> "", label |-> ""]

IsRequestEnd(e) == e.event \in Events

Or(a, b) == IF a # "" THEN a ELSE b

\* The service a line names, as it is called or as it stands; else the path's.
Service(e) ==
    CASE e.service = "claude" -> "Claude"
      [] e.service = "codex"  -> "Codex"
      [] OTHER -> Or(e.service, Or(e.client, "Unknown"))

\* Labels: what is known of accounts and keys, as a function on
\* <<service, name>>.  The configured ones come first.
Label(labels, service, name) ==
    IF name # "" /\ <<service, name>> \in DOMAIN labels THEN labels[<<service, name>>] ELSE ""

\* A line that names an account teaches its name, unless one is known.
Learn(labels, e) ==
    IF e.id # "" /\ e.label # "" /\ <<Service(e), e.id>> \notin DOMAIN labels
    THEN [k \in DOMAIN labels \cup {<<Service(e), e.id>>} |->
             IF k = <<Service(e), e.id>> THEN e.label ELSE labels[k]]
    ELSE labels

\* A file is read line by line.
LearnAll(labels, es) ==
    LET known[i \in 0 .. Len(es)] == IF i = 0 THEN labels ELSE Learn(known[i - 1], es[i])
    IN  known[Len(es)]

FallbackName(provider) ==
    CASE provider \in {"openai-fallback", "claude-api-key-fallback"} -> "api_key_fallback"
      [] provider = "claude-account-fallback" -> "account_fallback"
      [] OTHER -> provider

\* The key's name in the configuration, the account's, what the line itself says.
Credential(e, labels) ==
    Or(Label(labels, Service(e), e.provider),
    Or(Label(labels, Service(e), e.id),
    Or(e.label, Or(FallbackName(e.provider), Or(e.id, "Unidentified")))))

Group(e, labels) == <<Service(e), Credential(e, labels)>>
-----------------------------------------------------------------------------
(* The chart has 30 bars, whatever the range.                              *)

Bars == 30

Ranges == {30, 360, 720, 1440, 10080, 43200}

\* Both in minutes.
BucketMinutes(range) ==
    CASE range = 30 -> 1 [] range = 360 -> 12 [] range = 720 -> 24
      [] range = 1440 -> 48 [] range = 10080 -> 336 [] range = 43200 -> 1440

WindowStart(end, range) == end - range * 60000

\* The bar of a request; times are in milliseconds.
Slot(time, start, range) == (time - start) \div (BucketMinutes(range) * 60000)
=============================================================================
