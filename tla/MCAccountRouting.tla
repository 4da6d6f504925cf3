-------------------------- MODULE MCAccountRouting --------------------------
(***************************************************************************)
(* Instances of AccountRouting for TLC.                                    *)
(***************************************************************************)
EXTENDS AccountRouting, TLC

CONSTANTS l1, l2, l3, k1, a1, a2, d1, d2, p1, p2, p3

MCOwner == l1 :> a1 @@ l2 :> a2 @@ l3 :> a1

TwoAccounts == a1 :> p1 @@ a2 :> p2
OneAccount  == a1 :> p1 @@ a2 :> None

\* URLs of one origin, "api", and of another one.
Api(path) == [origin |-> "api", path |-> path]
Elsewhere == [origin |-> "other", path |-> <<"v1">>]

Base == [service |-> "codex", fileOnly |-> TRUE, dirs |-> <<d1, d2>>, auth |-> "none", process |-> None,
         shell |-> None, byAccount |-> TwoAccounts, byDefault |-> None, fallback |-> None, probe |-> None, keyFallback |-> None, mcp |-> p3,
         keys |-> {[cred |-> k1, name |-> "key1", proxy |-> p3, account |-> None, base |-> Api(<<>>), shell |-> FALSE]},
         keysUnavailable |-> FALSE, broken |-> FALSE, urls |-> [a \in Apps |-> {}],
         upstream |-> [u \in {"account", "key"} |-> IF u = "key" THEN Api(<<>>) ELSE Elsewhere], asked |-> {}]

\* A provider, or settings file, that uses a saved login's token and has an
\* upstream of its own.
LoginKey(l, account) ==
    [cred |-> l, name |-> "key2", proxy |-> p3, account |-> account, base |-> Api(<<"v3">>), shell |-> FALSE]

\* A key whose variable only a login shell has, and which is a login's token.
ShellKey(l) == [LoginKey(l, None) EXCEPT !.base = Api(<<>>), !.shell = TRUE]

MCConfigs == {
    [Base EXCEPT !.keys = @ \cup {LoginKey(l2, a2)}],
    [Base EXCEPT !.fileOnly = FALSE, !.auth = "file", !.byAccount = OneAccount, !.byDefault = p3,
                 !.fallback = p2, !.keyFallback = p3, !.keys = @ \cup {LoginKey(l2, a2)}],
    [Base EXCEPT !.service = "claude", !.byAccount = OneAccount, !.probe = p3],
    [Base EXCEPT !.service = "claude", !.auth = "file", !.byAccount = OneAccount, !.byDefault = p3,
                 !.probe = p3, !.keyFallback = p2, !.keys = @ \cup {LoginKey(l1, None)}],
    [Base EXCEPT !.service = "claude", !.fileOnly = FALSE, !.dirs = <<>>, !.byAccount = OneAccount,
                 !.fallback = p2],
    [Base EXCEPT !.auth = "env", !.shell = l2, !.byAccount = OneAccount, !.byDefault = p3],
    [Base EXCEPT !.auth = "env", !.fileOnly = FALSE, !.process = l1, !.keys = @ \cup {LoginKey(l1, a1)}],
    [Base EXCEPT !.service = "claude", !.auth = "env", !.process = l1, !.dirs = <<>>, !.probe = p3],
    [Base EXCEPT !.fileOnly = FALSE, !.dirs = <<d1>>, !.byAccount = OneAccount, !.keys = @ \cup {ShellKey(l1)}],
    [Base EXCEPT !.service = "claude", !.dirs = <<d1>>, !.byAccount = OneAccount, !.probe = p3,
                 !.keys = @ \cup {ShellKey(l1)}],
    [Base EXCEPT !.service = "claude", !.dirs = <<d1>>, !.byAccount = OneAccount, !.broken = TRUE] }

\* Both applications declare /v1, Codex a base below it, and Claude one beside it.
Declared ==
    [a \in Apps |-> {[base |-> Api(<<"v1">>), proxy |-> p1]} \cup
        IF a = "codex" THEN {[base |-> Api(<<"v1", "models">>), proxy |-> p2]}
                       ELSE {[base |-> Api(<<"v2">>), proxy |-> p2], [base |-> Api(<<"v2", "models">>), proxy |-> p1]}]

\* What is declared for one application only.
OneDeclares(app) == [Declared EXCEPT ![app] = {}]

Named ==
    [scope : Apps \cup {"any"},
     url : {Api(p) : p \in {<<>>, <<"v1">>, <<"v1", "models">>, <<"v1", "messages">>, <<"v2", "models">>, <<"v3">>}}
           \cup {Elsewhere}]

UrlConfigs == {
    [c EXCEPT !.urls = urls, !.dirs = <<d1>>, !.asked = Named] :
        c \in {Base, [Base EXCEPT !.keys = @ \cup {LoginKey(l1, a1)}],
               [Base EXCEPT !.service = "claude", !.probe = p3]},
        urls \in {Declared, OneDeclares("codex"), OneDeclares("claude")} }

AllConfigs == MCConfigs \cup UrlConfigs

SlotSymmetry == Permutations(Slots)

\* Bound: the cache is the question where there are no sources, and there
\* the files do not matter.  Elsewhere two logins are enough, and two requests
\* run together only if they are of one login; the last change ends a login of
\* Claude; a client that names its account sees one change.
ByCredential ==
    IF config.dirs = <<>> /\ ~FromEnv
    THEN epoch = 0
         /\ \A r \in Slots : req[r].kind = "model" /\ req[r].bearer /\ req[r].cred \in Logins
    ELSE /\ \A d \in Dirs : l3 \notin {file[d].token, file[d].todo}
         /\ \A r \in Slots : req[r].cred # l3
         /\ epoch < MaxEpoch \/ (Claude /\ \A d \in Dirs : file[d].todo = None)
         /\ \A r \in Slots : req[r].claimed # None => req[r].kind # "usage" /\ epoch <= 1
         /\ \A r, s \in Slots :
                r # s => \/ At(r, "idle") \/ At(s, "idle")
                         \/ /\ req[r].cred = req[s].cred /\ req[r].claimed = None /\ req[s].claimed = None
                            /\ {req[r].kind, req[s].kind} = {"model", "refresh"}

\* Bound: requests that name their upstream come one at a time, and the files
\* rest meanwhile; one key and a login that is saved or not are enough.
Focused ==
    /\ \A d \in Dirs : file[d] \in [token : IF Saved THEN Opt(Logins) ELSE {None}, meta : Opt(Accounts),
                                     todo : Opt(Logins), env : IF FromEnv THEN {None, l1, l2} ELSE {None}]
    /\ IF config.asked # {}
       THEN /\ epoch = 0 /\ file[d1].token \in {None, l1} /\ file[d2].token = None
            /\ \A r \in Slots : At(r, "idle") \/ (req[r].target # None /\ req[r].cred \in {l1, k1})
            /\ \E r \in Slots : \A s \in Slots \ {r} : At(s, "idle")
       ELSE ByCredential
=============================================================================
