------------------------ MODULE AccountRoutingProofs ------------------------
(***************************************************************************)
(* Proofs about AccountRouting: types, whose account a request is routed   *)
(* as, where a request that names its upstream may go, and what is         *)
(* answered while no file changes.                                         *)
(***************************************************************************)
EXTENDS AccountRouting, FiniteSetTheorems, TLAPS

-----------------------------------------------------------------------------
(* The matcher of UrlRouting, for any set of valid routes: match_route     *)
(* keeps the first of the longest bases it meets, and it does not matter   *)
(* which one is the first, for there is only one.                          *)

\* Prefixes of one path are prefixes of each other.
LEMMA PrefixesNest ==
    ASSUME NEW S, NEW r \in Seq(S), NEW s \in Seq(S), NEW t \in Seq(S),
           IsPrefix(r, t), IsPrefix(s, t), Len(r) <= Len(s)
    PROVE  IsPrefix(r, s)
<1>1. /\ Len(r) <= Len(t) /\ SubSeq(r, 1, Len(r)) = SubSeq(t, 1, Len(r))
      /\ Len(s) <= Len(t) /\ SubSeq(s, 1, Len(s)) = SubSeq(t, 1, Len(s))
    BY Zenon DEF IsPrefix
<1>2. \A i \in 1 .. Len(r) : r[i] = t[i]
    <2>1. TAKE i \in 1 .. Len(r)
    <2>2. SubSeq(r, 1, Len(r))[i] = r[i] /\ SubSeq(t, 1, Len(r))[i] = t[i]
        BY <1>1
    <2> QED BY <1>1, <2>2
<1>3. \A i \in 1 .. Len(s) : s[i] = t[i]
    <2>1. TAKE i \in 1 .. Len(s)
    <2>2. SubSeq(s, 1, Len(s))[i] = s[i] /\ SubSeq(t, 1, Len(s))[i] = t[i]
        BY <1>1
    <2> QED BY <1>1, <2>2
<1>4. SubSeq(r, 1, Len(r)) = SubSeq(s, 1, Len(r))
    <2>1. \A i \in 1 .. Len(r) : r[i] = s[i]
        BY <1>2, <1>3
    <2> QED BY <2>1
<1> QED BY <1>4 DEF IsPrefix

\* The base that match_route chooses lies within every other base that contains
\* the URL: the longest one is the innermost one (README.md, "Codex API URL
\* routes").
THEOREM ChosenIsInnermost ==
    ASSUME NEW routes, \A a \in routes : a.base \in Urls, NEW url \in Urls,
           NEW a \in MatchRoute(routes, url), NEW b \in Matches(routes, url)
    PROVE  Under(b.base, a.base)
<1>1. /\ a \in routes /\ Under(a.base, url) /\ Len(b.base.path) <= Len(a.base.path)
      /\ b \in routes /\ Under(b.base, url)
    BY DEF MatchRoute, Matches
<1>2. /\ a.base.path \in Seq(Segments) /\ b.base.path \in Seq(Segments) /\ url.path \in Seq(Segments)
    BY <1>1 DEF Urls
<1>3. /\ a.base.origin = b.base.origin
      /\ IsPrefix(a.base.path, url.path) /\ IsPrefix(b.base.path, url.path)
    BY <1>1, Zenon DEF Under
<1>4. IsPrefix(b.base.path, a.base.path)
    BY <1>1, <1>2, <1>3, PrefixesNest
<1> QED BY <1>3, <1>4, Zenon DEF Under

\* No two routes are ever left to choose from, so the order in which the
\* configuration lists them decides nothing.
THEOREM ChoiceIsUnique ==
    ASSUME NEW routes, \A a \in routes : a.base \in Urls, ValidRoutes(routes), NEW url \in Urls,
           NEW a \in MatchRoute(routes, url), NEW b \in MatchRoute(routes, url)
    PROVE  a = b
<1>1. a \in Matches(routes, url) /\ b \in Matches(routes, url) /\ a \in routes /\ b \in routes
    BY DEF MatchRoute, Matches
<1>2. Under(b.base, a.base) /\ Under(a.base, b.base)
    BY <1>1, ChosenIsInnermost
<1>3. a.base.origin = b.base.origin /\ IsPrefix(a.base.path, b.base.path) /\ IsPrefix(b.base.path, a.base.path)
    BY <1>2, Zenon DEF Under
<1>4. a.base \in Urls /\ b.base \in Urls
    BY <1>1
<1>5. a.base.path = b.base.path
    <2>1. a.base.path \in Seq(Segments) /\ b.base.path \in Seq(Segments)
        BY <1>4 DEF Urls
    <2>2. /\ Len(a.base.path) = Len(b.base.path)
          /\ SubSeq(a.base.path, 1, Len(a.base.path)) = SubSeq(b.base.path, 1, Len(a.base.path))
        BY <1>3, <2>1 DEF IsPrefix
    <2>3. \A i \in 1 .. Len(a.base.path) : a.base.path[i] = b.base.path[i]
        <3>1. TAKE i \in 1 .. Len(a.base.path)
        <3>2. /\ SubSeq(a.base.path, 1, Len(a.base.path))[i] = a.base.path[i]
              /\ SubSeq(b.base.path, 1, Len(a.base.path))[i] = b.base.path[i]
            BY <2>1, <2>2
        <3> QED BY <2>2, <3>2
    <2> QED BY <2>1, <2>2, <2>3
<1>6. a.base = b.base
    BY <1>3, <1>4, <1>5 DEF Urls
<1> QED BY <1>1, <1>6 DEF ValidRoutes

-----------------------------------------------------------------------------
(* The requests. *)

USE RoutingAssumption

\* A route as an account is that of the credential, where the account is read
\* with the token, from it, or is the profile API's.
OwnGood(c, kind, cred, profiled, a) ==
    a.status = "routed" /\ kind # "refresh" /\ a.account # None /\ (c.service = "codex" \/ profiled)
        => cred \in Logins /\ a.account = Owner[cred]

DeclaredBy(c, t) == {app \in Apps : t.scope \in {"any", app} /\ \E b \in c.urls[app] : Under(b.base, t.url)}

\* Bases, for any configuration.
BasesOf(c, cred) ==
    {c.upstream[u] : u \in {"account", "key"}} \cup {k.base : k \in {key \in c.keys : key.cred = cred}}

\* What UrlRouted says of one answer.
UrlGood(c, t, bearer, cred, a) ==
    t # None =>
        /\ a.status = "conflict" <=> t.scope = "any" /\ DeclaredBy(c, t) = Apps
        /\ a.status = "routed" =>
            \/ \E app \in DeclaredBy(c, t) : \E b \in c.urls[app] :
                 /\ Under(b.base, t.url) /\ a = Routed(b.proxy, None)
                 /\ \A d \in c.urls[app] : Under(d.base, t.url) => Under(d.base, b.base)
            \/ DeclaredBy(c, t) = {} /\ \E base \in BasesOf(c, cred) : Under(base, t.url)
        /\ DeclaredBy(c, t) # {} /\ a.status \notin {"conflict", "routed"} => ~bearer /\ DeclaredBy(c, t) = {"codex"}

\* Only a saved login matches a source, Codex never asks for a profile, and who
\* is still on the way with an upstream of its own found it undeclared.
ReqInv(c, q) ==
    /\ q.found # <<>> => q.cred \in Logins
    /\ q.pc = "identify" => q.found # <<>>
    /\ q.pc # "answered" => ~q.profiled
    /\ c.service = "codex" => q.pc \in {"idle", "scan", "answered"}
    /\ q.target # None => q.kind = "model"
    /\ q.target # None /\ q.pc \notin {"idle", "answered"} =>
        /\ Declaring(c.urls, q.target) = {}
        /\ c.service = "claude" => Under(c.upstream["key"], q.target.url)
    /\ q.pc = "answered" =>
        OwnGood(c, q.kind, q.cred, q.profiled, q.answer) /\ UrlGood(c, q.target, q.bearer, q.cred, q.answer)

CacheInv(entries) ==
    /\ entries \in Seq([token : Logins, account : Accounts]) /\ Len(entries) <= Capacity
    /\ \A i, j \in DOMAIN entries : entries[i].token = entries[j].token => i = j
    /\ \A i \in DOMAIN entries : entries[i].account = Owner[entries[i].token]

RoutingInv ==
    /\ TypeOK /\ config \in Configs /\ CacheInv(cache)
    /\ \A r \in Slots : ReqInv(config, req[r])

-----------------------------------------------------------------------------
(* The records of requests. *)

WithAnswer(q, a, p, n) == [q EXCEPT !.pc = "answered", !.answer = a, !.profiled = p, !.until = n]

LEMMA AnsweredRecord ==
    ASSUME NEW q \in Requests, NEW a \in Answers, NEW n \in Nat, NEW p \in BOOLEAN,
           NEW R, R = WithAnswer(q, a, p, n)
    PROVE  /\ R \in Requests
           /\ R.pc = "answered" /\ R.answer = a /\ R.profiled = p
           /\ R.kind = q.kind /\ R.cred = q.cred /\ R.found = q.found /\ R.target = q.target
           /\ R.bearer = q.bearer
BY DEF Requests, WithAnswer

LEMMA SameProfiled ==
    ASSUME NEW q \in Requests, NEW a, NEW n
    PROVE  [q EXCEPT !.pc = "answered", !.answer = a, !.until = n] = WithAnswer(q, a, q.profiled, n)
BY DEF Requests, WithAnswer

WithSource(q, n, f, v, u, pc) ==
    [q EXCEPT !.next = n, !.found = f, !.value = v, !.unavailable = u, !.pc = pc]

WithChoice(q, b, p, pc) == [q EXCEPT !.account = b, !.proxy = p, !.pc = pc]

\* A new request, and the one that is answered at once.
Begun(kind, c, bearer, claimed, target, pc, a, since, until) ==
    [kind |-> kind, cred |-> c, bearer |-> bearer, claimed |-> claimed,
     pc |-> pc, next |-> 1, found |-> <<>>, value |-> None, unavailable |-> FALSE, account |-> None,
     proxy |-> None, profiled |-> FALSE, target |-> target, since |-> since, until |-> until, answer |-> a]

LEMMA BegunTyped ==
    ASSUME NEW kind \in Kinds, NEW c \in Creds, NEW bearer \in BOOLEAN, NEW claimed \in Opt(Accounts),
           NEW target \in Opt(config.asked), NEW pc \in {"scan", "decide", "answered"}, NEW a \in Answers,
           NEW since \in Nat, NEW until \in Nat
    PROVE  Begun(kind, c, bearer, claimed, target, pc, a, since, until) \in Requests
<1>1. <<>> \in Seq(Dirs \cup {"env"}) /\ None \in Opt(Logins) /\ None \in Opt(Accounts) /\ None \in Opt(Proxies)
    BY DEF Opt
<1> QED BY <1>1 DEF Requests, Begun

LEMMA BegunRecord ==
    ASSUME NEW kind, NEW c, NEW bearer, NEW claimed, NEW pc, NEW since, NEW R,
           R = [Idle EXCEPT !.kind = kind, !.cred = c, !.bearer = bearer, !.claimed = claimed, !.pc = pc, !.since = since]
    PROVE  R = Begun(kind, c, bearer, claimed, None, pc, Refused("none"), since, 0)
BY DEF Idle, Begun

LEMMA SentRecord ==
    ASSUME NEW c, NEW bearer, NEW target, NEW pc, NEW since, NEW R,
           R = [[Idle EXCEPT !.cred = c, !.bearer = bearer, !.target = target, !.since = since] EXCEPT !.pc = pc]
    PROVE  R = Begun("model", c, bearer, None, target, pc, Refused("none"), since, 0)
BY DEF Idle, Begun

-----------------------------------------------------------------------------
(* Answers. *)

\* What a step that concerns one request must show.
LEMMA StepKeeps ==
    ASSUME RoutingInv, NEW r \in Slots, NEW q \in Requests, ReqInv(config, q),
           req' = [req EXCEPT ![r] = q], config' = config, file' = file, epoch' = epoch, CacheInv(cache')
    PROVE  RoutingInv'
<1>1. Requests' = Requests
    BY DEF Requests, Opt, Answers
<1>2. req' \in [Slots -> Requests']
    BY <1>1 DEF RoutingInv, TypeOK
<1>3. TypeOK'
    BY <1>2 DEF RoutingInv, TypeOK, CacheInv
<1>4. ASSUME NEW s \in Slots PROVE ReqInv(config, req'[s])
    BY DEF RoutingInv, TypeOK
<1> QED BY <1>3, <1>4 DEF RoutingInv

\* The same of a step of the command line clients.
LEMMA FilesKeep ==
    ASSUME RoutingInv, Changed,
           file' \in [Dirs -> [token : Opt(Logins), meta : Opt(Accounts), todo : Opt(Logins), env : Opt(Logins)]]
    PROVE  RoutingInv'
<1>1. epoch' \in 0 .. MaxEpoch
    BY DEF Changed, RoutingInv, TypeOK
<1>2. Requests' = Requests
    BY DEF Changed, Requests, Opt, Answers
<1> QED BY <1>1, <1>2 DEF Changed, RoutingInv, TypeOK

LEMMA AnswerTypes ==
    ASSUME RoutingInv
    PROVE  /\ \A status \in Statuses : Refused(status) \in Answers
           /\ \A p \in Proxies, b \in Opt(Accounts) : Routed(p, b) \in Answers
           /\ \A b \in Opt(Accounts) : \A source : ByAccount(b, source) \in Answers
<1>1. config.byAccount \in [Accounts -> Opt(Proxies)] /\ config.byDefault \in Opt(Proxies) /\ config.fallback \in Opt(Proxies)
    BY DEF RoutingInv, TypeOK, ConfigType
<1>2. \A b \in Opt(Accounts) : \A source : Choice(b, source) \in Opt(Proxies)
    BY <1>1 DEF Choice, Else, Opt
<1>3. /\ \A status \in Statuses : Refused(status) \in Answers
      /\ \A p \in Proxies, b \in Opt(Accounts) : Routed(p, b) \in Answers
    BY DEF Refused, Routed, Answers, Opt, Statuses
<1> QED BY <1>2, <1>3 DEF ByAccount, Opt, Statuses

\* A request with no upstream of its own is none of UrlRouted's, and one with an
\* undeclared upstream must not be routed beyond its service's.
LEMMA Undeclared ==
    ASSUME NEW c, NEW t \in Targets, Declaring(c.urls, t) = {}, NEW bearer, NEW cred, NEW a,
           a.status # "conflict",
           a.status = "routed" => \E base \in BasesOf(c, cred) : Under(base, t.url)
    PROVE  UrlGood(c, t, bearer, cred, a)
<1>1. DeclaredBy(c, t) = {}
    BY Zenon DEF DeclaredBy, Declaring, Eligible, Matches, Targets
<1>2. Apps # {}
    BY DEF Apps
<1> QED BY <1>1, <1>2, Zenon DEF UrlGood

LEMMA AnswerKeeps ==
    ASSUME RoutingInv, NEW r \in Slots, NEW a \in Answers, NEW p \in BOOLEAN,
           req' = [req EXCEPT ![r] = WithAnswer(req[r], a, p, epoch)],
           config' = config, file' = file, epoch' = epoch, CacheInv(cache'),
           OwnGood(config, req[r].kind, req[r].cred, p, a),
           UrlGood(config, req[r].target, req[r].bearer, req[r].cred, a)
    PROVE  RoutingInv'
<1> DEFINE q == WithAnswer(req[r], a, p, epoch)
<1>1. req[r] \in Requests /\ epoch \in Nat /\ ReqInv(config, req[r])
    BY DEF RoutingInv, TypeOK
<1>2. /\ q \in Requests
      /\ q.pc = "answered" /\ q.answer = a /\ q.profiled = p
      /\ q.kind = req[r].kind /\ q.cred = req[r].cred /\ q.found = req[r].found /\ q.target = req[r].target
      /\ q.bearer = req[r].bearer
    BY <1>1, AnsweredRecord
<1>3. req' = [req EXCEPT ![r] = q]
    OBVIOUS
<1> HIDE DEF q
<1>4. ReqInv(config, q)
    BY <1>1, <1>2 DEF ReqInv
<1> QED BY <1>2, <1>3, <1>4, StepKeeps

\* The answers but the profiled ones, of requests on their way.
LEMMA PlainAnswer ==
    ASSUME RoutingInv, NEW r \in Slots, NEW a \in Answers, Answer(r, a),
           req[r].pc \notin {"idle", "answered"}, a.status # "conflict",
           OwnGood(config, req[r].kind, req[r].cred, FALSE, a),
           req[r].target # None /\ a.status = "routed" =>
                \E base \in BasesOf(config, req[r].cred) : Under(base, req[r].target.url)
    PROVE  RoutingInv'
<1>1. req[r] \in Requests /\ ReqInv(config, req[r]) /\ config.asked \subseteq Targets
    BY DEF RoutingInv, TypeOK, ConfigType
<1>2. req[r].profiled = FALSE /\ req[r].target \in Opt(config.asked)
    BY <1>1 DEF ReqInv, Requests
<1>3. UrlGood(config, req[r].target, req[r].bearer, req[r].cred, a)
    <2>1. CASE req[r].target = None
        BY <2>1 DEF UrlGood
    <2>2. CASE req[r].target # None
        <3>1. req[r].target \in Targets /\ Declaring(config.urls, req[r].target) = {}
            BY <1>1, <1>2, <2>2 DEF ReqInv, Opt
        <3> QED BY <2>2, <3>1, Undeclared
    <2> QED BY <2>1, <2>2
<1>4. [req[r] EXCEPT !.pc = "answered", !.answer = a, !.until = epoch] = WithAnswer(req[r], a, FALSE, epoch)
    BY <1>1, <1>2, SameProfiled
<1>5. req' = [req EXCEPT ![r] = WithAnswer(req[r], a, FALSE, epoch)]
    BY <1>4 DEF Answer, Answered
<1>6. config' = config /\ file' = file /\ epoch' = epoch /\ CacheInv(cache')
    BY DEF Answer, RoutingInv, CacheInv
<1> QED BY <1>3, <1>5, <1>6, AnswerKeeps

LEMMA BasesFacts ==
    ASSUME NEW c
    PROVE  /\ Bases(c) = BasesOf(config, c)
           /\ config.upstream["account"] \in Bases(c) /\ config.upstream["key"] \in Bases(c)
           /\ \A shell : \A k \in KeysFound(c, shell) : k \in Keys(c) /\ k.base \in Bases(c)
BY DEF Bases, BasesOf, Keys, KeysFound

LEMMA Finished ==
    ASSUME RoutingInv, NEW r \in Slots, NEW a \in Answers, a.status # "conflict", NEW m,
           NEW base \in Bases(req[r].cred)
    PROVE  /\ Finish(r, a, m, base) \in Answers /\ Finish(r, a, m, base).status # "conflict"
           /\ Finish(r, a, m, base) = a \/ Finish(r, a, m, base).account = None
           /\ req[r].target # None /\ Finish(r, a, m, base).status = "routed" =>
                \E b \in BasesOf(config, req[r].cred) : Under(b, req[r].target.url)
<1>1. config.mcp \in Proxies /\ None \in Opt(Accounts)
    BY DEF RoutingInv, TypeOK, ConfigType, Opt
<1>2. req[r].target # None => req[r].kind = "model"
    BY DEF RoutingInv, ReqInv
<1>3. /\ Routed(config.mcp, None) \in Answers /\ Refused("changed") \in Answers
      /\ Refused("forbidden") \in Answers /\ Refused("undeclared") \in Answers
    BY <1>1, AnswerTypes DEF Statuses
<1>4. /\ Routed(config.mcp, None).status = "routed" /\ Routed(config.mcp, None).account = None
      /\ \A s : Refused(s).status = s /\ Refused(s).account = None
    BY DEF Routed, Refused
<1> DEFINE f == Finish(r, a, m, base)
<1>5. CASE req[r].kind = "docs"
    <2>1. f = a \/ f = Routed(config.mcp, None)
        BY <1>5, Zenon DEF Finish
    <2> QED BY <1>2, <1>3, <1>4, <1>5, <2>1
<1>6. CASE req[r].kind # "docs"
    <2>1. \/ f = Refused("changed") \/ f = Refused("forbidden") \/ f = Refused("undeclared")
          \/ f = a /\ (a.status = "routed" /\ req[r].target # None => Under(base, req[r].target.url))
        BY <1>6, Zenon DEF Finish
    <2>2. base \in BasesOf(config, req[r].cred)
        BY BasesFacts
    <2>3. f = a /\ a.status = "routed" /\ req[r].target # None =>
                \E b \in BasesOf(config, req[r].cred) : Under(b, req[r].target.url)
        BY <2>1, <2>2, <1>4
    <2> QED BY <1>3, <1>4, <2>1, <2>3
<1> QED BY <1>5, <1>6

\* A way on that is neither an answer nor a new request.
LEMMA GoesOn ==
    ASSUME RoutingInv, NEW r \in Slots, NEW q \in Requests, Goes(r, q),
           req[r].pc \notin {"idle", "answered"}, q.pc \notin {"idle", "answered"},
           q.kind = req[r].kind, q.cred = req[r].cred, q.target = req[r].target, q.profiled = req[r].profiled,
           q.found # <<>> => q.cred \in Logins, q.pc = "identify" => q.found # <<>>,
           Codex => q.pc = "scan"
    PROVE  RoutingInv'
<1>1. ReqInv(config, req[r])
    BY DEF RoutingInv
<1>2. ReqInv(config, q)
    BY <1>1 DEF ReqInv, Codex
<1>3. req' = [req EXCEPT ![r] = q] /\ config' = config /\ file' = file /\ epoch' = epoch /\ CacheInv(cache')
    BY DEF Goes, RoutingInv
<1> QED BY <1>2, <1>3, StepKeeps

-----------------------------------------------------------------------------
(* The command line clients, and how a request begins. *)

LEMMA CommandLineKeeps ==
    ASSUME RoutingInv, CommandLine
    PROVE  RoutingInv'
<1>1. file \in [Dirs -> [token : Opt(Logins), meta : Opt(Accounts), todo : Opt(Logins), env : Opt(Logins)]]
    BY DEF RoutingInv, TypeOK
<1>2. \A l \in Logins : l \in Opt(Logins) /\ Owner[l] \in Opt(Accounts)
    BY DEF Opt
<1>3. None \in Opt(Logins) /\ None \in Opt(Accounts)
    BY DEF Opt
<1> PICK d \in Dirs :
        \/ ClaudeLoginEnds(d) \/ Logout(d)
        \/ \E l \in Logins : CodexLogin(d, l) \/ ClaudeLogin(d, l)
        \/ \E l \in Opt(Logins) : EditsEnv(d, l)
    BY DEF CommandLine
<1>4. CASE ClaudeLoginEnds(d)
    <2>1. file[d].todo \in Logins
        BY <1>1, <1>4 DEF ClaudeLoginEnds, Opt
    <2> QED BY <1>1, <1>2, <1>3, <1>4, <2>1, FilesKeep DEF ClaudeLoginEnds
<1>5. CASE Logout(d)
    BY <1>1, <1>3, <1>5, FilesKeep DEF Logout
<1>6. ASSUME NEW l \in Logins, CodexLogin(d, l) PROVE RoutingInv'
    BY <1>1, <1>2, <1>6, FilesKeep DEF CodexLogin
<1>7. ASSUME NEW l \in Logins, ClaudeLogin(d, l) PROVE RoutingInv'
    <2>1. file' \in [Dirs -> [token : Opt(Logins), meta : Opt(Accounts), todo : Opt(Logins), env : Opt(Logins)]]
        BY <1>1, <1>2, <1>7 DEF ClaudeLogin
    <2> QED BY <1>7, <2>1, FilesKeep DEF ClaudeLogin
<1>8. ASSUME NEW l \in Opt(Logins), EditsEnv(d, l) PROVE RoutingInv'
    BY <1>1, <1>8, FilesKeep DEF EditsEnv
<1> QED BY <1>4, <1>5, <1>6, <1>7, <1>8

LEMMA BeginKeeps ==
    ASSUME RoutingInv, NEW r \in Slots, NEW kind \in Kinds, NEW c \in Creds, NEW bearer \in BOOLEAN,
           NEW claimed \in Opt(Accounts), Begin(r, kind, c, bearer, claimed)
    PROVE  RoutingInv'
<1> DEFINE pc == IF bearer THEN "scan" ELSE "decide"
           q == Begun(kind, c, bearer, claimed, None, pc, Refused("none"), epoch, 0)
<1>1. epoch \in Nat /\ 0 \in Nat /\ None \in Opt(config.asked) /\ Refused("none") \in Answers /\ pc \in {"scan", "decide", "answered"}
    BY AnswerTypes DEF RoutingInv, TypeOK, Opt, Statuses
<1>2. /\ q.pc = pc /\ q.found = <<>> /\ q.profiled = FALSE
      /\ q.kind = kind /\ q.cred = c /\ q.target = None
    BY Zenon DEF Begun
<1>3. Goes(r, q)
    BY ZenonT(60), BegunRecord DEF Begin
<1>4. q \in Requests
    BY <1>1, BegunTyped, Zenon
<1>5. config.service \in {"codex", "claude"}
    BY DEF RoutingInv, TypeOK, ConfigType
<1> HIDE DEF q
<1>6. ReqInv(config, q)
    BY <1>2, <1>5 DEF ReqInv, Begin, Codex
<1>7. CacheInv(cache')
    BY <1>3 DEF Goes, RoutingInv
<1> QED BY <1>3, <1>4, <1>6, <1>7, StepKeeps DEF Goes

\* An answer to a request that has just come with its upstream.
LEMMA SentKeeps ==
    ASSUME RoutingInv, NEW r \in Slots, NEW target \in config.asked, NEW c \in Creds, NEW bearer \in BOOLEAN,
           NEW a \in Answers, a.account = None, UrlGood(config, target, bearer, c, a),
           Goes(r, Begun("model", c, bearer, None, target, "answered", a, epoch, epoch))
    PROVE  RoutingInv'
<1> DEFINE q == Begun("model", c, bearer, None, target, "answered", a, epoch, epoch)
<1>1. epoch \in Nat /\ target \in Opt(config.asked) /\ None \in Opt(Accounts) /\ "model" \in Kinds
      /\ "answered" \in {"scan", "decide", "answered"}
    BY DEF RoutingInv, TypeOK, Opt, Kinds
<1>2. /\ q.pc = "answered" /\ q.found = <<>> /\ q.profiled = FALSE
      /\ q.kind = "model" /\ q.cred = c /\ q.target = target /\ q.bearer = bearer /\ q.answer = a
    BY Zenon DEF Begun
<1>3. q \in Requests
    BY <1>1, BegunTyped, Zenon
<1>7. Goes(r, q)
    OBVIOUS
<1> HIDE DEF q
<1>4. OwnGood(config, "model", c, FALSE, a)
    BY DEF OwnGood
<1>5. ReqInv(config, q)
    BY <1>2, <1>4 DEF ReqInv
<1>6. CacheInv(cache')
    BY <1>7 DEF Goes, RoutingInv
<1> QED BY <1>3, <1>5, <1>6, <1>7, StepKeeps DEF Goes

\* What is declared for one application takes the innermost route.
LEMMA DeclaredRoute ==
    ASSUME RoutingInv, NEW t \in Targets, NEW app, Declaring(config.urls, t) = {app}, app \in Apps,
           NEW x \in MatchRoute(config.urls[app], t.url), NEW bearer, NEW cred
    PROVE  /\ x.proxy \in Proxies
           /\ UrlGood(config, t, bearer, cred, Routed(x.proxy, None))
<1>1. /\ config.urls[app] \in SUBSET [base : Urls, proxy : Proxies]
      /\ t.url \in Urls
    BY DEF RoutingInv, TypeOK, ConfigType, Targets
<1>2. x \in config.urls[app] /\ Under(x.base, t.url)
    BY Zenon DEF MatchRoute, Matches
<1>3. x.proxy \in Proxies /\ \A b \in config.urls[app] : b.base \in Urls
    BY <1>1, <1>2
<1>4. \A d \in config.urls[app] : Under(d.base, t.url) => Under(d.base, x.base)
    <2>1. TAKE d \in config.urls[app]
    <2>2. HAVE Under(d.base, t.url)
    <2>3. d \in Matches(config.urls[app], t.url)
        BY <2>2, Zenon DEF Matches
    <2> QED BY <1>1, <1>3, <2>3, ChosenIsInnermost
<1>5. DeclaredBy(config, t) = {app}
    <2>1. \A p \in Apps : p \in DeclaredBy(config, t) <=> p \in Declaring(config.urls, t)
        BY Zenon DEF DeclaredBy, Declaring, Eligible, Matches, Targets
    <2>2. DeclaredBy(config, t) \subseteq Apps
        BY DEF DeclaredBy
    <2> QED BY <2>1, <2>2
<1>6. {app} # Apps
    BY DEF Apps
<1>7. Routed(x.proxy, None).status = "routed"
    BY DEF Routed
<1> HIDE DEF DeclaredBy
<1>8. \E b \in config.urls[app] :
        /\ Under(b.base, t.url) /\ Routed(x.proxy, None) = Routed(b.proxy, None)
        /\ \A d \in config.urls[app] : Under(d.base, t.url) => Under(d.base, b.base)
    BY <1>2, <1>4
<1>9. UrlGood(config, t, bearer, cred, Routed(x.proxy, None))
    BY <1>5, <1>6, <1>7, <1>8, Zenon DEF UrlGood
<1> QED BY <1>3, <1>9

LEMMA BeginExplicitKeeps ==
    ASSUME RoutingInv, NEW r \in Slots, NEW target \in config.asked, NEW c \in Creds, NEW bearer \in BOOLEAN,
           BeginExplicit(r, target, c, bearer)
    PROVE  RoutingInv'
<1> DEFINE apps == Declaring(config.urls, target)
           answers(a) == Goes(r, Begun("model", c, bearer, None, target, "answered", a, epoch, epoch))
           pc == IF bearer THEN "scan" ELSE "decide"
           q == Begun("model", c, bearer, None, target, pc, Refused("none"), epoch, 0)
<1>1. target \in Targets /\ target # None
    BY DEF RoutingInv, TypeOK, ConfigType
<1>2. \/ apps = Apps /\ answers(Refused("conflict"))
      \/ apps = {"codex"} /\ ~bearer /\ answers(Refused("refused"))
      \/ \E app \in apps : apps = {app} /\ \E x \in MatchRoute(config.urls[app], target.url) : answers(Routed(x.proxy, None))
      \/ apps = {} /\ Codex /\ ~bearer /\ answers(Refused("refused"))
      \/ apps = {} /\ Claude /\ ~Under(config.upstream["key"], target.url) /\ answers(Refused("undeclared"))
      \/ apps = {} /\ (Codex => bearer) /\ (Claude => Under(config.upstream["key"], target.url)) /\ Goes(r, q)
    <2> DEFINE sent == [Idle EXCEPT !.cred = c, !.bearer = bearer, !.target = target, !.since = epoch]
               late(a) == Goes(r, [sent EXCEPT !.pc = "answered", !.answer = a, !.until = epoch])
               later == Goes(r, [sent EXCEPT !.pc = pc])
    <2>1. ASSUME NEW a, late(a) PROVE answers(a)
        <3> DEFINE b == Begun("model", c, bearer, None, target, "answered", a, epoch, epoch)
        <3>1. ASSUME NEW R, R = [sent EXCEPT !.pc = "answered", !.answer = a, !.until = epoch]
              PROVE  R = b
            BY <3>1 DEF Idle, Begun
        <3> HIDE DEF b
        <3>2. [sent EXCEPT !.pc = "answered", !.answer = a, !.until = epoch] = b
            BY <3>1, Zenon
        <3> QED BY <2>1, <3>2 DEF b
    <2>2. later => Goes(r, q)
        BY SentRecord, Zenon
    <2>3. config.service \in {"codex", "claude"} /\ ~(Codex /\ Claude)
        BY DEF RoutingInv, TypeOK, ConfigType, Codex, Claude
    <2>4. \/ apps = Apps /\ late(Refused("conflict"))
          \/ apps = {"codex"} /\ ~bearer /\ late(Refused("refused"))
          \/ \E app \in apps : apps = {app} /\ \E x \in MatchRoute(config.urls[app], target.url) : late(Routed(x.proxy, None))
          \/ /\ apps = {}
             /\ IF Codex /\ ~bearer THEN late(Refused("refused"))
                ELSE IF Claude /\ ~Under(config.upstream["key"], target.url) THEN late(Refused("undeclared"))
                ELSE later
        BY Zenon DEF BeginExplicit
    <2> HIDE DEF late, later, answers, q, apps
    <2>5. \/ apps = Apps /\ late(Refused("conflict"))
          \/ apps = {"codex"} /\ ~bearer /\ late(Refused("refused"))
          \/ \E app \in apps : apps = {app} /\ \E x \in MatchRoute(config.urls[app], target.url) : late(Routed(x.proxy, None))
          \/ apps = {} /\ Codex /\ ~bearer /\ late(Refused("refused"))
          \/ apps = {} /\ Claude /\ ~Under(config.upstream["key"], target.url) /\ late(Refused("undeclared"))
          \/ apps = {} /\ (Codex => bearer) /\ (Claude => Under(config.upstream["key"], target.url)) /\ later
        BY <2>4
    <2> QED BY <2>1, <2>2, <2>5, Zenon
<1>3. /\ Refused("conflict") \in Answers /\ Refused("refused") \in Answers /\ Refused("undeclared") \in Answers
      /\ Refused("none") \in Answers
      /\ \A p \in Proxies : Routed(p, None) \in Answers
    BY AnswerTypes DEF Statuses, Opt
<1>4. /\ \A s : Refused(s).status = s /\ Refused(s).account = None
      /\ \A p : Routed(p, None).account = None
    BY DEF Refused, Routed
<1>5. apps = DeclaredBy(config, target)
    BY <1>1, Zenon DEF DeclaredBy, Declaring, Eligible, Matches, Targets
<1>6. apps = Apps => target.scope = "any"
    <2>1. target.scope # "any" => apps \subseteq {target.scope}
        BY Zenon DEF Declaring, Eligible
    <2>2. Apps \subseteq {target.scope} => FALSE
        BY DEF Apps
    <2> QED BY <2>1, <2>2, Zenon
<1>7. Apps # {} /\ Apps # {"codex"} /\ apps \subseteq Apps
    BY <1>5 DEF Apps, DeclaredBy
<1> HIDE DEF apps
<1>8. CASE apps = Apps /\ answers(Refused("conflict"))
    <2>1. UrlGood(config, target, bearer, c, Refused("conflict"))
        BY <1>4, <1>5, <1>6, <1>8, Zenon DEF UrlGood
    <2> QED BY <1>3, <1>4, <1>8, <2>1, SentKeeps
<1>9. CASE apps = {"codex"} /\ ~bearer /\ answers(Refused("refused"))
    <2>1. UrlGood(config, target, bearer, c, Refused("refused"))
        BY <1>4, <1>5, <1>7, <1>9, Zenon DEF UrlGood
    <2> QED BY <1>3, <1>4, <1>9, <2>1, SentKeeps
<1>10. ASSUME NEW app \in apps, apps = {app}, NEW x \in MatchRoute(config.urls[app], target.url),
              answers(Routed(x.proxy, None))
       PROVE  RoutingInv'
    <2>1. app \in Apps /\ Declaring(config.urls, target) = {app}
        BY <1>7, <1>10 DEF apps
    <2>2. x.proxy \in Proxies /\ UrlGood(config, target, bearer, c, Routed(x.proxy, None))
        BY <1>1, <2>1, DeclaredRoute
    <2> QED BY <1>3, <1>4, <1>10, <2>2, SentKeeps
<1>11. CASE apps = {} /\ ~bearer /\ answers(Refused("refused"))
    <2>1. UrlGood(config, target, bearer, c, Refused("refused"))
        BY <1>4, <1>5, <1>7, <1>11, Zenon DEF UrlGood
    <2> QED BY <1>3, <1>4, <1>11, <2>1, SentKeeps
<1>12. CASE apps = {} /\ answers(Refused("undeclared"))
    <2>1. UrlGood(config, target, bearer, c, Refused("undeclared"))
        BY <1>4, <1>5, <1>7, <1>12, Zenon DEF UrlGood
    <2> QED BY <1>3, <1>4, <1>12, <2>1, SentKeeps
<1>13. CASE apps = {} /\ (Codex => bearer) /\ (Claude => Under(config.upstream["key"], target.url)) /\ Goes(r, q)
    <2>1. epoch \in Nat /\ target \in Opt(config.asked) /\ None \in Opt(Accounts) /\ "model" \in Kinds
          /\ pc \in {"scan", "decide", "answered"} /\ 0 \in Nat
        BY DEF RoutingInv, TypeOK, Opt, Kinds
    <2>2. /\ q.pc = pc /\ q.found = <<>> /\ q.profiled = FALSE
          /\ q.kind = "model" /\ q.cred = c /\ q.target = target
        BY Zenon DEF Begun
    <2>3. q \in Requests
        BY <1>3, <2>1, BegunTyped, Zenon
    <2>4. Goes(r, q) /\ CacheInv(cache')
        BY <1>13 DEF Goes, RoutingInv
    <2> HIDE DEF q
    <2>5. ReqInv(config, q)
        BY <1>13, <2>2 DEF ReqInv, Codex, Claude, apps
    <2> QED BY <2>3, <2>4, <2>5, StepKeeps DEF Goes
<1> QED BY <1>2, <1>8, <1>9, <1>10, <1>11, <1>12, <1>13, Zenon

-----------------------------------------------------------------------------
(* The sources are read. *)

LEMMA ScanGoes ==
    ASSUME RoutingInv, NEW r \in Slots, req[r].pc = "scan",
           NEW n \in Nat \ {0}, NEW f \in Seq(Dirs \cup {"env"}), NEW v \in Opt(Logins), NEW u \in BOOLEAN,
           NEW pc \in {"scan", "identify"}, Codex => pc = "scan",
           f # <<>> => req[r].cred \in Logins, pc = "identify" => f # <<>>,
           Goes(r, WithSource(req[r], n, f, v, u, pc))
    PROVE  RoutingInv'
<1> DEFINE q == WithSource(req[r], n, f, v, u, pc)
<1>1. req[r] \in Requests
    BY DEF RoutingInv, TypeOK
<1>2. ASSUME NEW S, S = q
      PROVE  /\ S \in Requests
             /\ S.pc = pc /\ S.found = f /\ S.profiled = req[r].profiled
             /\ S.kind = req[r].kind /\ S.cred = req[r].cred /\ S.target = req[r].target
    BY <1>1, <1>2 DEF Requests, WithSource
<1>3. Goes(r, q)
    OBVIOUS
<1> HIDE DEF q
<1> QED BY <1>2, <1>3, GoesOn

LEMMA SamePc ==
    ASSUME NEW q \in Requests, NEW n, NEW f, NEW u
    PROVE  [q EXCEPT !.next = n, !.found = f, !.unavailable = u] = WithSource(q, n, f, q.value, u, q.pc)
BY DEF Requests, WithSource

LEMMA SameFound ==
    ASSUME NEW q \in Requests, NEW n, NEW v
    PROVE  [q EXCEPT !.next = n, !.value = v] = WithSource(q, n, q.found, v, q.unavailable, q.pc)
BY DEF Requests, WithSource

LEMMA SameStop ==
    ASSUME NEW q \in Requests, NEW n, NEW u
    PROVE  [q EXCEPT !.next = n, !.unavailable = u] = WithSource(q, n, q.found, q.value, u, q.pc)
BY DEF Requests, WithSource

\* A request while the sources are read.
LEMMA RequestFields ==
    ASSUME RoutingInv, NEW r \in Slots
    PROVE  /\ req[r] \in Requests /\ ReqInv(config, req[r])
           /\ req[r].next \in Nat \ {0} /\ req[r].found \in Seq(Dirs \cup {"env"})
           /\ req[r].value \in Opt(Logins) /\ req[r].unavailable \in BOOLEAN /\ req[r].cred \in Creds
           /\ req[r].account \in Opt(Accounts) /\ req[r].proxy \in Opt(Proxies)
BY DEF RoutingInv, TypeOK, Requests

\* Only a login is ever found in a file or a variable.
LEMMA FoundIsLogin ==
    ASSUME NEW token \in Opt(Logins), NEW c \in Creds, token = c
    PROVE  c \in Logins
BY DEF Opt, Creds

LEMMA PlaceFacts ==
    ASSUME RoutingInv
    PROVE  /\ Places \in Seq(Dirs) /\ Len(Places) \in Nat /\ Sources + 1 \in Nat \ {0}
           /\ \A n \in Nat \ {0} : n <= Len(Places) => Places[n] \in Dirs
           /\ \A d \in Dirs : file[d].token \in Opt(Logins) /\ file[d].env \in Opt(Logins) /\ file[d].meta \in Opt(Accounts)
           /\ config.process \in Opt(Logins) /\ config.shell \in Opt(Logins)
<1>1. config.dirs \in Seq(Dirs) /\ config.process \in Opt(Logins) /\ config.shell \in Opt(Logins)
    BY DEF RoutingInv, TypeOK, ConfigType
<1>2. Places \in Seq(Dirs)
    BY <1>1 DEF Places
<1>3. \A d \in Dirs : file[d].token \in Opt(Logins) /\ file[d].env \in Opt(Logins) /\ file[d].meta \in Opt(Accounts)
    BY DEF RoutingInv, TypeOK
<1>4. \A n \in Nat \ {0} : n <= Len(Places) => Places[n] \in Dirs
    BY <1>2
<1>5. Len(Places) \in Nat /\ Sources + 1 \in Nat \ {0}
    BY <1>2 DEF Sources
<1> QED BY <1>1, <1>2, <1>3, <1>4, <1>5

LEMMA ReadSourceKeeps ==
    ASSUME RoutingInv, NEW r \in Slots, ReadSource(r)
    PROVE  RoutingInv'
<1> DEFINE d     == Places[req[r].next]
           match == file[d].token = req[r].cred
           n     == req[r].next + 1
           f     == IF match THEN AnotherMatch(req[r].found, d) ELSE req[r].found
           u     == req[r].unavailable \/ file[d].token = None
           pc    == IF Claude /\ req[r].kind = "refresh" /\ match THEN "identify" ELSE req[r].pc
<1>1. req[r].pc = "scan" /\ req[r].next <= Len(Places)
    BY DEF ReadSource, Scanning, At
<1>2. d \in Dirs /\ file[d].token \in Opt(Logins)
    BY <1>1, RequestFields, PlaceFacts
<1>3. n \in Nat \ {0} /\ u \in BOOLEAN
    BY RequestFields
<1>4. match => req[r].cred \in Logins
    BY <1>2, RequestFields, FoundIsLogin
<1>5. f \in Seq(Dirs \cup {"env"})
    BY <1>2, RequestFields DEF AnotherMatch
<1>6. f # <<>> => req[r].cred \in Logins
    BY <1>4, RequestFields DEF ReqInv
<1>7. pc \in {"scan", "identify"} /\ (Codex => pc = "scan") /\ (pc = "identify" => match)
    BY <1>1 DEF Codex, Claude
<1>9. match => f # <<>>
    <2>1. Len(Append(req[r].found, d)) = Len(req[r].found) + 1 /\ Len(req[r].found) \in Nat
        BY <1>2, RequestFields
    <2>2. Append(req[r].found, d) # <<>>
        BY <2>1
    <2> QED BY <2>2, Zenon DEF AnotherMatch
<1>8. Goes(r, WithSource(req[r], n, f, req[r].value, u, pc))
    <2>1. Goes(r, [req[r] EXCEPT !.next = n, !.found = f, !.unavailable = u, !.pc = pc])
        BY Zenon DEF ReadSource
    <2> HIDE DEF n, f, u, pc
    <2>2. [req[r] EXCEPT !.next = n, !.found = f, !.unavailable = u, !.pc = pc]
            = WithSource(req[r], n, f, req[r].value, u, pc)
        <3>1. req[r] \in Requests
            BY RequestFields
        <3> QED BY <3>1 DEF Requests, WithSource
    <2> QED BY <2>1, <2>2, Zenon
<1> HIDE DEF n, f, u, pc
<1> QED BY <1>1, <1>3, <1>5, <1>6, <1>7, <1>8, <1>9, RequestFields, ScanGoes

LEMMA ReadHomeKeeps ==
    ASSUME RoutingInv, NEW r \in Slots, ReadHome(r)
    PROVE  RoutingInv'
<1> DEFINE value == Else(file[Places[req[r].next]].env, config.process)
           v     == Else(req[r].value, value)
<1>1. req[r].pc = "scan" /\ req[r].next <= Len(Places)
    BY DEF ReadHome, Scanning, At
<1>2. value \in Opt(Logins) /\ v \in Opt(Logins)
    BY <1>1, RequestFields, PlaceFacts DEF Else
<1>3. req[r].next + 1 \in Nat \ {0} /\ Sources + 1 \in Nat \ {0} /\ TRUE \in BOOLEAN
    BY RequestFields, PlaceFacts
<1>4. req[r].found # <<>> => req[r].cred \in Logins
    BY RequestFields DEF ReqInv
<1>5. \/ Goes(r, [req[r] EXCEPT !.next = req[r].next + 1, !.value = v])
      \/ Goes(r, [req[r] EXCEPT !.next = Sources + 1, !.unavailable = TRUE])
    BY Zenon DEF ReadHome
<1> HIDE DEF v
<1>6. \/ Goes(r, WithSource(req[r], req[r].next + 1, req[r].found, v, req[r].unavailable, req[r].pc))
      \/ Goes(r, WithSource(req[r], Sources + 1, req[r].found, req[r].value, TRUE, req[r].pc))
    BY ZenonT(60), <1>5, RequestFields, SameFound, SameStop
<1> QED BY <1>1, <1>2, <1>3, <1>4, <1>6, RequestFields, ScanGoes

LEMMA ReadVariableKeeps ==
    ASSUME RoutingInv, NEW r \in Slots, ReadVariable(r)
    PROVE  RoutingInv'
<1> DEFINE value == Else(req[r].value, Else(config.process, config.shell))
           n     == req[r].next + 1
           f     == IF value = req[r].cred /\ req[r].kind # "refresh" THEN <<"env">> ELSE req[r].found
           u     == req[r].unavailable \/ (value = None /\ (Codex \/ req[r].kind # "refresh"))
<1>1. req[r].pc = "scan"
    BY DEF ReadVariable, At
<1>2. value \in Opt(Logins)
    BY RequestFields, PlaceFacts DEF Else
<1>3. n \in Nat \ {0} /\ u \in BOOLEAN
    BY RequestFields
<1>4. f \in Seq(Dirs \cup {"env"})
    <2>1. <<"env">> \in Seq(Dirs \cup {"env"})
        OBVIOUS
    <2>2. req[r].found \in Seq(Dirs \cup {"env"})
        BY RequestFields
    <2> QED BY <2>1, <2>2, Zenon
<1>5. f # <<>> => req[r].cred \in Logins
    BY <1>2, RequestFields, FoundIsLogin DEF ReqInv
<1>6. Goes(r, WithSource(req[r], n, f, req[r].value, u, req[r].pc))
    <2>1. Goes(r, [req[r] EXCEPT !.next = n, !.found = f, !.unavailable = u])
        BY Zenon DEF ReadVariable
    <2> HIDE DEF n, f, u
    <2>2. [req[r] EXCEPT !.next = n, !.found = f, !.unavailable = u]
            = WithSource(req[r], n, f, req[r].value, u, req[r].pc)
        <3>1. req[r] \in Requests
            BY RequestFields
        <3>2. \A m, g, w : [req[r] EXCEPT !.next = m, !.found = g, !.unavailable = w]
                             = WithSource(req[r], m, g, req[r].value, w, req[r].pc)
            BY <3>1, SamePc
        <3> QED BY <3>2, Zenon
    <2> QED BY <2>1, <2>2, Zenon
<1> HIDE DEF n, f, u
<1> QED BY <1>1, <1>3, <1>4, <1>5, <1>6, RequestFields, ScanGoes

-----------------------------------------------------------------------------
(* The decision. *)

\* An account that an unprofiled answer names must be the credential's in Codex.
LEMMA FinishKeeps ==
    ASSUME RoutingInv, NEW r \in Slots, NEW a \in Answers, NEW m, NEW base \in Bases(req[r].cred), a.status # "conflict",
           req[r].pc \notin {"idle", "answered"},
           OwnGood(config, req[r].kind, req[r].cred, FALSE, a),
           Answer(r, Finish(r, a, m, base))
    PROVE  RoutingInv'
<1> DEFINE f == Finish(r, a, m, base)
<1>1. /\ f \in Answers /\ f.status # "conflict"
      /\ f = a \/ f.account = None
      /\ req[r].target # None /\ f.status = "routed" =>
            \E b \in BasesOf(config, req[r].cred) : Under(b, req[r].target.url)
    BY Finished
<1>2. Answer(r, f)
    OBVIOUS
<1> HIDE DEF f
<1>3. OwnGood(config, req[r].kind, req[r].cred, FALSE, f)
    BY <1>1 DEF OwnGood
<1> QED BY <1>1, <1>2, <1>3, PlainAnswer

\* Refusals, and answers to requests for a refresh.
LEMMA RefusalKeeps ==
    ASSUME RoutingInv, NEW r \in Slots, NEW status \in Statuses, status \notin {"conflict", "routed"},
           req[r].pc \notin {"idle", "answered"}, Answer(r, Refused(status))
    PROVE  RoutingInv'
<1> DEFINE a == Refused(status)
<1>1. a \in Answers /\ a.status = status
    BY AnswerTypes DEF Refused
<1>2. Answer(r, a)
    OBVIOUS
<1> HIDE DEF a
<1>3. OwnGood(config, req[r].kind, req[r].cred, FALSE, a)
    BY <1>1 DEF OwnGood
<1> QED BY <1>1, <1>2, <1>3, PlainAnswer

LEMMA RefreshKeeps ==
    ASSUME RoutingInv, NEW r \in Slots, NEW a \in Answers, a.status # "conflict",
           req[r].pc \notin {"idle", "answered"}, req[r].kind = "refresh", Answer(r, a)
    PROVE  RoutingInv'
<1>1. req[r].target = None
    BY RequestFields DEF ReqInv
<1>2. OwnGood(config, req[r].kind, req[r].cred, FALSE, a)
    BY DEF OwnGood
<1> QED BY <1>1, <1>2, PlainAnswer

LEMMA NoRouteIsRefusal ==
    ASSUME NEW r
    PROVE  \E status \in {"unavailable", "refused"} : NoRoute(r) = Refused(status)
BY Zenon DEF NoRoute

LEMMA ByAccountStatus ==
    ASSUME NEW b, NEW source
    PROVE  /\ ByAccount(b, source).status \in {"routed", "unmapped"}
           /\ ByAccount(b, source).account \in {None, b}
BY DEF ByAccount, Routed, Refused

LEMMA CodexRefreshKeeps ==
    ASSUME RoutingInv, NEW r \in Slots, CodexRefresh(r)
    PROVE  RoutingInv'
<1> DEFINE d == Places[req[r].next]
           a == ByAccount(Owner[req[r].cred], d)
<1>1. req[r].pc = "scan" /\ req[r].next <= Len(Places) /\ file[d].token = req[r].cred
      /\ req[r].kind = "refresh" /\ Answer(r, a)
    BY DEF CodexRefresh, Scanning, At
<1>2. d \in Dirs /\ file[d].token \in Opt(Logins)
    BY <1>1, RequestFields, PlaceFacts
<1>3. req[r].cred \in Logins
    BY <1>1, <1>2, RequestFields, FoundIsLogin
<1>4. Owner[req[r].cred] \in Opt(Accounts)
    BY <1>3 DEF Opt
<1>5. a \in Answers /\ a.status # "conflict"
    BY <1>4, AnswerTypes, ByAccountStatus
<1> HIDE DEF a
<1> QED BY <1>1, <1>5, RefreshKeeps

LEMMA RefreshUnmatchedKeeps ==
    ASSUME RoutingInv, NEW r \in Slots, RefreshUnmatched(r)
    PROVE  RoutingInv'
<1>1. req[r].pc = "scan" /\ req[r].kind = "refresh"
    BY DEF RefreshUnmatched, Scanned, At
<1>2. \/ config.fallback # None /\ Answer(r, Routed(config.fallback, None))
      \/ Answer(r, NoRoute(r))
    BY Zenon DEF RefreshUnmatched
<1>3. CASE config.fallback # None /\ Answer(r, Routed(config.fallback, None))
    <2>1. config.fallback \in Opt(Proxies) /\ None \in Opt(Accounts)
        BY DEF RoutingInv, TypeOK, ConfigType, Opt
    <2>2. Routed(config.fallback, None) \in Answers /\ Routed(config.fallback, None).status # "conflict"
        BY <1>3, <2>1, AnswerTypes DEF Opt, Routed
    <2> QED BY <1>1, <1>3, <2>2, RefreshKeeps
<1>4. CASE Answer(r, NoRoute(r))
    BY <1>1, <1>4, NoRouteIsRefusal, RefusalKeeps DEF Statuses
<1> QED BY <1>2, <1>3, <1>4

LEMMA ClaudeRefreshKeeps ==
    ASSUME RoutingInv, NEW r \in Slots, ClaudeRefresh(r)
    PROVE  RoutingInv'
<1> DEFINE a == ByAccount(req[r].account, req[r].found[1])
<1>1. req[r].pc = "scan" /\ req[r].kind = "refresh"
    BY DEF ClaudeRefresh, Scanned, At
<1>2. Answer(r, Refused("ambiguous")) \/ Answer(r, a)
    BY Zenon DEF ClaudeRefresh
<1>3. a \in Answers /\ a.status # "conflict"
    BY RequestFields, AnswerTypes, ByAccountStatus
<1> HIDE DEF a
<1>4. CASE Answer(r, Refused("ambiguous"))
    BY <1>1, <1>4, RefusalKeeps DEF Statuses
<1>5. CASE Answer(r, a)
    BY <1>1, <1>3, <1>5, RefreshKeeps
<1> QED BY <1>2, <1>4, <1>5

LEMMA NoRouteKeeps ==
    ASSUME RoutingInv, NEW r \in Slots, NEW m, req[r].pc \notin {"idle", "answered"},
           NEW base \in Bases(req[r].cred), Answer(r, Finish(r, NoRoute(r), m, base))
    PROVE  RoutingInv'
<1>1. PICK status \in {"unavailable", "refused"} : NoRoute(r) = Refused(status)
    BY NoRouteIsRefusal
<1>2. /\ Refused(status) \in Answers /\ Refused(status).status # "conflict"
      /\ OwnGood(config, req[r].kind, req[r].cred, FALSE, Refused(status))
    BY AnswerTypes DEF Statuses, Refused, OwnGood
<1> QED BY <1>1, <1>2, FinishKeeps

\* An API key's account, if any, is that of the login the key is.
LEMMA KeyFacts ==
    ASSUME RoutingInv, NEW r \in Slots, NEW k \in Keys(req[r].cred)
    PROVE  /\ k.proxy \in Proxies /\ k.account \in Opt(Accounts)
           /\ k.account # None => req[r].cred \in Logins /\ k.account = Owner[req[r].cred]
<1>1. k \in config.keys /\ k.cred = req[r].cred
    BY DEF Keys
<1>2. config.keys \subseteq [cred : Creds, name : {"key1", "key2"}, proxy : Proxies, account : Opt(Accounts),
                            base : Urls, shell : BOOLEAN]
    BY DEF RoutingInv, TypeOK, ConfigType
<1>3. k.account # None => k.cred \in Logins /\ k.account = Owner[k.cred]
    BY <1>1, ConfigsAssumption DEF RoutingInv
<1> QED BY <1>1, <1>2, <1>3

LEMMA CodexDecideKeeps ==
    ASSUME RoutingInv, NEW r \in Slots, CodexDecide(r)
    PROVE  RoutingInv'
<1> DEFINE c == req[r].cred
           goes(a, base) == Answer(r, Finish(r, a, a.account # None, base))
           answer(a) == goes(a, config.upstream["account"])
           own == ByAccount(Owner[c], req[r].found[1])
           claimed == ByAccount(Owner[c], None)
<1>1. req[r].pc \notin {"idle", "answered"}
    BY DEF CodexDecide, Scanned, At
<1>2. \/ answer(Refused("ambiguous"))
      \/ req[r].found # <<>> /\ answer(own)
      \/ c \in Logins /\ answer(claimed)
      \/ \E shell : \E k \in KeysFound(c, shell) : goes(Routed(k.proxy, k.account), k.base)
      \/ config.keyFallback # None /\ goes(Routed(config.keyFallback, None), config.upstream["key"])
      \/ answer(NoRoute(r))
    BY Zenon DEF CodexDecide, SavedAccount
<1>3. /\ config.upstream["account"] \in Bases(c) /\ config.upstream["key"] \in Bases(c)
       /\ \A shell : \A k \in KeysFound(c, shell) : k \in Keys(c) /\ k.base \in Bases(c)
    BY BasesFacts
<1>4. None \in Opt(Accounts) /\ \A l \in Logins : Owner[l] \in Opt(Accounts)
    BY DEF Opt
<1>5. CASE answer(Refused("ambiguous"))
    <2>1. /\ Refused("ambiguous") \in Answers /\ Refused("ambiguous").status # "conflict"
          /\ OwnGood(config, req[r].kind, c, FALSE, Refused("ambiguous"))
        BY AnswerTypes DEF Statuses, Refused, OwnGood
    <2> QED BY <1>1, <1>3, <1>5, <2>1, FinishKeeps
<1>6. ASSUME NEW source, c \in Logins, answer(ByAccount(Owner[c], source))
      PROVE  RoutingInv'
    <2> DEFINE b == ByAccount(Owner[c], source)
    <2>1. b \in Answers /\ b.status # "conflict" /\ b.account \in {None, Owner[c]}
        BY <1>4, <1>6, AnswerTypes, ByAccountStatus
    <2>2. answer(b)
        BY <1>6
    <2> HIDE DEF b
    <2>3. OwnGood(config, req[r].kind, c, FALSE, b)
        BY <1>6, <2>1 DEF OwnGood
    <2> QED BY <1>1, <1>3, <2>1, <2>2, <2>3, FinishKeeps
<1>7. CASE req[r].found # <<>> /\ answer(own)
    <2>1. c \in Logins
        BY <1>7, RequestFields DEF ReqInv
    <2> QED BY <1>6, <1>7, <2>1
<1>8. ASSUME NEW k \in Keys(c), k.base \in Bases(c), goes(Routed(k.proxy, k.account), k.base)
      PROVE  RoutingInv'
    <2>1. /\ k.proxy \in Proxies /\ k.account \in Opt(Accounts)
          /\ k.account # None => c \in Logins /\ k.account = Owner[c]
        BY KeyFacts
    <2>2. /\ Routed(k.proxy, k.account) \in Answers
          /\ Routed(k.proxy, k.account).status = "routed"
          /\ Routed(k.proxy, k.account).account = k.account
        BY <2>1, AnswerTypes DEF Routed
    <2>3. OwnGood(config, req[r].kind, c, FALSE, Routed(k.proxy, k.account))
        BY <2>1, <2>2 DEF OwnGood
    <2> QED BY <1>1, <1>3, <1>8, <2>2, <2>3, FinishKeeps
<1>9. CASE config.keyFallback # None /\ goes(Routed(config.keyFallback, None), config.upstream["key"])
    <2>1. config.keyFallback \in Proxies
        BY <1>9 DEF RoutingInv, TypeOK, ConfigType, Opt
    <2>2. /\ Routed(config.keyFallback, None) \in Answers
          /\ Routed(config.keyFallback, None).status = "routed"
          /\ Routed(config.keyFallback, None).account = None
        BY <1>4, <2>1, AnswerTypes DEF Routed
    <2>3. OwnGood(config, req[r].kind, c, FALSE, Routed(config.keyFallback, None))
        BY <2>2 DEF OwnGood
    <2> QED BY <1>1, <1>3, <1>9, <2>2, <2>3, FinishKeeps
<1>10. CASE answer(NoRoute(r))
    BY <1>1, <1>3, <1>10, NoRouteKeeps
<1> QED BY <1>2, <1>3, <1>5, <1>6, <1>7, <1>8, <1>9, <1>10

\* A Claude request on its way: the answers it may get, and the ways on.
LEMMA ChoiceGoes ==
    ASSUME RoutingInv, NEW r \in Slots, req[r].pc \notin {"idle", "answered"}, ~Codex,
           NEW b \in Opt(Accounts), NEW p \in Opt(Proxies),
           NEW pc \in {"scan", "identify", "decide", "cached", "profile"},
           pc = "identify" => req[r].found # <<>>,
           Goes(r, WithChoice(req[r], b, p, pc))
    PROVE  RoutingInv'
<1> DEFINE q == WithChoice(req[r], b, p, pc)
<1>1. req[r] \in Requests
    BY RequestFields
<1>2. ASSUME NEW S, S = q
      PROVE  /\ S \in Requests
             /\ S.pc = pc /\ S.found = req[r].found /\ S.profiled = req[r].profiled
             /\ S.kind = req[r].kind /\ S.cred = req[r].cred /\ S.target = req[r].target
    BY <1>1, <1>2 DEF Requests, WithChoice
<1>3. Goes(r, q)
    OBVIOUS
<1> HIDE DEF q
<1>4. q.found # <<>> => q.cred \in Logins
    BY <1>2, RequestFields DEF ReqInv
<1> QED BY <1>2, <1>3, <1>4, GoesOn

LEMMA SameAccount ==
    ASSUME NEW q \in Requests, NEW p, NEW pc
    PROVE  [q EXCEPT !.proxy = p, !.pc = pc] = WithChoice(q, q.account, p, pc)
BY DEF Requests, WithChoice

LEMMA SameProxy ==
    ASSUME NEW q \in Requests, NEW b, NEW pc
    PROVE  [q EXCEPT !.account = b, !.pc = pc] = WithChoice(q, b, q.proxy, pc)
BY DEF Requests, WithChoice

LEMMA SameChoice ==
    ASSUME NEW q \in Requests, NEW pc
    PROVE  [q EXCEPT !.pc = pc] = WithChoice(q, q.account, q.proxy, pc)
BY DEF Requests, WithChoice

LEMMA ClaudeScannedKeeps ==
    ASSUME RoutingInv, NEW r \in Slots, ClaudeScanned(r)
    PROVE  RoutingInv'
<1> DEFINE pc == IF req[r].found = <<>> THEN "decide" ELSE "identify"
<1>1. req[r].pc \notin {"idle", "answered"} /\ ~Codex
    BY DEF ClaudeScanned, Scanned, At, Claude, Codex
<1>2. \/ Answer(r, Refused("ambiguous"))
      \/ Goes(r, [req[r] EXCEPT !.pc = pc])
    BY Zenon DEF ClaudeScanned
<1>3. pc \in {"scan", "identify", "decide", "cached", "profile"} /\ (pc = "identify" => req[r].found # <<>>)
    OBVIOUS
<1> HIDE DEF pc
<1>4. CASE Answer(r, Refused("ambiguous"))
    BY <1>1, <1>4, RefusalKeeps DEF Statuses
<1>5. CASE Goes(r, [req[r] EXCEPT !.pc = pc])
    <2>1. Goes(r, WithChoice(req[r], req[r].account, req[r].proxy, pc))
        <3>1. [req[r] EXCEPT !.pc = pc] = WithChoice(req[r], req[r].account, req[r].proxy, pc)
            <4>1. req[r] \in Requests
                BY RequestFields
            <4> QED BY <4>1, SameChoice, Zenon
        <3> QED BY <1>5, <3>1, Zenon
    <2> QED BY <1>1, <1>3, <2>1, RequestFields, ChoiceGoes
<1> QED BY <1>2, <1>4, <1>5

\* Only the Claude side identifies, decides and asks for profiles.
LEMMA OnlyClaude ==
    ASSUME RoutingInv, NEW r \in Slots, req[r].pc \notin {"idle", "scan", "answered"}
    PROVE  ~Codex /\ config.service = "claude"
<1>1. config.service \in {"codex", "claude"}
    BY DEF RoutingInv, TypeOK, ConfigType
<1> QED BY <1>1, RequestFields DEF ReqInv, Codex

LEMMA ChoiceTyped ==
    ASSUME RoutingInv, NEW b \in Opt(Accounts), NEW source
    PROVE  Choice(b, source) \in Opt(Proxies)
<1>1. config.byAccount \in [Accounts -> Opt(Proxies)] /\ config.byDefault \in Opt(Proxies) /\ config.fallback \in Opt(Proxies)
    BY DEF RoutingInv, TypeOK, ConfigType
<1> QED BY <1>1 DEF Choice, Else, Opt

LEMMA IdentifyKeeps ==
    ASSUME RoutingInv, NEW r \in Slots, Identify(r)
    PROVE  RoutingInv'
<1> DEFINE d       == Last(req[r].found)
           account == IF d = "env" THEN None ELSE file[d].meta
           proxy   == Choice(account, d)
<1>1. req[r].pc = "identify"
    BY DEF Identify, At
<1>2. d \in Dirs \cup {"env"}
    <2>1. req[r].found # <<>> /\ req[r].found \in Seq(Dirs \cup {"env"})
        BY <1>1, RequestFields DEF ReqInv
    <2> QED BY <2>1 DEF Last
<1>3. account \in Opt(Accounts)
    BY <1>2, PlaceFacts DEF Opt
<1>4. proxy \in Opt(Proxies)
    BY <1>3, ChoiceTyped
<1>5. ~Codex
    BY <1>1, OnlyClaude
<1>6. \/ Goes(r, [req[r] EXCEPT !.account = account, !.pc = "scan"])
      \/ Goes(r, [req[r] EXCEPT !.account = account, !.proxy = proxy, !.pc = "decide"])
      \/ Answer(r, Refused("unmapped"))
    BY Zenon DEF Identify
<1> HIDE DEF account, proxy
<1>7. CASE Goes(r, [req[r] EXCEPT !.account = account, !.pc = "scan"])
    <2>1. Goes(r, WithChoice(req[r], account, req[r].proxy, "scan"))
        <3>1. [req[r] EXCEPT !.account = account, !.pc = "scan"] = WithChoice(req[r], account, req[r].proxy, "scan")
            <4>1. req[r] \in Requests
                BY RequestFields
            <4> QED BY <4>1, SameProxy, Zenon
        <3> QED BY <1>7, <3>1, Zenon
    <2> QED BY <1>1, <1>3, <1>5, <2>1, RequestFields, ChoiceGoes
<1>8. CASE Goes(r, [req[r] EXCEPT !.account = account, !.proxy = proxy, !.pc = "decide"])
    <2>1. Goes(r, WithChoice(req[r], account, proxy, "decide"))
        BY <1>8, Zenon DEF WithChoice
    <2> QED BY <1>1, <1>3, <1>4, <1>5, <2>1, ChoiceGoes
<1>9. CASE Answer(r, Refused("unmapped"))
    BY <1>1, <1>9, RefusalKeeps DEF Statuses
<1> QED BY <1>6, <1>7, <1>8, <1>9

\* Claude's answers to requests that are not the profile API's name an account
\* of which this invariant says nothing (MetadataOfToken does not hold).
LEMMA ClaudeFinishKeeps ==
    ASSUME RoutingInv, NEW r \in Slots, req[r].pc = "decide",
           NEW p \in Proxies, NEW b \in Opt(Accounts), NEW m,
           NEW base \in Bases(req[r].cred), Answer(r, Finish(r, Routed(p, b), m, base))
    PROVE  RoutingInv'
<1>1. config.service = "claude"
    BY OnlyClaude
<1>2. Routed(p, b) \in Answers /\ Routed(p, b).status # "conflict"
    BY AnswerTypes DEF Routed
<1>3. OwnGood(config, req[r].kind, req[r].cred, FALSE, Routed(p, b))
    BY <1>1 DEF OwnGood
<1> QED BY <1>2, <1>3, FinishKeeps

LEMMA ClaudeDecideKeeps ==
    ASSUME RoutingInv, NEW r \in Slots, ClaudeDecide(r)
    PROVE  RoutingInv'
<1> DEFINE probe == Else(config.probe, config.fallback)
<1>1. req[r].pc = "decide"
    BY DEF ClaudeDecide, At
<1>2. ~Codex /\ None \in Opt(Accounts)
    BY <1>1, OnlyClaude DEF Opt
<1>3. probe \in Opt(Proxies) /\ config.keyFallback \in Opt(Proxies)
    BY DEF RoutingInv, TypeOK, ConfigType, Else, Opt
<1> DEFINE c == req[r].cred
           goes(p, b, m, base) == Answer(r, Finish(r, Routed(p, b), m, base))
<1>4. /\ config.upstream["key"] \in Bases(c)
       /\ \A shell : \A k \in KeysFound(c, shell) : k \in Keys(c) /\ k.base \in Bases(c)
    BY BasesFacts
<1>5. \/ Answer(r, Refused("unavailable"))
      \/ Answer(r, Refused("ambiguous")) \/ Answer(r, Refused("unmapped")) \/ Answer(r, NoRoute(r))
      \/ req[r].proxy # None /\ goes(req[r].proxy, req[r].account, TRUE, config.upstream["key"])
      \/ \E shell : \E k \in KeysFound(c, shell) : goes(k.proxy, None, FALSE, k.base)
      \/ config.keyFallback # None /\ goes(config.keyFallback, None, FALSE, config.upstream["key"])
      \/ Goes(r, [req[r] EXCEPT !.proxy = probe, !.pc = "cached"])
    BY Zenon DEF ClaudeDecide
<1> HIDE DEF probe
<1>6. CASE Answer(r, Refused("unavailable")) \/ Answer(r, Refused("ambiguous")) \/ Answer(r, Refused("unmapped"))
    BY <1>1, <1>6, RefusalKeeps DEF Statuses
<1>7. CASE Answer(r, NoRoute(r))
    BY <1>1, <1>7, NoRouteIsRefusal, RefusalKeeps DEF Statuses
<1>8. CASE req[r].proxy # None /\ goes(req[r].proxy, req[r].account, TRUE, config.upstream["key"])
    <2>1. req[r].proxy \in Proxies
        BY <1>8, RequestFields DEF Opt
    <2> QED BY <1>1, <1>4, <1>8, <2>1, RequestFields, ClaudeFinishKeeps
<1>9. ASSUME NEW k \in Keys(c), k.base \in Bases(c), goes(k.proxy, None, FALSE, k.base)
      PROVE  RoutingInv'
    <2>1. k.proxy \in Proxies
        BY KeyFacts
    <2> QED BY <1>1, <1>2, <1>4, <1>9, <2>1, ClaudeFinishKeeps
<1>10. CASE config.keyFallback # None /\ goes(config.keyFallback, None, FALSE, config.upstream["key"])
    <2>1. config.keyFallback \in Proxies
        BY <1>3, <1>10 DEF Opt
    <2> QED BY <1>1, <1>2, <1>4, <1>10, <2>1, ClaudeFinishKeeps
<1>11. CASE Goes(r, [req[r] EXCEPT !.proxy = probe, !.pc = "cached"])
    <2>1. Goes(r, WithChoice(req[r], req[r].account, probe, "cached"))
        <3>1. [req[r] EXCEPT !.proxy = probe, !.pc = "cached"] = WithChoice(req[r], req[r].account, probe, "cached")
            <4>1. req[r] \in Requests
                BY RequestFields
            <4> QED BY <4>1, SameAccount, Zenon
        <3> QED BY <1>11, <3>1, Zenon
    <2> QED BY <1>1, <1>2, <1>3, <2>1, RequestFields, ChoiceGoes
<1> QED BY <1>4, <1>5, <1>6, <1>7, <1>8, <1>9, <1>10, <1>11

-----------------------------------------------------------------------------
(* The profile cache. *)

\* Taking one entry out, wherever it is.
LEMMA RemovedEntry ==
    ASSUME NEW S, NEW s \in Seq(S), NEW i \in 1 .. Len(s), NEW R, R = RemoveAt(s, i)
    PROVE  /\ R \in Seq(S) /\ Len(R) = Len(s) - 1
           /\ \A j \in 1 .. Len(R) : R[j] = s[IF j < i THEN j ELSE j + 1]
<1> DEFINE a == SubSeq(s, 1, i - 1)
           b == SubSeq(s, i + 1, Len(s))
<1>1. Len(s) \in Nat /\ i \in Nat /\ 1 <= i /\ i <= Len(s)
    OBVIOUS
<1>2. a \in Seq(S) /\ Len(a) = i - 1 /\ \A j \in 1 .. i - 1 : a[j] = s[j]
    BY <1>1
<1>3. b \in Seq(S) /\ Len(b) = Len(s) - i /\ \A j \in 1 .. Len(s) - i : b[j] = s[i + j]
    BY <1>1
<1>4. R = a \o b
    BY DEF RemoveAt
<1> HIDE DEF a, b
<1>5. R \in Seq(S) /\ Len(R) = Len(s) - 1
    BY <1>1, <1>2, <1>3, <1>4
<1>6. ASSUME NEW j \in 1 .. Len(R) PROVE R[j] = s[IF j < i THEN j ELSE j + 1]
    <2>1. R[j] = IF j <= Len(a) THEN a[j] ELSE b[j - Len(a)]
        BY <1>1, <1>2, <1>3, <1>4, <1>5
    <2>2. CASE j < i
        BY <1>1, <1>2, <2>1, <2>2
    <2>3. CASE i <= j
        BY <1>1, <1>2, <1>3, <1>5, <2>1, <2>3
    <2> QED BY <1>1, <1>5, <2>2, <2>3
<1> QED BY <1>5, <1>6

LEMMA RemovedKeeps ==
    ASSUME NEW entries, CacheInv(entries), NEW i \in DOMAIN entries
    PROVE  /\ CacheInv(RemoveAt(entries, i)) /\ Len(RemoveAt(entries, i)) < Capacity
           /\ \A j \in DOMAIN RemoveAt(entries, i) : RemoveAt(entries, i)[j].token # entries[i].token
<1> DEFINE S == [token : Logins, account : Accounts]
           R == RemoveAt(entries, i)
           at(j) == IF j < i THEN j ELSE j + 1
<1>1. entries \in Seq(S) /\ Len(entries) <= Capacity /\ i \in 1 .. Len(entries) /\ Len(entries) \in Nat
    BY DEF CacheInv
<1>2. /\ R \in Seq(S) /\ Len(R) = Len(entries) - 1
      /\ \A j \in 1 .. Len(R) : R[j] = entries[at(j)]
    BY <1>1, RemovedEntry
<1> HIDE DEF R
<1>3. DOMAIN R = 1 .. Len(R) /\ DOMAIN entries = 1 .. Len(entries)
    BY <1>1, <1>2
<1>4. \A j \in DOMAIN R : R[j] = entries[at(j)] /\ at(j) \in DOMAIN entries /\ at(j) # i
    BY <1>1, <1>2, <1>3
<1>5. \A j, k \in DOMAIN R : at(j) = at(k) => j = k
    BY <1>1, <1>2, <1>3
<1> HIDE DEF at
<1>6. /\ \A j, k \in DOMAIN entries : entries[j].token = entries[k].token => j = k
      /\ \A j \in DOMAIN entries : entries[j].account = Owner[entries[j].token]
    BY DEF CacheInv
<1>7. \A j, k \in DOMAIN R : R[j].token = R[k].token => j = k
    BY <1>4, <1>5, <1>6
<1>8. \A j \in DOMAIN R : R[j].account = Owner[R[j].token] /\ R[j].token # entries[i].token
    BY <1>4, <1>6
<1>9. Len(R) < Capacity
    BY <1>1, <1>2
<1> QED BY <1>2, <1>7, <1>8, <1>9 DEF CacheInv, R

LEMMA WithoutKeeps ==
    ASSUME NEW entries, CacheInv(entries), NEW t
    PROVE  /\ CacheInv(Without(entries, t))
           /\ \A j \in DOMAIN Without(entries, t) : Without(entries, t)[j].token # t
           /\ (\E i \in DOMAIN entries : entries[i].token = t) => Len(Without(entries, t)) < Capacity
           /\ (\A i \in DOMAIN entries : entries[i].token # t) => Without(entries, t) = entries
<1> DEFINE places == {i \in DOMAIN entries : entries[i].token = t}
           k == CHOOSE i \in places : TRUE
<1>1. Without(entries, t) = IF places = {} THEN entries ELSE RemoveAt(entries, k)
    BY Zenon DEF Without
<1>2. CASE places = {}
    BY <1>1, <1>2
<1>3. CASE places # {}
    <2>1. k \in places
        BY <1>3, Zenon
    <2> HIDE DEF k
    <2> QED BY <1>1, <1>3, <2>1, RemovedKeeps
<1> QED BY <1>2, <1>3

LEMMA AppendKeeps ==
    ASSUME NEW entries, CacheInv(entries), Len(entries) < Capacity,
           NEW x \in [token : Logins, account : Accounts], x.account = Owner[x.token],
           \A j \in DOMAIN entries : entries[j].token # x.token
    PROVE  CacheInv(Append(entries, x))
<1> DEFINE S == [token : Logins, account : Accounts]
           R == Append(entries, x)
<1>1. entries \in Seq(S) /\ Len(entries) \in Nat /\ DOMAIN entries = 1 .. Len(entries)
    BY DEF CacheInv
<1>2. R \in Seq(S) /\ Len(R) = Len(entries) + 1 /\ Len(R) <= Capacity
    BY <1>1
<1>3. \A j \in DOMAIN R : (j \in DOMAIN entries /\ R[j] = entries[j]) \/ (j = Len(R) /\ R[j] = x)
    BY <1>1, <1>2
<1> HIDE DEF R
<1>4. /\ \A j, k \in DOMAIN entries : entries[j].token = entries[k].token => j = k
      /\ \A j \in DOMAIN entries : entries[j].account = Owner[entries[j].token]
    BY DEF CacheInv
<1>5. \A j, k \in DOMAIN R : R[j].token = R[k].token => j = k
    BY <1>3, <1>4
<1>6. \A j \in DOMAIN R : R[j].account = Owner[R[j].token]
    BY <1>3, <1>4
<1> QED BY <1>2, <1>5, <1>6 DEF CacheInv, R

LEMMA RoomKeeps ==
    ASSUME RoutingInv, NEW t
    PROVE  /\ CacheInv(Room(t)) /\ Len(Room(t)) < Capacity
           /\ \A j \in DOMAIN Room(t) : Room(t)[j].token # t
<1>1. CacheInv(cache) /\ cache \in Seq([token : Logins, account : Accounts]) /\ Len(cache) <= Capacity
    BY DEF RoutingInv, CacheInv
<1>2. CASE Len(cache) >= Capacity /\ Cached(t) = {}
    <2>1. Room(t) = Tail(cache)
        BY <1>2, Zenon DEF Room
    <2>2. /\ Tail(cache) \in Seq([token : Logins, account : Accounts]) /\ Len(Tail(cache)) = Len(cache) - 1
          /\ \A j \in DOMAIN Tail(cache) : Tail(cache)[j] = cache[j + 1] /\ j + 1 \in DOMAIN cache /\ j \in Nat
        BY <1>1, <1>2
    <2>3. CacheInv(Tail(cache)) /\ Len(Tail(cache)) < Capacity
        BY <1>1, <2>2 DEF CacheInv
    <2>4. \A j \in DOMAIN Tail(cache) : Tail(cache)[j].token # t
        BY <1>2, <2>2 DEF Cached
    <2> QED BY <2>1, <2>3, <2>4
<1>3. CASE ~(Len(cache) >= Capacity /\ Cached(t) = {})
    <2>1. Room(t) = Without(cache, t)
        BY <1>3, Zenon DEF Room
    <2>2. CASE Cached(t) = {}
        <3>1. Len(cache) < Capacity /\ \A i \in DOMAIN cache : cache[i].token # t
            BY <1>1, <1>3, <2>2 DEF Cached
        <3> QED BY <1>1, <2>1, <3>1, WithoutKeeps
    <2>3. CASE Cached(t) # {}
        <3>1. \E i \in DOMAIN cache : cache[i].token = t
            BY <2>3 DEF Cached
        <3> QED BY <1>1, <2>1, <3>1, WithoutKeeps
    <2> QED BY <2>2, <2>3
<1> QED BY <1>2, <1>3

\* The answer that the profile API's account gives, from the cache or not.
LEMMA ProfiledKeeps ==
    ASSUME RoutingInv, NEW r \in Slots, req[r].pc \in {"cached", "profile"}, req[r].cred \in Logins,
           Profiled(r, Owner[req[r].cred]), config' = config, file' = file, epoch' = epoch, CacheInv(cache')
    PROVE  RoutingInv'
<1> DEFINE a == ByAccount(Owner[req[r].cred], None)
<1>1. Owner[req[r].cred] \in Opt(Accounts)
    BY DEF Opt
<1>2. a \in Answers /\ a.status \in {"routed", "unmapped"} /\ a.account \in {None, Owner[req[r].cred]}
    BY <1>1, AnswerTypes, ByAccountStatus
<1>3. req' = [req EXCEPT ![r] = WithAnswer(req[r], a, TRUE, epoch)]
    BY Zenon DEF Profiled, WithAnswer
<1> HIDE DEF a
<1>4. OwnGood(config, req[r].kind, req[r].cred, TRUE, a)
    BY <1>2 DEF OwnGood
<1>5. config.service = "claude"
    BY OnlyClaude
<1>6. UrlGood(config, req[r].target, req[r].bearer, req[r].cred, a)
    <2>1. CASE req[r].target = None
        BY <2>1 DEF UrlGood
    <2>2. CASE req[r].target # None
        <3>1. req[r].target \in Targets
            BY <2>2 DEF RoutingInv, TypeOK, ConfigType, Requests, Opt
        <3>2. Declaring(config.urls, req[r].target) = {} /\ Under(config.upstream["key"], req[r].target.url)
            BY <1>5, <2>2, RequestFields DEF ReqInv
        <3>3. config.upstream["key"] \in BasesOf(config, req[r].cred)
            BY BasesFacts
        <3> QED BY <1>2, <3>1, <3>2, <3>3, Undeclared
    <2> QED BY <2>1, <2>2
<1>7. TRUE \in BOOLEAN
    OBVIOUS
<1> QED BY <1>2, <1>3, <1>4, <1>6, <1>7, AnswerKeeps

LEMMA CacheHitKeeps ==
    ASSUME RoutingInv, NEW r \in Slots, CacheHit(r)
    PROVE  RoutingInv'
<1> DEFINE t == req[r].cred
<1>1. PICK i \in Cached(t) : cache' = Append(Without(cache, t), cache[i]) /\ Profiled(r, cache[i].account)
    BY Zenon DEF CacheHit
<1>2. req[r].pc = "cached" /\ config' = config /\ file' = file /\ epoch' = epoch
    BY DEF CacheHit, At
<1>3. CacheInv(cache) /\ i \in DOMAIN cache /\ cache[i].token = t
    BY <1>1 DEF RoutingInv, Cached
<1>4. cache[i] \in [token : Logins, account : Accounts]
    <2> DEFINE S == [token : Logins, account : Accounts]
    <2>1. cache \in Seq(S)
        BY <1>3 DEF CacheInv
    <2>2. DOMAIN cache = 1 .. Len(cache) /\ cache \in [1 .. Len(cache) -> S]
        <3> HIDE DEF S
        <3> QED BY <2>1
    <2> HIDE DEF S
    <2>3. cache[i] \in S
        BY <1>3, <2>2
    <2> QED BY <2>3 DEF S
<1>5. cache[i].account = Owner[t] /\ t \in Logins
    BY <1>3, <1>4 DEF CacheInv
<1>6. CacheInv(Append(Without(cache, t), cache[i]))
    BY <1>3, <1>4, <1>5, WithoutKeeps, AppendKeeps
<1> QED BY <1>1, <1>2, <1>5, <1>6, ProfiledKeeps

LEMMA CacheMissKeeps ==
    ASSUME RoutingInv, NEW r \in Slots, CacheMiss(r)
    PROVE  RoutingInv'
<1>1. req[r].pc = "cached" /\ Goes(r, [req[r] EXCEPT !.pc = "profile"])
    BY DEF CacheMiss, At
<1>2. Goes(r, WithChoice(req[r], req[r].account, req[r].proxy, "profile"))
    <2>1. [req[r] EXCEPT !.pc = "profile"] = WithChoice(req[r], req[r].account, req[r].proxy, "profile")
        <3>1. req[r] \in Requests
            BY RequestFields
        <3> QED BY <3>1, SameChoice, Zenon
    <2> QED BY <1>1, <2>1, Zenon
<1>3. ~Codex
    BY <1>1, OnlyClaude
<1> QED BY <1>1, <1>2, <1>3, RequestFields, ChoiceGoes

LEMMA ProfileKnownKeeps ==
    ASSUME RoutingInv, NEW r \in Slots, ProfileKnown(r)
    PROVE  RoutingInv'
<1> DEFINE t == req[r].cred
           x == [token |-> t, account |-> Owner[t]]
<1>1. /\ req[r].pc = "profile" /\ t \in Logins /\ cache' = Append(Room(t), x) /\ Profiled(r, Owner[t])
      /\ config' = config /\ file' = file /\ epoch' = epoch
    BY DEF ProfileKnown, At
<1>2. x \in [token : Logins, account : Accounts] /\ x.account = Owner[x.token] /\ x.token = t
    BY <1>1
<1> HIDE DEF x
<1>3. CacheInv(Append(Room(t), x))
    BY <1>2, RoomKeeps, AppendKeeps
<1> QED BY <1>1, <1>3, ProfiledKeeps

LEMMA ProfileFailsKeeps ==
    ASSUME RoutingInv, NEW r \in Slots, ProfileFails(r)
    PROVE  RoutingInv'
BY RefusalKeeps DEF ProfileFails, At, Statuses

-----------------------------------------------------------------------------
(* The theorems. *)

LEMMA RoutingInvInit ==
    ASSUME Init
    PROVE  RoutingInv
<1>1. config \in Configs /\ config \in ConfigType
    BY ConfigsAssumption DEF Init
<1>2. file \in [Dirs -> [token : Opt(Logins), meta : Opt(Accounts), todo : Opt(Logins), env : Opt(Logins)]]
    BY DEF Init, Opt
<1>3. epoch \in 0 .. MaxEpoch /\ CacheInv(cache)
    BY DEF Init, CacheInv
<1>4. Idle \in Requests
    <2>1. (CHOOSE c \in Creds : TRUE) \in Creds
        BY Zenon
    <2>2. <<>> \in Seq(Dirs \cup {"env"}) /\ Refused("none") \in Answers /\ 1 \in Nat \ {0} /\ 0 \in Nat
        BY DEF Refused, Answers, Statuses, Opt
    <2> DEFINE c0 == CHOOSE c \in Creds : TRUE
    <2>3. Idle = [kind |-> "model", cred |-> c0, bearer |-> TRUE, claimed |-> None,
                  pc |-> "idle", next |-> 1, found |-> <<>>, value |-> None, unavailable |-> FALSE, account |-> None,
                  proxy |-> None, profiled |-> FALSE, target |-> None, since |-> 0, until |-> 0, answer |-> Refused("none")]
        BY Zenon DEF Idle
    <2> HIDE DEF c0
    <2> QED BY <2>1, <2>2, <2>3 DEF Requests, Kinds, Opt, c0
<1>5. ReqInv(config, Idle)
    BY DEF ReqInv, Idle
<1>6. req \in [Slots -> Requests] /\ \A r \in Slots : ReqInv(config, req[r])
    BY <1>4, <1>5 DEF Init
<1> QED BY <1>1, <1>2, <1>3, <1>6 DEF RoutingInv, TypeOK, CacheInv

LEMMA RoutingInvNext ==
    ASSUME RoutingInv, [Next]_vars
    PROVE  RoutingInv'
<1>1. CASE CommandLine
    BY <1>1, CommandLineKeeps
<1>2. ASSUME NEW r \in Slots, Request(r) PROVE RoutingInv'
    <2>1. ASSUME NEW kind \in Kinds, NEW c \in Creds, NEW bearer \in BOOLEAN, NEW claimed \in Opt(Accounts),
                 Begin(r, kind, c, bearer, claimed)
          PROVE  RoutingInv'
        BY <2>1, BeginKeeps
    <2>2. ASSUME NEW target \in config.asked, NEW c \in Creds, NEW bearer \in BOOLEAN,
                 BeginExplicit(r, target, c, bearer)
          PROVE  RoutingInv'
        BY <2>2, BeginExplicitKeeps
    <2>3. CASE ReadSource(r)
        BY <2>3, ReadSourceKeeps
    <2>4. CASE ReadHome(r)
        BY <2>4, ReadHomeKeeps
    <2>5. CASE ReadVariable(r)
        BY <2>5, ReadVariableKeeps
    <2>6. CASE CodexRefresh(r)
        BY <2>6, CodexRefreshKeeps
    <2>7. CASE RefreshUnmatched(r)
        BY <2>7, RefreshUnmatchedKeeps
    <2>8. CASE ClaudeRefresh(r)
        BY <2>8, ClaudeRefreshKeeps
    <2>9. CASE CodexDecide(r)
        BY <2>9, CodexDecideKeeps
    <2>10. CASE ClaudeScanned(r)
        BY <2>10, ClaudeScannedKeeps
    <2>11. CASE Identify(r)
        BY <2>11, IdentifyKeeps
    <2>12. CASE ClaudeDecide(r)
        BY <2>12, ClaudeDecideKeeps
    <2>13. CASE CacheHit(r)
        BY <2>13, CacheHitKeeps
    <2>14. CASE CacheMiss(r)
        BY <2>14, CacheMissKeeps
    <2>15. CASE ProfileKnown(r)
        BY <2>15, ProfileKnownKeeps
    <2>16. CASE ProfileFails(r)
        BY <2>16, ProfileFailsKeeps
    <2> QED BY <1>2, <2>1, <2>2, <2>3, <2>4, <2>5, <2>6, <2>7, <2>8, <2>9, <2>10, <2>11, <2>12, <2>13,
               <2>14, <2>15, <2>16, Zenon DEF Request
<1>3. CASE UNCHANGED vars
    <2>1. Requests' = Requests
        BY <1>3 DEF vars, Requests, Opt, Answers
    <2> QED BY <1>3, <2>1 DEF vars, RoutingInv, TypeOK
<1> QED BY <1>1, <1>2, <1>3 DEF Next

\* The invariant holds of every reachable state.
THEOREM RoutingInvariant == Spec => []RoutingInv
BY RoutingInvInit, RoutingInvNext, PTL DEF Spec

\* Types: the profile cache stays within its capacity, with one entry for a token.
THEOREM RoutingTyped == Spec => []TypeOK
<1>1. RoutingInv => TypeOK
    BY DEF RoutingInv
<1> QED BY <1>1, RoutingInvariant, PTL

\* However many requests and clients interleave, a request is routed as an
\* account only if its own token is that account's, where the account is read
\* with the token, from it, or is the profile API's.
THEOREM OwnAccountHeld == Spec => []OwnAccount
<1>1. RoutingInv => OwnAccount
    <2> SUFFICES ASSUME RoutingInv, NEW r \in Slots, Done(r), req[r].kind # "refresh",
                        req[r].answer.account # None, Codex \/ req[r].profiled
                 PROVE  req[r].cred \in Logins /\ req[r].answer.account = Owner[req[r].cred]
        BY DEF OwnAccount
    <2>1. OwnGood(config, req[r].kind, req[r].cred, req[r].profiled, req[r].answer)
        BY DEF RoutingInv, ReqInv, Done, At
    <2> QED BY <2>1 DEF OwnGood, Done, Codex
<1> QED BY <1>1, RoutingInvariant, PTL

\* A request that names its upstream goes only where a declared route lets it, or
\* else an upstream that its own credential can be good for.
THEOREM UrlsRouted == Spec => []UrlRouted
<1>1. RoutingInv => UrlRouted
    <2> SUFFICES ASSUME RoutingInv PROVE UrlRouted
        OBVIOUS
    <2>1. \A r \in Slots : At(r, "answered") => UrlGood(config, req[r].target, req[r].bearer, req[r].cred, req[r].answer)
        BY DEF RoutingInv, ReqInv, At
    <2>2. \A r \in Slots : Done(r) <=> At(r, "answered") /\ req[r].answer.status = "routed"
        BY DEF Done
    <2>3. \A r \in Slots : Bases(req[r].cred) = BasesOf(config, req[r].cred)
        BY BasesFacts
    <2> QED BY <2>1, <2>2, <2>3, Zenon DEF UrlRouted, UrlGood, DeclaredBy
<1> QED BY <1>1, RoutingInvariant, PTL

-----------------------------------------------------------------------------
(* What a request knows of the files, as long as none of them changes. *)

\* A sequence that names each element of a set once, and nothing else.
Lists(s, S) ==
    /\ \A i \in DOMAIN s : s[i] \in S
    /\ \A x \in S : \E i \in DOMAIN s : s[i] = x
    /\ \A i, j \in DOMAIN s : s[i] = s[j] => i = j

\* The sources that hold a token, and those of them before the n-th place.
Fits(c) == {s \in SourceSet : Token(s) = c}

Before(n, c) == {d \in Range(Places) : file[d].token = c /\ \E i \in DOMAIN Places : i < n /\ Places[i] = d}

\* The variable's value as far as the .env files before the n-th give it.
Home(i) == Else(file[Places[i]].env, config.process)

Agreed(n, v) ==
    /\ v # None => \E i \in DOMAIN Places : i < n /\ Home(i) = v
    /\ \A i \in DOMAIN Places : i < n /\ Home(i) # None => v = Home(i)

\* What a request knows that no change of the files has disturbed so far: the
\* sources before the next one, or all of them when it has read them;
Knows(q) ==
    /\ q.pc \in {"scan", "identify"} => q.bearer
    /\ ~q.bearer => q.found = <<>>
    /\ Codex => q.bearer
    /\ q.pc = "identify" /\ q.kind = "refresh" => ~FromEnv
    /\ q.pc \in {"decide", "cached", "profile"} => q.kind # "refresh"
    /\ ~FromEnv /\ (q.pc = "scan" \/ q.kind = "refresh") => Lists(q.found, Before(q.next, q.cred))
    /\ FromEnv /\ q.pc = "scan" /\ q.next <= Sources => q.found = <<>> /\ Agreed(q.next, q.value)
    /\ q.bearer /\ q.kind # "refresh" /\ (q.pc # "scan" \/ (FromEnv /\ q.next > Sources))
         => Lists(q.found, Fits(q.cred))

\* and what it has made of them.
Concludes(q) ==
    /\ q.pc = "identify" /\ q.kind # "refresh" => Len(q.found) = 1
    /\ q.pc \in {"decide", "cached", "profile"} /\ q.found # <<>> =>
        Len(q.found) = 1 /\ q.account = AccountOf(q.found[1])
    /\ q.pc = "decide" /\ q.found # <<>> =>
        q.proxy = Choice(q.account, q.found[1]) /\ (q.proxy = None => q.account = None)
    /\ q.pc \in {"cached", "profile"} =>
        /\ q.bearer /\ ~config.broken /\ KeysFound(q.cred, q.found = <<>>) = {}
        /\ q.found # <<>> => q.account = None /\ Choice(None, q.found[1]) = None
    /\ q.pc = "scan" /\ q.kind = "refresh" /\ Claude /\ ~FromEnv /\ q.found # <<>> =>
        q.account = file[Last(q.found)].meta

UnderWay(q) == q.pc \notin {"idle", "answered"}

ReadInv ==
    /\ IsInjective(config.dirs)
    /\ \A r \in Slots :
        /\ req[r].since <= epoch /\ req[r].until <= epoch
        /\ \A q : q = req[r] /\ UnderWay(q) /\ q.since = epoch => Knows(q) /\ Concludes(q)

\* What SnapshotAnswer says of an answer a to q ("profiled": it is the profile
\* API's), before its upstream and the account that the client names are compared,
\* which may refuse it yet (Close).
SavedOf(q) == {s \in SourceSet : q.bearer /\ Token(s) = q.cred}

Saves(q, s, a, profiled) ==
    \/ a = ByAccount(AccountOf(s), s)
    \/ /\ Claude /\ AccountOf(s) = None /\ Choice(None, s) = None
       /\ a.status = "failed" \/ (profiled /\ a = ByAccount(Owner[q.cred], None))

ByClaims(q) == Codex /\ SavedOf(q) = {} /\ ~config.fileOnly /\ AccountRouting /\ q.cred \in Logins

KeysOf(q) == KeysFound(q.cred, SavedOf(q) = {} /\ ~ByClaims(q))

Matching(q) == Cardinality(SavedOf(q)) + Cardinality(KeysOf(q)) + (IF ByClaims(q) THEN 1 ELSE 0)

Right(q, a, profiled) ==
    /\ a.status = "ambiguous" => Matching(q) > 1
    /\ config.broken => a.status \in {"ambiguous", "unmapped", "unavailable"}
    /\ Matching(q) > 1 /\ ~config.broken => a.status \in {"ambiguous", "unmapped"}
    /\ Matching(q) = 1 /\ ~config.broken =>
        /\ \A s \in SavedOf(q) : Saves(q, s, a, profiled)
        /\ \A k \in KeysOf(q) : a = Routed(k.proxy, k.account)
        /\ ByClaims(q) => a = ByAccount(Owner[q.cred], None)
    /\ Matching(q) = 0 /\ a.status = "routed" =>
        IF Claude /\ q.bearer THEN a = ByAccount(Owner[q.cred], None) ELSE a = Routed(config.keyFallback, None)

Close(q, raw, a) == a = raw \/ (a.status # "routed" /\ (q.claimed # None \/ q.target # None))

Judged(q, a, profiled) == Lists(q.found, SavedOf(q)) /\ \E raw : Right(q, raw, profiled) /\ Close(q, raw, a)

\* As many elements as places in the sequence.
LEMMA ListedCount ==
    ASSUME NEW T, NEW s \in Seq(T), NEW S, Lists(s, S)
    PROVE  IsFiniteSet(S) /\ Cardinality(S) = Len(s) /\ (S = {} <=> s = <<>>)
<1>1. Len(s) \in Nat /\ DOMAIN s = 1 .. Len(s) /\ s = [i \in 1 .. Len(s) |-> s[i]]
    OBVIOUS
<1>2. s \in Bijection(1 .. Len(s), S)
    BY <1>1 DEF Lists, Bijection, Injection, Surjection, IsInjective
<1>3. IsFiniteSet(1 .. Len(s)) /\ Cardinality(1 .. Len(s)) = Len(s)
    <2>1. 1 \in Int /\ Len(s) \in Int /\ (IF 1 > Len(s) THEN 0 ELSE Len(s) - 1 + 1) = Len(s)
        BY <1>1
    <2> QED BY <2>1, FS_Interval
<1>4. ExistsBijection(1 .. Len(s), S)
    BY <1>2 DEF ExistsBijection
<1>5. IsFiniteSet(S) /\ Cardinality(S) = Len(s)
    BY <1>3, <1>4, FS_Bijection
<1>6. Len(s) = 0 <=> s = <<>>
    OBVIOUS
<1> QED BY <1>5, <1>6, FS_EmptySet

\* One more.
LEMMA ListedMore ==
    ASSUME NEW T, NEW s \in Seq(T), NEW S, Lists(s, S), NEW x \in T, x \notin S
    PROVE  Lists(Append(s, x), S \cup {x})
<1> DEFINE t == Append(s, x)
<1>1. /\ Len(s) \in Nat /\ DOMAIN s = 1 .. Len(s) /\ DOMAIN t = 1 .. Len(s) + 1
      /\ t[Len(s) + 1] = x /\ \A i \in 1 .. Len(s) : t[i] = s[i]
    OBVIOUS
<1> HIDE DEF t
<1>2. \A i \in DOMAIN t : (i \in DOMAIN s /\ t[i] = s[i]) \/ (i = Len(s) + 1 /\ t[i] = x)
    <2> SUFFICES ASSUME NEW i \in 1 .. Len(s) + 1 PROVE i \in 1 .. Len(s) \/ i = Len(s) + 1
        BY <1>1
    <2> QED BY <1>1
<1>3. \A i \in DOMAIN s : i \in DOMAIN t /\ t[i] = s[i]
    BY <1>1
<1>4. Len(s) + 1 \in DOMAIN t
    BY <1>1
<1> QED BY <1>1, <1>2, <1>3, <1>4 DEF Lists

LEMMA ListsNone == Lists(<<>>, {})
BY DEF Lists

LEMMA ListsOne == \A x : Lists(<<x>>, {x})
BY DEF Lists

-----------------------------------------------------------------------------
(* What is read while the files rest. *)

\* Nothing of it changes while configuration and files do not.
LEMMA SameFiles ==
    ASSUME config' = config, file' = file
    PROVE  /\ FromEnv' = FromEnv /\ Codex' = Codex /\ Claude' = Claude /\ Places' = Places /\ Sources' = Sources
           /\ SourceSet' = SourceSet
           /\ \A c : Fits(c)' = Fits(c) /\ \A n : Before(n, c)' = Before(n, c)
           /\ \A c, shell : KeysFound(c, shell)' = KeysFound(c, shell)
           /\ \A n, v : Agreed(n, v)' = Agreed(n, v)
           /\ \A s : AccountOf(s)' = AccountOf(s)
           /\ \A b, s : Choice(b, s)' = Choice(b, s)
<1>1. FromEnv' = FromEnv /\ Codex' = Codex /\ Claude' = Claude
    BY DEF FromEnv, Codex, Claude
<1>2. Saved' = Saved
    BY <1>1 DEF Saved, AccountRouting, RoutesAccounts, Maps
<1>3. Places' = Places
    BY <1>1, <1>2 DEF Places
<1>4. Sources' = Sources /\ SourceSet' = SourceSet
    BY <1>1, <1>3 DEF Sources, SourceSet
<1>5. Variable' = Variable
    BY <1>3 DEF Variable, Else
<1>6. \A s : Token(s)' = Token(s)
    BY <1>5 DEF Token
<1>7. \A c : Fits(c)' = Fits(c)
    BY <1>4, <1>6 DEF Fits
<1>8. \A c : Keys(c)' = Keys(c) /\ \A n : Before(n, c)' = Before(n, c)
    BY <1>3 DEF Keys, Before
<1>9. \A c, shell : KeysFound(c, shell)' = KeysFound(c, shell)
    BY <1>8 DEF KeysFound
<1>10. \A i : Home(i)' = Home(i)
    BY <1>3 DEF Home, Else
<1>11. \A n, v : Agreed(n, v)' = Agreed(n, v)
    BY <1>3, <1>10 DEF Agreed
<1>12. \A s : AccountOf(s)' = AccountOf(s)
    BY <1>1, <1>6 DEF AccountOf
<1>13. \A b, s : Choice(b, s)' = Choice(b, s)
    BY DEF Choice, Else
<1> QED BY <1>1, <1>3, <1>4, <1>7, <1>8, <1>9, <1>11, <1>12, <1>13

LEMMA SameKnowledge ==
    ASSUME config' = config, file' = file, NEW q
    PROVE  (Knows(q)' <=> Knows(q)) /\ (Concludes(q)' <=> Concludes(q))
<1>1. /\ Fits(q.cred)' = Fits(q.cred) /\ Before(q.next, q.cred)' = Before(q.next, q.cred)
      /\ Agreed(q.next, q.value)' = Agreed(q.next, q.value)
      /\ KeysFound(q.cred, q.found = <<>>)' = KeysFound(q.cred, q.found = <<>>) /\ config'.broken = config.broken
      /\ AccountOf(q.found[1])' = AccountOf(q.found[1])
      /\ Choice(q.account, q.found[1])' = Choice(q.account, q.found[1])
      /\ Choice(None, q.found[1])' = Choice(None, q.found[1])
      /\ FromEnv' = FromEnv /\ Codex' = Codex /\ Claude' = Claude /\ Sources' = Sources
    BY SameFiles
<1>2. Knows(q)' <=> Knows(q)
    BY <1>1, Zenon DEF Knows
<1>3. Concludes(q)' <=> Concludes(q)
    BY <1>1, Zenon DEF Concludes
<1> QED BY <1>2, <1>3

\* A step of one request.
LEMMA ReadStep ==
    ASSUME RoutingInv, ReadInv, NEW r \in Slots, NEW q, req' = [req EXCEPT ![r] = q],
           config' = config, file' = file, epoch' = epoch,
           q.since <= epoch, q.until <= epoch,
           UnderWay(q) /\ q.since = epoch => Knows(q) /\ Concludes(q)
    PROVE  ReadInv'
<1>1. ASSUME NEW s \in Slots
      PROVE  /\ req'[s].since <= epoch /\ req'[s].until <= epoch
             /\ \A p : p = req'[s] /\ UnderWay(p) /\ p.since = epoch => Knows(p) /\ Concludes(p)
    <2>1. CASE s = r
        <3>1. req'[s] = q
            BY <2>1 DEF RoutingInv, TypeOK
        <3> QED BY <3>1
    <2>2. CASE s # r
        <3>1. req'[s] = req[s]
            BY <2>2 DEF RoutingInv, TypeOK
        <3> QED BY <3>1 DEF ReadInv
    <2> QED BY <2>1, <2>2
<1>2. ASSUME NEW s \in Slots, NEW p, p = req'[s], UnderWay(p), p.since = epoch
      PROVE  Knows(p)' /\ Concludes(p)'
    <2>1. Knows(p) /\ Concludes(p)
        BY <1>1, <1>2
    <2> QED BY <2>1, SameKnowledge
<1>3. \A p : UnderWay(p)' <=> UnderWay(p)
    BY DEF UnderWay
<1>4. IsInjective(config.dirs)
    BY DEF ReadInv
<1> QED BY <1>1, <1>2, <1>3, <1>4 DEF ReadInv

LEMMA ReadFiles ==
    ASSUME RoutingInv, ReadInv, Changed
    PROVE  ReadInv'
<1>1. epoch \in Nat /\ epoch' = epoch + 1 /\ config' = config /\ req' = req
    BY DEF Changed, RoutingInv, TypeOK
<1>2. ASSUME NEW r \in Slots
      PROVE  /\ req[r].since <= epoch' /\ req[r].until <= epoch' /\ req[r].since # epoch'
    <2>1. req[r].since \in Nat /\ req[r].until \in Nat
        BY DEF RoutingInv, TypeOK, Requests
    <2>2. req[r].since <= epoch /\ req[r].until <= epoch
        BY DEF ReadInv
    <2> QED BY <1>1, <2>1, <2>2
<1>3. IsInjective(config.dirs)
    BY DEF ReadInv
<1> QED BY <1>1, <1>2, <1>3 DEF ReadInv

\* A request that has just begun has read nothing.
LEMMA BegunKnows ==
    ASSUME RoutingInv, NEW q, q.next = 1, q.found = <<>>, q.value = None,
           (q.pc = "scan" /\ q.bearer) \/ (q.pc = "decide" /\ ~q.bearer),
           q.kind = "refresh" => q.bearer, Codex => q.bearer
    PROVE  Knows(q) /\ Concludes(q)
<1>2. DOMAIN Places = 1 .. Len(Places) /\ Len(Places) \in Nat
    BY PlaceFacts
<1>3. Before(1, q.cred) = {} /\ Agreed(1, None)
    BY <1>2 DEF Before, Agreed
<1>4. FromEnv => ~(1 > Sources)
    BY <1>2 DEF Sources
<1>5. Knows(q)
    <2>1. Lists(q.found, Before(q.next, q.cred)) /\ Agreed(q.next, q.value)
        BY <1>3, ListsNone
    <2>3. q.bearer => ~(q.pc # "scan") /\ ~(FromEnv /\ q.next > Sources)
        BY <1>4
    <2>4. ~q.bearer => q.pc = "decide" /\ q.kind # "refresh"
        OBVIOUS
    <2> QED BY <2>1, <2>3, <2>4, Zenon DEF Knows
<1>6. Concludes(q)
    BY DEF Concludes
<1> QED BY <1>5, <1>6

\* A way on, or a new request.
LEMMA GoesReads ==
    ASSUME RoutingInv, ReadInv, NEW r \in Slots, NEW q, Goes(r, q),
           q.since \in {epoch, req[r].since}, q.until \in {0, epoch, req[r].until},
           UnderWay(q) /\ q.since = epoch => Knows(q) /\ Concludes(q)
    PROVE  ReadInv'
<1>1. req' = [req EXCEPT ![r] = q] /\ config' = config /\ file' = file /\ epoch' = epoch
    BY DEF Goes
<1>2. req[r].since <= epoch /\ req[r].until <= epoch /\ epoch \in Nat
    BY DEF ReadInv, RoutingInv, TypeOK
<1>3. q.since <= epoch /\ q.until <= epoch
    BY <1>2
<1> QED BY <1>1, <1>3, ReadStep

LEMMA BeginReads ==
    ASSUME RoutingInv, ReadInv, NEW r \in Slots, NEW kind \in Kinds, NEW c \in Creds, NEW bearer \in BOOLEAN,
           NEW claimed \in Opt(Accounts), Begin(r, kind, c, bearer, claimed)
    PROVE  ReadInv'
<1>p. PICK pc : pc = (IF bearer THEN "scan" ELSE "decide")
    OBVIOUS
<1>0. PICK q : q = Begun(kind, c, bearer, claimed, None, pc, Refused("none"), epoch, 0)
    OBVIOUS
<1>1. epoch \in Nat
    BY DEF RoutingInv, TypeOK
<1>2. Goes(r, q)
    BY ZenonT(60), <1>p, <1>0, BegunRecord DEF Begin
<1>3. (kind = "refresh" => bearer) /\ (Codex => bearer)
    BY DEF Begin
<1>4. /\ q.next = 1 /\ q.found = <<>> /\ q.value = None /\ q.pc = pc /\ q.bearer = bearer /\ q.kind = kind
      /\ q.since = epoch /\ q.until = 0
    BY <1>0 DEF Begun
<1>5. Knows(q) /\ Concludes(q)
    BY <1>p, <1>3, <1>4, BegunKnows
<1> QED BY <1>2, <1>4, <1>5, GoesReads

\* What may become of one that names its upstream.
LEMMA SentCases ==
    ASSUME RoutingInv, NEW r \in Slots, NEW target \in config.asked, NEW c \in Creds, NEW bearer \in BOOLEAN,
           BeginExplicit(r, target, c, bearer)
    PROVE  \/ \E a : Goes(r, Begun("model", c, bearer, None, target, "answered", a, epoch, epoch))
           \/ /\ Codex => bearer
              /\ Goes(r, Begun("model", c, bearer, None, target, IF bearer THEN "scan" ELSE "decide", Refused("none"), epoch, 0))
<1> DEFINE sent == [Idle EXCEPT !.cred = c, !.bearer = bearer, !.target = target, !.since = epoch]
           late(a) == Goes(r, [sent EXCEPT !.pc = "answered", !.answer = a, !.until = epoch])
           pc == IF bearer THEN "scan" ELSE "decide"
           later == Goes(r, [sent EXCEPT !.pc = pc])
<1>1. (\E a : late(a)) \/ ((Codex => bearer) /\ later)
    <2> DEFINE apps == Declaring(config.urls, target)
    <2>1. \/ apps = Apps /\ late(Refused("conflict"))
          \/ apps = {"codex"} /\ ~bearer /\ late(Refused("refused"))
          \/ \E app \in apps : apps = {app} /\ \E x \in MatchRoute(config.urls[app], target.url) : late(Routed(x.proxy, None))
          \/ IF Codex /\ ~bearer THEN late(Refused("refused"))
             ELSE IF Claude /\ ~Under(config.upstream["key"], target.url) THEN late(Refused("undeclared"))
             ELSE later
        BY Zenon DEF BeginExplicit
    <2> HIDE DEF late, later
    <2> QED BY <2>1, Zenon
<1>2. ASSUME NEW a, late(a) PROVE Goes(r, Begun("model", c, bearer, None, target, "answered", a, epoch, epoch))
    <2>1. ASSUME NEW R, R = [sent EXCEPT !.pc = "answered", !.answer = a, !.until = epoch]
          PROVE  R = Begun("model", c, bearer, None, target, "answered", a, epoch, epoch)
        BY <2>1 DEF Idle, Begun
    <2>2. [sent EXCEPT !.pc = "answered", !.answer = a, !.until = epoch]
            = Begun("model", c, bearer, None, target, "answered", a, epoch, epoch)
        BY <2>1, Zenon
    <2> QED BY <1>2, <2>2
<1>3. later => Goes(r, Begun("model", c, bearer, None, target, pc, Refused("none"), epoch, 0))
    BY SentRecord, Zenon
<1> QED BY <1>1, <1>2, <1>3, Zenon

LEMMA BeginExplicitReads ==
    ASSUME RoutingInv, ReadInv, NEW r \in Slots, NEW target \in config.asked, NEW c \in Creds, NEW bearer \in BOOLEAN,
           BeginExplicit(r, target, c, bearer)
    PROVE  ReadInv'
<1>p. PICK pc : pc = (IF bearer THEN "scan" ELSE "decide")
    OBVIOUS
<1>0. PICK q : q = Begun("model", c, bearer, None, target, pc, Refused("none"), epoch, 0)
    OBVIOUS
<1>1. epoch \in Nat
    BY DEF RoutingInv, TypeOK
<1>2. ASSUME NEW a, Goes(r, Begun("model", c, bearer, None, target, "answered", a, epoch, epoch)) PROVE ReadInv'
    <2>0. PICK p : p = Begun("model", c, bearer, None, target, "answered", a, epoch, epoch)
        OBVIOUS
    <2>1. p.since = epoch /\ p.until = epoch /\ ~UnderWay(p)
        BY <2>0 DEF Begun, UnderWay
    <2>2. Goes(r, p)
        BY <1>2, <2>0
    <2> QED BY <2>1, <2>2, GoesReads
<1>3. CASE (Codex => bearer) /\ Goes(r, q)
    <2>1. /\ q.next = 1 /\ q.found = <<>> /\ q.value = None /\ q.pc = pc /\ q.bearer = bearer
          /\ q.kind = "model" /\ q.since = epoch /\ q.until = 0
        BY <1>0 DEF Begun
    <2>2. Knows(q) /\ Concludes(q)
        BY <1>p, <1>3, <2>1, BegunKnows
    <2>3. Goes(r, q)
        BY <1>3
    <2> QED BY <2>1, <2>2, <2>3, GoesReads
<1> QED BY <1>p, <1>0, <1>2, <1>3, SentCases, Zenon

\* An answer leaves nothing to know.
LEMMA AnsweredReads ==
    ASSUME RoutingInv, ReadInv, NEW r \in Slots, NEW a, NEW p,
           req' = [req EXCEPT ![r] = WithAnswer(req[r], a, p, epoch)],
           config' = config, file' = file, epoch' = epoch
    PROVE  ReadInv'
<1>0. PICK q : q = WithAnswer(req[r], a, p, epoch)
    OBVIOUS
<1>1. q.since = req[r].since /\ q.until = epoch /\ q.pc = "answered" /\ epoch \in Nat
    BY <1>0, RequestFields DEF WithAnswer, Requests, RoutingInv, TypeOK
<1>2. req[r].since <= epoch
    BY DEF ReadInv
<1>3. req' = [req EXCEPT ![r] = q]
    BY <1>0
<1>4. q.since <= epoch /\ q.until <= epoch /\ ~UnderWay(q)
    BY <1>1, <1>2 DEF UnderWay
<1> QED BY <1>3, <1>4, ReadStep

LEMMA AnswerReads ==
    ASSUME RoutingInv, ReadInv, NEW r \in Slots, NEW a, Answer(r, a)
    PROVE  ReadInv'
<1>1. [req[r] EXCEPT !.pc = "answered", !.answer = a, !.until = epoch] = WithAnswer(req[r], a, req[r].profiled, epoch)
    BY RequestFields, SameProfiled
<1> QED BY <1>1, AnsweredReads DEF Answer, Answered

LEMMA KeysFinite ==
    ASSUME RoutingInv, NEW c, NEW shell, NEW K, K = KeysFound(c, shell)
    PROVE  IsFiniteSet(K) /\ Cardinality(K) \in Nat /\ (Cardinality(K) = 0 <=> K = {})
<1>1. IsFiniteSet(config.keys) /\ K \in SUBSET config.keys
    BY ConfigsAssumption DEF RoutingInv, Keys, KeysFound
<1> QED BY <1>1, FS_Subset, FS_CardinalityType, FS_EmptySet

LEMMA PlacesOnce ==
    ASSUME RoutingInv, ReadInv
    PROVE  /\ DOMAIN Places = 1 .. Len(Places) /\ Len(Places) \in Nat
           /\ \A i, j \in DOMAIN Places : Places[i] = Places[j] => i = j
           /\ \A i \in DOMAIN Places : Places[i] \in Dirs /\ Places[i] # "env"
           /\ Range(Places) = {Places[i] : i \in DOMAIN Places}
           /\ Sources = IF FromEnv THEN Len(Places) + 1 ELSE Len(Places)
<1>1. Places \in Seq(Dirs) /\ Len(Places) \in Nat
    BY PlaceFacts
<1>2. DOMAIN Places = 1 .. Len(Places) /\ \A i \in DOMAIN Places : Places[i] \in Dirs /\ Places[i] # "env"
    <2>1. DOMAIN Places = 1 .. Len(Places)
        BY <1>1
    <2>2. \A i \in DOMAIN Places : Places[i] \in Dirs
        BY <1>1, <2>1, PlaceFacts
    <2>3. "env" \notin Dirs
        BY RoutingAssumption
    <2> QED BY <2>1, <2>2, <2>3, Zenon
<1>3. \A i, j \in DOMAIN Places : Places[i] = Places[j] => i = j
    <2>1. Places = config.dirs \/ Places = <<>>
        BY DEF Places
    <2>2. \A i, j \in DOMAIN config.dirs : config.dirs[i] = config.dirs[j] => i = j
        BY DEF ReadInv, IsInjective
    <2>3. DOMAIN <<>> = {}
        OBVIOUS
    <2> QED BY <2>1, <2>2, <2>3
<1>4. Range(Places) = {Places[i] : i \in DOMAIN Places}
    BY DEF Range
<1>5. Sources = IF FromEnv THEN Len(Places) + 1 ELSE Len(Places)
    BY <1>1 DEF Sources
<1> QED BY <1>1, <1>2, <1>3, <1>4, <1>5

LEMMA BeforeNext ==
    ASSUME RoutingInv, ReadInv, NEW c, NEW n \in Nat \ {0}, n <= Len(Places)
    PROVE  /\ Places[n] \notin Before(n, c)
           /\ Before(n + 1, c) = IF file[Places[n]].token = c THEN Before(n, c) \cup {Places[n]} ELSE Before(n, c)
<1>1. n \in DOMAIN Places
    BY PlacesOnce
<1>2. Places[n] \notin Before(n, c)
    <2> SUFFICES ASSUME NEW i \in DOMAIN Places, i < n, Places[i] = Places[n] PROVE FALSE
        BY DEF Before
    <2> QED BY <1>1, PlacesOnce
<1>3. \A i \in DOMAIN Places : i < n + 1 <=> i < n \/ i = n
    BY PlacesOnce
<1>4. \A d : d \in Before(n + 1, c) <=> d \in Before(n, c) \/ (d = Places[n] /\ file[d].token = c)
    <2>1. Places[n] \in Range(Places)
        BY <1>1, PlacesOnce
    <2> QED BY <1>1, <1>3, <2>1, Zenon DEF Before
<1> QED BY <1>2, <1>4

LEMMA AllBefore ==
    ASSUME RoutingInv, ReadInv, ~FromEnv, NEW c, NEW n \in Nat \ {0}, n > Len(Places)
    PROVE  Before(n, c) = Fits(c)
<1>1. \A i \in DOMAIN Places : i < n
    BY PlacesOnce
<1>2. SourceSet = Range(Places)
    BY DEF SourceSet
<1>3. \A d \in Range(Places) : Token(d) = file[d].token /\ \E i \in DOMAIN Places : i < n /\ Places[i] = d
    BY <1>1, PlacesOnce DEF Token
<1> QED BY <1>2, <1>3 DEF Before, Fits

\* The variable.
LEMMA Homes ==
    ASSUME RoutingInv, ReadInv
    PROVE  {Else(file[d].env, config.process) : d \in Range(Places)} = {Home(i) : i \in DOMAIN Places}
BY PlacesOnce DEF Home

LEMMA AgreedVariable ==
    ASSUME RoutingInv, ReadInv, NEW v, Agreed(Len(Places) + 1, v)
    PROVE  Variable = Else(v, Else(config.process, config.shell))
<1> DEFINE homes == {Home(i) : i \in DOMAIN Places} \ {None}
<1>1. Variable = CASE homes = {} -> Else(config.process, config.shell)
                   [] \E h \in homes : homes = {h} -> CHOOSE h \in homes : TRUE
                   [] OTHER -> None
    BY Homes, Zenon DEF Variable
<1>2. \A i \in DOMAIN Places : i < Len(Places) + 1
    BY PlacesOnce
<1>3. CASE v = None
    <2>1. homes = {}
        BY <1>2, <1>3 DEF Agreed
    <2> QED BY <1>1, <1>3, <2>1 DEF Else
<1>4. CASE v # None
    <2>1. homes = {v}
        BY <1>2, <1>4 DEF Agreed
    <2> HIDE DEF homes
    <2>2. homes # {} /\ (\E h \in homes : homes = {h}) /\ (CHOOSE h \in homes : TRUE) = v
        BY <2>1
    <2>3. Variable = v
        BY <1>1, <2>2
    <2> QED BY <1>4, <2>3 DEF Else
<1> QED BY <1>3, <1>4

LEMMA DisagreedVariable ==
    ASSUME RoutingInv, ReadInv, NEW n \in DOMAIN Places, NEW v, Agreed(n, v), ~Agree(v, Home(n))
    PROVE  Variable = None
<1> DEFINE homes == {Home(i) : i \in DOMAIN Places} \ {None}
<1>1. Variable = CASE homes = {} -> Else(config.process, config.shell)
                   [] \E h \in homes : homes = {h} -> CHOOSE h \in homes : TRUE
                   [] OTHER -> None
    BY Homes, Zenon DEF Variable
<1>2. v # None /\ Home(n) # None /\ v # Home(n)
    BY DEF Agree
<1>3. v \in homes /\ Home(n) \in homes
    BY <1>2 DEF Agreed
<1> HIDE DEF homes
<1>4. homes # {} /\ ~\E h \in homes : homes = {h}
    BY <1>2, <1>3
<1> QED BY <1>1, <1>4

LEMMA FitsVariable ==
    ASSUME FromEnv, NEW c
    PROVE  Fits(c) = IF Variable = c THEN {"env"} ELSE {}
<1>1. SourceSet = {"env"} /\ Token("env") = Variable
    BY DEF SourceSet, Token
<1> QED BY <1>1 DEF Fits

\* What the invariant says of a request on its way.
LEMMA OnItsWay ==
    ASSUME RoutingInv, ReadInv, NEW r \in Slots, UnderWay(req[r]), req[r].since = epoch
    PROVE  Knows(req[r]) /\ Concludes(req[r])
BY DEF ReadInv

\* The fields that a step of the scan leaves alone.
LEMMA SourceRecord ==
    ASSUME NEW q \in Requests, NEW n, NEW f, NEW v, NEW u, NEW pc, NEW s, s = WithSource(q, n, f, v, u, pc)
    PROVE  /\ s.next = n /\ s.found = f /\ s.value = v /\ s.pc = pc
           /\ s.kind = q.kind /\ s.cred = q.cred /\ s.bearer = q.bearer /\ s.account = q.account
           /\ s.since = q.since /\ s.until = q.until
BY DEF Requests, WithSource

LEMMA ChoiceRecord ==
    ASSUME NEW q \in Requests, NEW b, NEW p, NEW pc, NEW s, s = WithChoice(q, b, p, pc)
    PROVE  /\ s.account = b /\ s.proxy = p /\ s.pc = pc
           /\ s.next = q.next /\ s.found = q.found /\ s.value = q.value
           /\ s.kind = q.kind /\ s.cred = q.cred /\ s.bearer = q.bearer
           /\ s.since = q.since /\ s.until = q.until
BY DEF Requests, WithChoice

LEMMA ReadSourceReads ==
    ASSUME RoutingInv, ReadInv, NEW r \in Slots, ReadSource(r)
    PROVE  ReadInv'
<1> DEFINE d     == Places[req[r].next]
           match == file[d].token = req[r].cred
           n     == req[r].next + 1
           f     == IF match THEN AnotherMatch(req[r].found, d) ELSE req[r].found
           u     == req[r].unavailable \/ file[d].token = None
           pc    == IF Claude /\ req[r].kind = "refresh" /\ match THEN "identify" ELSE req[r].pc
<1>1. req[r].pc = "scan" /\ req[r].next <= Len(Places) /\ ~FromEnv
    BY DEF ReadSource, Scanning, At, Saved
<1>2. Goes(r, WithSource(req[r], n, f, req[r].value, u, pc))
    <2>1. Goes(r, [req[r] EXCEPT !.next = n, !.found = f, !.unavailable = u, !.pc = pc])
        BY Zenon DEF ReadSource
    <2> HIDE DEF n, f, u, pc
    <2>2. [req[r] EXCEPT !.next = n, !.found = f, !.unavailable = u, !.pc = pc]
            = WithSource(req[r], n, f, req[r].value, u, pc)
        <3>1. req[r] \in Requests
            BY RequestFields
        <3> QED BY <3>1 DEF Requests, WithSource
    <2> QED BY <2>1, <2>2, Zenon
<1> HIDE DEF u
<1>3. PICK q : q = WithSource(req[r], n, f, req[r].value, u, pc)
    OBVIOUS
<1>4. /\ q.next = n /\ q.found = f /\ q.pc = pc
      /\ q.kind = req[r].kind /\ q.cred = req[r].cred /\ q.bearer = req[r].bearer /\ q.account = req[r].account
      /\ q.since = req[r].since /\ q.until = req[r].until
    <2> HIDE DEF n, f, pc
    <2> QED BY <1>3, RequestFields, SourceRecord
<1>5. ASSUME q.since = epoch
      PROVE  Knows(q) /\ Concludes(q)
    <2>1. Knows(req[r]) /\ Concludes(req[r])
        BY <1>1, <1>4, <1>5, OnItsWay DEF UnderWay
    <2>2. Lists(req[r].found, Before(req[r].next, req[r].cred)) /\ req[r].bearer
        BY <1>1, <2>1 DEF Knows
    <2>3. d \notin Before(req[r].next, req[r].cred) /\ d \in Dirs /\ req[r].found \in Seq(Dirs \cup {"env"})
        BY <1>1, RequestFields, BeforeNext, PlaceFacts
    <2>4. Before(n, req[r].cred)
            = IF match THEN Before(req[r].next, req[r].cred) \cup {d} ELSE Before(req[r].next, req[r].cred)
        BY <1>1, RequestFields, BeforeNext
    <2>5. Lists(f, Before(n, req[r].cred))
        <3>1. CASE match
            BY <2>2, <2>3, <2>4, <3>1, ListedMore DEF AnotherMatch
        <3>2. CASE ~match
            BY <2>2, <2>4, <3>2
        <3> QED BY <3>1, <3>2
    <2>6. pc = "scan" \/ (pc = "identify" /\ req[r].kind = "refresh")
        BY <1>1
    <2>7. pc = "scan" /\ req[r].kind = "refresh" /\ Claude => f = req[r].found
        BY <1>1
    <2> HIDE DEF n, f, pc
    <2>8. Knows(q)
        BY <1>1, <1>4, <2>2, <2>5, <2>6, Zenon DEF Knows
    <2>9. Concludes(q)
        BY <1>1, <1>4, <2>1, <2>6, <2>7 DEF Concludes
    <2> QED BY <2>8, <2>9
<1>6. Goes(r, q)
    BY <1>2, <1>3
<1> QED BY <1>4, <1>5, <1>6, GoesReads

LEMMA ReadHomeReads ==
    ASSUME RoutingInv, ReadInv, NEW r \in Slots, ReadHome(r)
    PROVE  ReadInv'
<1> DEFINE h == Home(req[r].next)
           v == Else(req[r].value, h)
<1>1. req[r].pc = "scan" /\ req[r].next \in DOMAIN Places /\ FromEnv
    BY RequestFields, PlacesOnce DEF ReadHome, Scanning, At
<1>2. \/ /\ Agree(req[r].value, h)
         /\ Goes(r, [req[r] EXCEPT !.next = req[r].next + 1, !.value = v])
      \/ /\ ~Agree(req[r].value, h)
         /\ Goes(r, [req[r] EXCEPT !.next = Sources + 1, !.unavailable = TRUE])
    BY Zenon DEF ReadHome, Home
<1> HIDE DEF v
<1>3. \/ /\ Agree(req[r].value, h)
         /\ Goes(r, WithSource(req[r], req[r].next + 1, req[r].found, v, req[r].unavailable, req[r].pc))
      \/ /\ ~Agree(req[r].value, h)
         /\ Goes(r, WithSource(req[r], Sources + 1, req[r].found, req[r].value, TRUE, req[r].pc))
    BY ZenonT(60), <1>2, RequestFields, SameFound, SameStop
<1>4. /\ req[r].next \in Nat /\ req[r].next <= Len(Places) /\ Sources = Len(Places) + 1 /\ Len(Places) \in Nat
    BY <1>1, RequestFields, PlacesOnce
<1>5. ASSUME req[r].since = epoch
      PROVE  /\ Knows(req[r]) /\ Concludes(req[r]) /\ req[r].bearer
             /\ req[r].found = <<>> /\ Agreed(req[r].next, req[r].value)
    <2>1. Knows(req[r]) /\ Concludes(req[r])
        BY <1>1, <1>5, OnItsWay DEF UnderWay
    <2> QED BY <1>1, <1>4, <2>1 DEF Knows
<1>6. CASE Agree(req[r].value, h)
           /\ Goes(r, WithSource(req[r], req[r].next + 1, req[r].found, v, req[r].unavailable, req[r].pc))
    <2>1. PICK q : q = WithSource(req[r], req[r].next + 1, req[r].found, v, req[r].unavailable, req[r].pc)
        OBVIOUS
    <2>2. /\ q.next = req[r].next + 1 /\ q.found = req[r].found /\ q.value = v /\ q.pc = req[r].pc
          /\ q.kind = req[r].kind /\ q.cred = req[r].cred /\ q.bearer = req[r].bearer /\ q.account = req[r].account
          /\ q.since = req[r].since /\ q.until = req[r].until
        BY <2>1, RequestFields, SourceRecord
    <2>3. ASSUME q.since = epoch
          PROVE  Knows(q) /\ Concludes(q)
        <3>1. Agreed(q.next, q.value)
            <4>1. Agreed(req[r].next, req[r].value)
                BY <1>5, <2>2, <2>3
            <4>2. \A i \in DOMAIN Places : i < req[r].next + 1 <=> i < req[r].next \/ i = req[r].next
                BY <1>4, PlacesOnce
            <4> QED BY <1>1, <1>6, <2>2, <4>1, <4>2 DEF Agreed, Agree, v, Else
        <3>2. ~(q.next > Sources)
            BY <1>4, <2>2
        <3>3. Knows(q)
            BY <1>1, <1>5, <2>2, <2>3, <3>1, <3>2, Zenon DEF Knows
        <3>4. Concludes(q)
            BY <1>1, <1>5, <2>2, <2>3 DEF Concludes
        <3> QED BY <3>3, <3>4
    <2>4. Goes(r, q)
        BY <1>6, <2>1
    <2> QED BY <2>2, <2>3, <2>4, GoesReads
<1>7. CASE ~Agree(req[r].value, h)
           /\ Goes(r, WithSource(req[r], Sources + 1, req[r].found, req[r].value, TRUE, req[r].pc))
    <2>0. PICK u : u = TRUE
        OBVIOUS
    <2>1. PICK q : q = WithSource(req[r], Sources + 1, req[r].found, req[r].value, u, req[r].pc)
        OBVIOUS
    <2>2. /\ q.next = Sources + 1 /\ q.found = req[r].found /\ q.value = req[r].value /\ q.pc = req[r].pc
          /\ q.kind = req[r].kind /\ q.cred = req[r].cred /\ q.bearer = req[r].bearer /\ q.account = req[r].account
          /\ q.since = req[r].since /\ q.until = req[r].until
        BY <2>1, RequestFields, SourceRecord
    <2>3. ASSUME q.since = epoch
          PROVE  Knows(q) /\ Concludes(q)
        <3>1. Variable = None
            BY <1>1, <1>5, <1>7, <2>2, <2>3, DisagreedVariable
        <3>2. q.cred # None
            BY <2>2, RequestFields
        <3>3. Lists(q.found, Fits(q.cred))
            BY <1>1, <1>5, <2>2, <2>3, <3>1, <3>2, FitsVariable, ListsNone
        <3>4. ~(q.next <= Sources)
            BY <1>4, <2>2
        <3>5. Knows(q)
            BY <1>1, <1>5, <2>2, <2>3, <3>3, <3>4, Zenon DEF Knows
        <3>6. Concludes(q)
            BY <1>1, <1>5, <2>2, <2>3 DEF Concludes
        <3> QED BY <3>5, <3>6
    <2>4. Goes(r, q)
        BY <1>7, <2>0, <2>1
    <2> QED BY <2>2, <2>3, <2>4, GoesReads
<1> QED BY <1>3, <1>6, <1>7

LEMMA ReadVariableReads ==
    ASSUME RoutingInv, ReadInv, NEW r \in Slots, ReadVariable(r)
    PROVE  ReadInv'
<1> DEFINE value == Else(req[r].value, Else(config.process, config.shell))
           n     == req[r].next + 1
           f     == IF value = req[r].cred /\ req[r].kind # "refresh" THEN <<"env">> ELSE req[r].found
           u     == req[r].unavailable \/ (value = None /\ (Codex \/ req[r].kind # "refresh"))
<1>1. req[r].pc = "scan" /\ FromEnv /\ req[r].next = Sources /\ Sources = Len(Places) + 1 /\ Len(Places) \in Nat
    BY PlacesOnce DEF ReadVariable, At
<1>2. Goes(r, WithSource(req[r], n, f, req[r].value, u, req[r].pc))
    <2>1. Goes(r, [req[r] EXCEPT !.next = n, !.found = f, !.unavailable = u])
        BY Zenon DEF ReadVariable
    <2> HIDE DEF n, f, u
    <2>2. [req[r] EXCEPT !.next = n, !.found = f, !.unavailable = u]
            = WithSource(req[r], n, f, req[r].value, u, req[r].pc)
        <3>1. req[r] \in Requests
            BY RequestFields
        <3>2. \A m, g, w : [req[r] EXCEPT !.next = m, !.found = g, !.unavailable = w]
                             = WithSource(req[r], m, g, req[r].value, w, req[r].pc)
            BY <3>1, SamePc
        <3> QED BY <3>2, Zenon
    <2> QED BY <2>1, <2>2, Zenon
<1> HIDE DEF u
<1>3. PICK q : q = WithSource(req[r], n, f, req[r].value, u, req[r].pc)
    OBVIOUS
<1>4. /\ q.next = n /\ q.found = f /\ q.value = req[r].value /\ q.pc = req[r].pc
      /\ q.kind = req[r].kind /\ q.cred = req[r].cred /\ q.bearer = req[r].bearer /\ q.account = req[r].account
      /\ q.since = req[r].since /\ q.until = req[r].until
    <2> HIDE DEF n, f
    <2> QED BY <1>3, RequestFields, SourceRecord
<1>5. ASSUME q.since = epoch
      PROVE  Knows(q) /\ Concludes(q)
    <2>1. Knows(req[r]) /\ Concludes(req[r])
        BY <1>1, <1>4, <1>5, OnItsWay DEF UnderWay
    <2>2. req[r].bearer /\ req[r].found = <<>> /\ Agreed(req[r].next, req[r].value)
        BY <1>1, <2>1 DEF Knows
    <2>3. Variable = value
        BY <1>1, <2>2, AgreedVariable
    <2>4. req[r].kind # "refresh" => Lists(f, Fits(req[r].cred))
        <3>1. CASE value = req[r].cred
            BY <1>1, <2>3, <3>1, FitsVariable, ListsOne
        <3>2. CASE value # req[r].cred
            BY <1>1, <2>2, <2>3, <3>2, FitsVariable, ListsNone
        <3> QED BY <3>1, <3>2
    <2>5. ~(n <= Sources)
        BY <1>1
    <2> HIDE DEF n, f
    <2>6. Knows(q)
        BY <1>1, <1>4, <2>2, <2>4, <2>5, Zenon DEF Knows
    <2>7. Concludes(q)
        BY <1>1, <1>4 DEF Concludes
    <2> QED BY <2>6, <2>7
<1>6. Goes(r, q)
    BY <1>2, <1>3
<1> QED BY <1>4, <1>5, <1>6, GoesReads

\* What a request has found that has read all sources.
LEMMA ScannedKnows ==
    ASSUME RoutingInv, ReadInv, NEW r \in Slots, Scanned(r), req[r].since = epoch, req[r].kind # "refresh"
    PROVE  Lists(req[r].found, Fits(req[r].cred)) /\ req[r].bearer
<1>1. req[r].pc = "scan" /\ req[r].next > Sources
    BY DEF Scanned, At
<1>2. Knows(req[r])
    BY <1>1, OnItsWay DEF UnderWay
<1>3. CASE FromEnv
    BY <1>1, <1>2, <1>3 DEF Knows
<1>4. CASE ~FromEnv
    <2>1. req[r].next > Len(Places) /\ req[r].next \in Nat \ {0}
        BY <1>1, <1>4, PlacesOnce, RequestFields
    <2>2. Lists(req[r].found, Before(req[r].next, req[r].cred)) /\ req[r].bearer
        BY <1>1, <1>2, <1>4 DEF Knows
    <2> QED BY <1>4, <2>1, <2>2, AllBefore
<1> QED BY <1>3, <1>4

LEMMA FoundLength ==
    ASSUME RoutingInv, NEW r \in Slots
    PROVE  /\ Len(req[r].found) \in Nat /\ (Len(req[r].found) = 0 <=> req[r].found = <<>>)
           /\ Len(req[r].found) = 1 => /\ Last(req[r].found) = req[r].found[1] /\ DOMAIN req[r].found = {1}
<1>1. req[r].found \in Seq(Dirs \cup {"env"})
    BY RequestFields
<1> QED BY <1>1 DEF Last

LEMMA ClaudeScannedReads ==
    ASSUME RoutingInv, ReadInv, NEW r \in Slots, ClaudeScanned(r)
    PROVE  ReadInv'
<1> DEFINE pc == IF req[r].found = <<>> THEN "decide" ELSE "identify"
<1>1. Scanned(r) /\ Claude /\ req[r].kind # "refresh"
    BY DEF ClaudeScanned
<1>2. \/ Answer(r, Refused("ambiguous"))
      \/ Len(req[r].found) <= 1 /\ Goes(r, [req[r] EXCEPT !.pc = pc])
    BY FoundLength DEF ClaudeScanned
<1>3. CASE Answer(r, Refused("ambiguous"))
    BY <1>3, AnswerReads
<1>4. CASE Len(req[r].found) <= 1 /\ Goes(r, [req[r] EXCEPT !.pc = pc])
    <2>1. PICK q : q = WithChoice(req[r], req[r].account, req[r].proxy, pc)
        OBVIOUS
    <2>2. Goes(r, q)
        <3>1. [req[r] EXCEPT !.pc = pc] = q
            BY <2>1, RequestFields, SameChoice, Zenon
        <3> QED BY <1>4, <3>1, Zenon
    <2>3. /\ q.pc = pc /\ q.found = req[r].found /\ q.kind = req[r].kind /\ q.cred = req[r].cred
          /\ q.bearer = req[r].bearer /\ q.since = req[r].since /\ q.until = req[r].until /\ q.next = req[r].next
        <3> HIDE DEF pc
        <3> QED BY <2>1, RequestFields, ChoiceRecord
    <2>4. ASSUME q.since = epoch
          PROVE  Knows(q) /\ Concludes(q)
        <3>1. Lists(req[r].found, Fits(req[r].cred)) /\ req[r].bearer
            BY <1>1, <2>3, <2>4, ScannedKnows
        <3>2. (pc = "decide" /\ req[r].found = <<>>) \/ (pc = "identify" /\ Len(req[r].found) = 1)
            <4>0. Len(req[r].found) <= 1
                BY <1>4, Zenon
            <4>1. req[r].found # <<>> => Len(req[r].found) = 1
                <5>1. PICK m : m = Len(req[r].found)
                    OBVIOUS
                <5>2. m \in Nat /\ (m = 0 <=> req[r].found = <<>>) /\ m <= 1
                    BY <4>0, <5>1, FoundLength, Zenon
                <5>3. m # 0 => m = 1
                    BY <5>2
                <5> QED BY <5>1, <5>2, <5>3, Zenon
            <4> QED BY <4>1, Zenon
        <3> HIDE DEF pc
        <3>3. Knows(q)
            BY <1>1, <2>3, <3>1, <3>2 DEF Knows, Codex, Claude
        <3>4. Concludes(q)
            BY <1>1, <2>3, <3>2 DEF Concludes
        <3> QED BY <3>3, <3>4
    <2> QED BY <2>2, <2>3, <2>4, GoesReads
<1> QED BY <1>2, <1>3, <1>4

LEMMA IdentifyReads ==
    ASSUME RoutingInv, ReadInv, NEW r \in Slots, Identify(r)
    PROVE  ReadInv'
<1> DEFINE d       == Last(req[r].found)
           account == IF d = "env" THEN None ELSE file[d].meta
           proxy   == Choice(account, d)
<1>1. req[r].pc = "identify" /\ ~Codex /\ Claude
    BY OnlyClaude DEF Identify, At, Claude
<1>2. \/ req[r].kind = "refresh" /\ Goes(r, [req[r] EXCEPT !.account = account, !.pc = "scan"])
      \/ /\ req[r].kind # "refresh" /\ (proxy = None => account = None)
         /\ Goes(r, [req[r] EXCEPT !.account = account, !.proxy = proxy, !.pc = "decide"])
      \/ Answer(r, Refused("unmapped"))
    BY Zenon DEF Identify
<1>3. req[r].since = epoch => Knows(req[r]) /\ Concludes(req[r])
    BY <1>1, OnItsWay DEF UnderWay
<1> HIDE DEF account, proxy
<1>4. CASE req[r].kind = "refresh" /\ Goes(r, [req[r] EXCEPT !.account = account, !.pc = "scan"])
    <2>1. PICK q : q = WithChoice(req[r], account, req[r].proxy, "scan")
        OBVIOUS
    <2>2. Goes(r, q)
        <3>1. [req[r] EXCEPT !.account = account, !.pc = "scan"] = q
            BY <2>1, RequestFields, SameProxy, Zenon
        <3> QED BY <1>4, <3>1, Zenon
    <2>3. /\ q.pc = "scan" /\ q.account = account /\ q.found = req[r].found /\ q.kind = req[r].kind /\ q.cred = req[r].cred
          /\ q.bearer = req[r].bearer /\ q.since = req[r].since /\ q.until = req[r].until /\ q.next = req[r].next
        BY <2>1, RequestFields, ChoiceRecord
    <2>4. ASSUME q.since = epoch
          PROVE  Knows(q) /\ Concludes(q)
        <3>1. ~FromEnv /\ req[r].bearer /\ Lists(req[r].found, Before(req[r].next, req[r].cred))
            BY <1>1, <1>3, <1>4, <2>3, <2>4 DEF Knows
        <3>2. req[r].found # <<>> => d # "env"
            <4>1. req[r].found # <<>> => d \in Before(req[r].next, req[r].cred)
                BY <3>1, RequestFields DEF Lists, Last
            <4> QED BY <4>1, PlacesOnce DEF Before
        <3>3. Knows(q)
            BY <1>1, <1>4, <2>3, <3>1, Zenon DEF Knows
        <3>4. Concludes(q)
            BY <1>1, <1>4, <2>3, <3>2 DEF Concludes, account
        <3> QED BY <3>3, <3>4
    <2> QED BY <2>2, <2>3, <2>4, GoesReads
<1>5. CASE /\ req[r].kind # "refresh" /\ (proxy = None => account = None)
           /\ Goes(r, [req[r] EXCEPT !.account = account, !.proxy = proxy, !.pc = "decide"])
    <2>1. PICK q : q = WithChoice(req[r], account, proxy, "decide")
        OBVIOUS
    <2>2. Goes(r, q)
        BY <1>5, <2>1, Zenon DEF WithChoice
    <2>3. /\ q.pc = "decide" /\ q.account = account /\ q.proxy = proxy
          /\ q.found = req[r].found /\ q.kind = req[r].kind /\ q.cred = req[r].cred
          /\ q.bearer = req[r].bearer /\ q.since = req[r].since /\ q.until = req[r].until /\ q.next = req[r].next
        BY <2>1, RequestFields, ChoiceRecord
    <2>4. ASSUME q.since = epoch
          PROVE  Knows(q) /\ Concludes(q)
        <3>1. req[r].bearer /\ Lists(req[r].found, Fits(req[r].cred)) /\ Len(req[r].found) = 1
            BY <1>1, <1>3, <1>5, <2>3, <2>4 DEF Knows, Concludes
        <3>2. d = req[r].found[1]
            BY <3>1, FoundLength
        <3>3. account = AccountOf(d)
            BY <1>1 DEF AccountOf, account
        <3>4. Knows(q)
            BY <1>1, <1>5, <2>3, <3>1, Zenon DEF Knows
        <3> HIDE DEF d
        <3>5. Concludes(q)
            BY <1>5, <2>3, <3>1, <3>2, <3>3 DEF Concludes, proxy
        <3> QED BY <3>4, <3>5
    <2> QED BY <2>2, <2>3, <2>4, GoesReads
<1>6. CASE Answer(r, Refused("unmapped"))
    BY <1>6, AnswerReads
<1> QED BY <1>2, <1>4, <1>5, <1>6

\* What a Claude request is that asks for the profile.
LEMMA ProfileAsked ==
    ASSUME RoutingInv, ReadInv, NEW r \in Slots, req[r].pc = "decide", req[r].since = epoch,
           ~config.broken, KeysFound(req[r].cred, req[r].found = <<>>) = {}, req[r].bearer,
           req[r].found # <<>> => req[r].proxy = None,
           NEW p, NEW q, q = WithChoice(req[r], req[r].account, p, "cached")
    PROVE  Knows(q) /\ Concludes(q)
<1>1. Knows(req[r]) /\ Concludes(req[r])
    BY OnItsWay DEF UnderWay
<1>2. /\ q.pc = "cached" /\ q.account = req[r].account
      /\ q.found = req[r].found /\ q.kind = req[r].kind /\ q.cred = req[r].cred
      /\ q.bearer = req[r].bearer /\ q.next = req[r].next
    <2>1. req[r] \in Requests
        BY RequestFields
    <2> QED BY <2>1 DEF Requests, WithChoice
<1>3. Knows(q)
    BY <1>1, <1>2 DEF Knows
<1>4. req[r].found # <<>> => req[r].account = None /\ Choice(None, req[r].found[1]) = None
    BY <1>1 DEF Concludes
<1>5. Concludes(q)
    BY <1>1, <1>2, <1>4 DEF Concludes
<1> QED BY <1>3, <1>5

LEMMA ClaudeDecideReads ==
    ASSUME RoutingInv, ReadInv, NEW r \in Slots, ClaudeDecide(r)
    PROVE  ReadInv'
<1> DEFINE probe == Else(config.probe, config.fallback)
           asks == [req[r] EXCEPT !.proxy = probe, !.pc = "cached"]
           saved == req[r].found # <<>>
           keys == KeysFound(req[r].cred, ~saved)
           n == Cardinality(keys)
<1>1. req[r].pc = "decide"
    BY DEF ClaudeDecide, At
<1>2. \/ \E a : Answer(r, a)
      \/ ~config.broken /\ n + (IF saved THEN 1 ELSE 0) = 1 /\ saved /\ req[r].proxy = None /\ Goes(r, asks)
      \/ ~config.broken /\ n + (IF saved THEN 1 ELSE 0) = 0 /\ req[r].bearer /\ Goes(r, asks)
    BY Zenon DEF ClaudeDecide
<1> HIDE DEF probe, asks
<1>3. ASSUME NEW a, Answer(r, a) PROVE ReadInv'
    BY <1>3, AnswerReads
<1>4. CASE \/ ~config.broken /\ n + (IF saved THEN 1 ELSE 0) = 1 /\ saved /\ req[r].proxy = None /\ Goes(r, asks)
           \/ ~config.broken /\ n + (IF saved THEN 1 ELSE 0) = 0 /\ req[r].bearer /\ Goes(r, asks)
    <2>1. keys = {} /\ (saved => req[r].proxy = None) /\ (saved \/ req[r].bearer) /\ ~config.broken
        <3>1. n \in Nat /\ (n = 0 <=> keys = {})
            BY KeysFinite
        <3> HIDE DEF n, keys
        <3> QED BY <1>4, <3>1
    <2>2. KeysFound(req[r].cred, req[r].found = <<>>) = {}
        BY <2>1 DEF KeysFound
    <2>3. PICK q : q = WithChoice(req[r], req[r].account, probe, "cached")
        OBVIOUS
    <2>4. Goes(r, q)
        <3>1. asks = q
            BY <2>3, RequestFields, SameAccount, Zenon DEF asks
        <3> QED BY <1>4, <3>1, Zenon
    <2>5. q.since = req[r].since /\ q.until = req[r].until
        BY <2>3, RequestFields, ChoiceRecord
    <2>6. ASSUME q.since = epoch
          PROVE  Knows(q) /\ Concludes(q)
        <3>1. req[r].bearer
            <4>1. Knows(req[r])
                BY <1>1, <2>5, <2>6, OnItsWay DEF UnderWay
            <4> QED BY <2>1, <4>1 DEF Knows
        <3> QED BY <1>1, <2>1, <2>3, <2>5, <2>6, <3>1, ProfileAsked
    <2> QED BY <2>4, <2>5, <2>6, GoesReads
<1> QED BY <1>2, <1>3, <1>4

LEMMA CacheMissReads ==
    ASSUME RoutingInv, ReadInv, NEW r \in Slots, CacheMiss(r)
    PROVE  ReadInv'
<1>1. req[r].pc = "cached" /\ Goes(r, [req[r] EXCEPT !.pc = "profile"])
    BY DEF CacheMiss, At
<1>2. PICK q : q = WithChoice(req[r], req[r].account, req[r].proxy, "profile")
    OBVIOUS
<1>3. Goes(r, q)
    <2>1. [req[r] EXCEPT !.pc = "profile"] = q
        BY <1>2, RequestFields, SameChoice, Zenon
    <2> QED BY <1>1, <2>1, Zenon
<1>4. /\ q.pc = "profile" /\ q.account = req[r].account
      /\ q.found = req[r].found /\ q.kind = req[r].kind /\ q.cred = req[r].cred
      /\ q.bearer = req[r].bearer /\ q.next = req[r].next /\ q.since = req[r].since /\ q.until = req[r].until
    BY <1>2, RequestFields, ChoiceRecord
<1>5. ASSUME q.since = epoch
      PROVE  Knows(q) /\ Concludes(q)
    <2>1. Knows(req[r]) /\ Concludes(req[r])
        BY <1>1, <1>4, <1>5, OnItsWay DEF UnderWay
    <2>2. Knows(q)
        BY <1>1, <1>4, <2>1 DEF Knows
    <2>3. Concludes(q)
        BY <1>1, <1>4, <2>1 DEF Concludes
    <2> QED BY <2>2, <2>3
<1> QED BY <1>3, <1>4, <1>5, GoesReads

LEMMA ProfiledReads ==
    ASSUME RoutingInv, ReadInv, NEW r \in Slots, NEW b, Profiled(r, b),
           config' = config, file' = file, epoch' = epoch
    PROVE  ReadInv'
<1>1. req' = [req EXCEPT ![r] = WithAnswer(req[r], ByAccount(b, None), TRUE, epoch)]
    BY Zenon DEF Profiled, WithAnswer
<1> QED BY <1>1, AnsweredReads

LEMMA ReadInvInit ==
    ASSUME Init
    PROVE  ReadInv
<1>1. IsInjective(config.dirs) /\ epoch = 0 /\ req = [r \in Slots |-> Idle]
    BY DEF Init, Valid
<1>2. Idle.since = 0 /\ Idle.until = 0 /\ ~UnderWay(Idle)
    BY Zenon DEF Idle, UnderWay
<1>3. \A r \in Slots : req[r] = Idle
    BY <1>1
<1> QED BY <1>1, <1>2, <1>3 DEF ReadInv

LEMMA ReadInvNext ==
    ASSUME RoutingInv, ReadInv, [Next]_vars
    PROVE  ReadInv'
<1>1. CASE CommandLine
    <2>1. Changed
        BY <1>1, Zenon DEF CommandLine, ClaudeLoginEnds, Logout, CodexLogin, ClaudeLogin, EditsEnv
    <2> QED BY <2>1, ReadFiles
<1>2. ASSUME NEW r \in Slots, Request(r) PROVE ReadInv'
    <2>1. ASSUME NEW kind \in Kinds, NEW c \in Creds, NEW bearer \in BOOLEAN, NEW claimed \in Opt(Accounts),
                 Begin(r, kind, c, bearer, claimed)
          PROVE  ReadInv'
        BY <2>1, BeginReads
    <2>2. ASSUME NEW target \in config.asked, NEW c \in Creds, NEW bearer \in BOOLEAN,
                 BeginExplicit(r, target, c, bearer)
          PROVE  ReadInv'
        BY <2>2, BeginExplicitReads
    <2>3. CASE ReadSource(r)
        BY <2>3, ReadSourceReads
    <2>4. CASE ReadHome(r)
        BY <2>4, ReadHomeReads
    <2>5. CASE ReadVariable(r)
        BY <2>5, ReadVariableReads
    <2>6. ASSUME NEW a, Answer(r, a) PROVE ReadInv'
        BY <2>6, AnswerReads
    <2>7. CASE CodexRefresh(r) \/ RefreshUnmatched(r) \/ ClaudeRefresh(r) \/ ProfileFails(r)
        <3>1. \E a : Answer(r, a)
            BY <2>7, Zenon DEF CodexRefresh, RefreshUnmatched, ClaudeRefresh, ProfileFails
        <3> QED BY <2>6, <3>1
    <2>9. CASE CodexDecide(r)
        <3>1. \E a : Answer(r, a)
            BY <2>9, Zenon DEF CodexDecide
        <3> QED BY <2>6, <3>1
    <2>10. CASE ClaudeScanned(r)
        BY <2>10, ClaudeScannedReads
    <2>11. CASE Identify(r)
        BY <2>11, IdentifyReads
    <2>12. CASE ClaudeDecide(r)
        BY <2>12, ClaudeDecideReads
    <2>13. CASE CacheHit(r)
        <3>1. \E b : Profiled(r, b)
            BY <2>13, Zenon DEF CacheHit
        <3> QED BY <2>13, <3>1, ProfiledReads DEF CacheHit
    <2>14. CASE CacheMiss(r)
        BY <2>14, CacheMissReads
    <2>15. CASE ProfileKnown(r)
        BY <2>15, ProfiledReads DEF ProfileKnown
    <2> QED BY <1>2, <2>1, <2>2, <2>3, <2>4, <2>5, <2>7, <2>9, <2>10, <2>11, <2>12, <2>13, <2>14, <2>15, Zenon DEF Request
<1>3. CASE UNCHANGED vars
    <2>1. config' = config /\ file' = file /\ epoch' = epoch /\ req' = req
        BY <1>3 DEF vars
    <2>2. ASSUME NEW s \in Slots, NEW p, p = req'[s], UnderWay(p), p.since = epoch
          PROVE  Knows(p)' /\ Concludes(p)'
        <3>1. Knows(p) /\ Concludes(p)
            BY <2>1, <2>2 DEF ReadInv
        <3> QED BY <2>1, <3>1, SameKnowledge
    <2>3. \A p : UnderWay(p)' <=> UnderWay(p)
        BY DEF UnderWay
    <2>4. IsInjective(config.dirs) /\ \A s \in Slots : req[s].since <= epoch /\ req[s].until <= epoch
        BY DEF ReadInv
    <2> QED BY <2>1, <2>2, <2>3, <2>4 DEF ReadInv
<1> QED BY <1>1, <1>2, <1>3 DEF Next

\* What a request has read while no file changed is what the files hold: the
\* sources it has passed that hold its token, once each, and the variable as far
\* as the directories agree.
THEOREM ReadInvariant == Spec => [](RoutingInv /\ ReadInv)
BY RoutingInvInit, RoutingInvNext, ReadInvInit, ReadInvNext, PTL DEF Spec

-----------------------------------------------------------------------------
(* Answers to requests that no change has disturbed. *)

LEMMA ListedOne ==
    ASSUME NEW T, NEW s \in Seq(T), NEW S, Lists(s, S), Len(s) = 1
    PROVE  S = {s[1]}
<1>1. DOMAIN s = {1}
    OBVIOUS
<1> QED BY <1>1 DEF Lists

\* How many routes fit: n places and k keys.
Counted(q, n, k) ==
    /\ n \in Nat /\ k \in Nat
    /\ SavedOf(q) = {} <=> n = 0
    /\ q.found = <<>> <=> n = 0
    /\ KeysOf(q) = {} <=> k = 0
    /\ n = 1 => SavedOf(q) = {q.found[1]}
    /\ \A x \in KeysOf(q) : k = 1 => KeysOf(q) = {x}
    /\ ByClaims(q) => n = 0 /\ Matching(q) = n + k + 1
    /\ ~ByClaims(q) => Matching(q) = n + k

LEMMA MatchingCount ==
    ASSUME RoutingInv, NEW r \in Slots, Lists(req[r].found, SavedOf(req[r])), NEW n, NEW k,
           n = Len(req[r].found), k = Cardinality(KeysOf(req[r]))
    PROVE  Counted(req[r], n, k)
<1>1. req[r].found \in Seq(Dirs \cup {"env"})
    BY RequestFields
<1>2. IsFiniteSet(SavedOf(req[r])) /\ Cardinality(SavedOf(req[r])) = n /\ (SavedOf(req[r]) = {} <=> req[r].found = <<>>)
    BY <1>1, ListedCount
<1>3. n \in Nat /\ (n = 0 <=> req[r].found = <<>>)
    BY FoundLength
<1>4. n = 1 => SavedOf(req[r]) = {req[r].found[1]}
    BY <1>1, ListedOne
<1>5. IsFiniteSet(KeysOf(req[r])) /\ k \in Nat /\ (KeysOf(req[r]) = {} <=> k = 0)
    BY KeysFinite DEF KeysOf
<1>6. \A x \in KeysOf(req[r]) : k = 1 => KeysOf(req[r]) = {x}
    <2>1. ASSUME k = 1 PROVE \E y : KeysOf(req[r]) = {y}
        BY <1>5, <2>1, FS_Singleton
    <2> QED BY <2>1
<1>7. ByClaims(req[r]) => n = 0
    BY <1>2, <1>3 DEF ByClaims
<1>8. (ByClaims(req[r]) => Matching(req[r]) = n + k + 1) /\ (~ByClaims(req[r]) => Matching(req[r]) = n + k + 0)
    BY <1>2, Zenon DEF Matching
<1> QED BY <1>2, <1>3, <1>4, <1>5, <1>6, <1>7, <1>8 DEF Counted

\* Before the keys are looked at, and where that fails.
LEMMA RightBroken ==
    ASSUME config.broken, NEW q, NEW a, NEW p, a.status \in {"unavailable", "unmapped"}
    PROVE  Right(q, a, p)
BY Zenon DEF Right

LEMMA RightRefused ==
    ASSUME NEW q, NEW a, NEW p, Matching(q) > 1, Matching(q) \in Nat, a.status \in {"ambiguous", "unmapped"}
    PROVE  Right(q, a, p)
BY DEF Right

LEMMA RightSaved ==
    ASSUME ~config.broken, NEW q, NEW a, NEW p, NEW d, Matching(q) = 1, SavedOf(q) = {d}, KeysOf(q) = {}, ~ByClaims(q),
           a.status # "ambiguous", Saves(q, d, a, p)
    PROVE  Right(q, a, p)
BY DEF Right

LEMMA RightKey ==
    ASSUME ~config.broken, NEW q, NEW a, NEW p, NEW x, Matching(q) = 1, SavedOf(q) = {}, KeysOf(q) = {x}, ~ByClaims(q),
           a = Routed(x.proxy, x.account)
    PROVE  Right(q, a, p)
<1>1. a.status = "routed"
    BY DEF Routed
<1> QED BY <1>1 DEF Right

LEMMA RightClaims ==
    ASSUME ~config.broken, NEW q, NEW a, NEW p, Matching(q) = 1, SavedOf(q) = {}, KeysOf(q) = {},
           a = ByAccount(Owner[q.cred], None)
    PROVE  Right(q, a, p)
<1>1. a.status # "ambiguous"
    BY ByAccountStatus
<1> QED BY <1>1 DEF Right

LEMMA RightNone ==
    ASSUME ~config.broken, NEW q, NEW a, NEW p, Matching(q) = 0, a.status # "ambiguous",
           a.status = "routed" =>
               \/ Claude /\ q.bearer /\ a = ByAccount(Owner[q.cred], None)
               \/ ~(Claude /\ q.bearer) /\ a = Routed(config.keyFallback, None)
    PROVE  Right(q, a, p)
BY DEF Right

\* What becomes of an answer at the end.
LEMMA FinishCloses ==
    ASSUME NEW r, req[r].kind = "model", NEW a, NEW m, NEW base
    PROVE  Close(req[r], a, Finish(r, a, m, base))
<1>1. \/ Finish(r, a, m, base) = a
      \/ Finish(r, a, m, base) = Refused("changed") /\ req[r].claimed # None
      \/ Finish(r, a, m, base) = Refused("undeclared") /\ req[r].target # None
    BY ZenonT(60) DEF Finish
<1>2. Refused("changed").status # "routed" /\ Refused("undeclared").status # "routed"
    BY DEF Refused
<1> QED BY <1>1, <1>2, Zenon DEF Close

LEMMA AnswerRecord ==
    ASSUME NEW q \in Requests, NEW a, NEW p, NEW n, NEW x, x = WithAnswer(q, a, p, n)
    PROVE  /\ x.answer = a /\ x.profiled = p /\ x.until = n
           /\ x.kind = q.kind /\ x.cred = q.cred /\ x.found = q.found
           /\ x.target = q.target /\ x.since = q.since
BY DEF Requests, WithAnswer

LEMMA AnswerFields ==
    ASSUME RoutingInv, NEW r \in Slots, NEW a, NEW p, NEW x, x = WithAnswer(req[r], a, p, epoch),
           req' = [req EXCEPT ![r] = x]
    PROVE  /\ req'[r].answer = a /\ req'[r].profiled = p /\ req'[r].until = epoch
           /\ req'[r].kind = req[r].kind /\ req'[r].cred = req[r].cred /\ req'[r].found = req[r].found
           /\ req'[r].target = req[r].target /\ req'[r].since = req[r].since
<1>1. req'[r] = x
    BY DEF RoutingInv, TypeOK
<1> QED BY <1>1, RequestFields, AnswerRecord

\* An answer that is not the profile API's.
LEMMA PlainFields ==
    ASSUME RoutingInv, NEW r \in Slots, NEW a, Answer(r, a)
    PROVE  req'[r].answer = a /\ req'[r].profiled = req[r].profiled
<1>0. PICK p : p = req[r].profiled
    OBVIOUS
<1>1. PICK x : x = WithAnswer(req[r], a, p, epoch)
    OBVIOUS
<1>2. [req[r] EXCEPT !.pc = "answered", !.answer = a, !.until = epoch] = x
    BY <1>0, <1>1, RequestFields, SameProfiled
<1>3. req' = [req EXCEPT ![r] = x]
    BY <1>2 DEF Answer, Answered
<1>4. req'[r].answer = a
    BY <1>1, <1>3, AnswerFields
<1>5. req'[r].profiled = p
    <2>1. req'[r] = x
        BY <1>3 DEF RoutingInv, TypeOK
    <2>2. x.profiled = p
        BY <1>1, RequestFields DEF Requests, WithAnswer
    <2> QED BY <2>1, <2>2, Zenon
<1> QED BY <1>0, <1>4, <1>5

\* A request that is to be answered.
Due(r) == UnderWay(req[r]) /\ req[r].since = epoch /\ req[r].kind = "model"

LEMMA JudgedPlainly ==
    ASSUME RoutingInv, NEW r \in Slots, Lists(req[r].found, SavedOf(req[r])), NEW a, NEW raw, Answer(r, a),
           Right(req[r], raw, req'[r].profiled), Close(req[r], raw, a)
    PROVE  Judged(req[r], req'[r].answer, req'[r].profiled)
BY PlainFields DEF Judged

LEMMA SavedAreFits ==
    ASSUME NEW q
    PROVE  (q.bearer => SavedOf(q) = Fits(q.cred)) /\ (~q.bearer => SavedOf(q) = {})
BY DEF SavedOf, Fits

LEMMA CodexDecideJudged ==
    ASSUME RoutingInv, ReadInv, NEW r \in Slots, CodexDecide(r), Due(r)
    PROVE  Judged(req[r], req'[r].answer, req'[r].profiled)
<1> DEFINE c == req[r].cred
           goes(a, base) == Answer(r, Finish(r, a, a.account # None, base))
           answer(a) == \E base : goes(a, base)
           claims == req[r].found = <<>> /\ ~config.fileOnly /\ AccountRouting /\ c \in Logins
           keys == KeysFound(c, req[r].found = <<>> /\ ~claims)
           matches == Len(req[r].found) + (IF claims THEN 1 ELSE 0) + Cardinality(keys)
           own == ByAccount(Owner[c], req[r].found[1])
           claimed == ByAccount(Owner[c], None)
           fallback == Routed(config.keyFallback, None)
           p == req'[r].profiled
<1>1. Scanned(r) /\ Codex /\ ~Claude /\ req[r].kind = "model" /\ req[r].since = epoch
    BY DEF CodexDecide, Due, Codex, Claude
<1>2. ~config.broken
    BY <1>1, ConfigsAssumption DEF RoutingInv, Codex
<1>3. \/ matches > 1 /\ answer(Refused("ambiguous"))
      \/ matches = 1 /\ req[r].found # <<>> /\ answer(own)
      \/ matches = 1 /\ claims /\ answer(claimed)
      \/ matches = 1 /\ \E k \in keys : answer(Routed(k.proxy, k.account))
      \/ matches = 0 /\ (answer(fallback) \/ answer(NoRoute(r)))
    BY Zenon DEF CodexDecide, SavedAccount
<1> HIDE DEF answer, keys
<1>4. Lists(req[r].found, Fits(c)) /\ req[r].bearer
    BY <1>1, ScannedKnows
<1>5. SavedOf(req[r]) = Fits(c) /\ Lists(req[r].found, SavedOf(req[r]))
    BY <1>4, SavedAreFits
<1>6. PICK n : n = Len(req[r].found)
    OBVIOUS
<1>7. PICK k : k = Cardinality(KeysOf(req[r]))
    OBVIOUS
<1>8. Counted(req[r], n, k)
    BY <1>5, <1>6, <1>7, MatchingCount
<1>9. ByClaims(req[r]) <=> claims
    BY <1>1, <1>8 DEF ByClaims, Counted
<1>10. keys = KeysOf(req[r])
    <2>1. SavedOf(req[r]) = {} <=> req[r].found = <<>>
        BY <1>8 DEF Counted
    <2> HIDE DEF claims
    <2> QED BY <1>9, <2>1 DEF KeysOf, KeysFound, keys
<1>11. matches = Matching(req[r]) /\ Matching(req[r]) \in Nat
    <2>1. CASE claims
        <3>1. matches = n + 1 + k
            BY <1>6, <1>7, <1>10, <2>1, Zenon
        <3>2. Matching(req[r]) = n + k + 1
            BY <1>8, <1>9, <2>1, Zenon DEF Counted
        <3> HIDE DEF matches
        <3> QED BY <1>8, <3>1, <3>2 DEF Counted
    <2>2. CASE ~claims
        <3>1. matches = n + 0 + k
            BY <1>6, <1>7, <1>10, <2>2, Zenon
        <3>2. Matching(req[r]) = n + k
            BY <1>8, <1>9, <2>2, Zenon DEF Counted
        <3> HIDE DEF matches
        <3> QED BY <1>8, <3>1, <3>2 DEF Counted
    <2> QED BY <2>1, <2>2
<1> HIDE DEF matches, claims
<1>12. ASSUME NEW a, answer(a), Right(req[r], a, p)
       PROVE  Judged(req[r], req'[r].answer, req'[r].profiled)
    <2>1. PICK base : goes(a, base)
        BY <1>12 DEF answer
    <2>2. Close(req[r], a, Finish(r, a, a.account # None, base))
        BY <1>1, FinishCloses
    <2> QED BY <1>5, <1>12, <2>1, <2>2, JudgedPlainly
<1>13. CASE matches > 1 /\ answer(Refused("ambiguous"))
    <2>1. Right(req[r], Refused("ambiguous"), p)
        BY <1>11, <1>13, RightRefused DEF Refused
    <2> QED BY <1>12, <1>13, <2>1
<1>14. CASE matches = 1 /\ req[r].found # <<>> /\ answer(own)
    <2> DEFINE d == req[r].found[1]
    <2>1. n = 1 /\ k = 0 /\ ~ByClaims(req[r])
        BY <1>8, <1>9, <1>11, <1>14 DEF claims, Counted
    <2>2. SavedOf(req[r]) = {d} /\ KeysOf(req[r]) = {}
        BY <1>8, <2>1 DEF Counted
    <2>3. Token(d) = c
        BY <2>2 DEF SavedOf
    <2>4. Saves(req[r], d, own, p)
        BY <1>1, <2>3, Zenon DEF Saves, AccountOf
    <2>5. own.status # "ambiguous"
        BY ByAccountStatus
    <2>6. Right(req[r], own, p)
        <3> HIDE DEF own, d
        <3> QED BY <1>2, <1>11, <1>14, <2>1, <2>2, <2>4, <2>5, RightSaved
    <2> QED BY <1>12, <1>14, <2>6
<1>15. CASE matches = 1 /\ claims /\ answer(claimed)
    <2>1. n = 0 /\ k = 0
        BY <1>8, <1>9, <1>11, <1>15 DEF claims, Counted
    <2>3. SavedOf(req[r]) = {} /\ KeysOf(req[r]) = {}
        BY <1>8, <2>1 DEF Counted
    <2>2. Right(req[r], claimed, p)
        BY <1>2, <1>11, <1>15, <2>3, RightClaims
    <2> QED BY <1>12, <1>15, <2>2
<1>16. ASSUME NEW x \in keys, matches = 1, answer(Routed(x.proxy, x.account))
       PROVE  Judged(req[r], req'[r].answer, req'[r].profiled)
    <2>1. k # 0 /\ x \in KeysOf(req[r])
        BY <1>8, <1>10 DEF Counted
    <2>2. n = 0 /\ k = 1 /\ ~ByClaims(req[r])
        BY <1>8, <1>11, <1>16, <2>1 DEF Counted
    <2>3. SavedOf(req[r]) = {} /\ KeysOf(req[r]) = {x}
        BY <1>8, <2>1, <2>2 DEF Counted
    <2>4. Right(req[r], Routed(x.proxy, x.account), p)
        BY <1>2, <1>11, <1>16, <2>2, <2>3, RightKey
    <2> QED BY <1>12, <1>16, <2>4
<1>17. CASE matches = 0 /\ (answer(fallback) \/ answer(NoRoute(r)))
    <2>1. PICK status \in {"unavailable", "refused"} : NoRoute(r) = Refused(status)
        BY NoRouteIsRefusal
    <2>2. NoRoute(r).status \in {"unavailable", "refused"} /\ fallback.status = "routed"
        BY <2>1 DEF Refused, Routed
    <2>3. Right(req[r], NoRoute(r), p)
        BY <1>2, <1>11, <1>17, <2>2, RightNone
    <2>4. Right(req[r], fallback, p)
        BY <1>1, <1>2, <1>11, <1>17, <2>2, RightNone
    <2> QED BY <1>12, <1>17, <2>3, <2>4
<1> QED BY <1>3, <1>13, <1>14, <1>15, <1>16, <1>17

LEMMA ClaudeScannedJudged ==
    ASSUME RoutingInv, ReadInv, NEW r \in Slots, ClaudeScanned(r), Due(r), req'[r].pc = "answered"
    PROVE  Judged(req[r], req'[r].answer, req'[r].profiled)
<1> DEFINE c == req[r].cred
           p == req'[r].profiled
<1>1. Scanned(r) /\ Claude /\ ~Codex /\ req[r].kind = "model" /\ req[r].since = epoch
    BY DEF ClaudeScanned, Due, Codex, Claude
<1>2. \/ Len(req[r].found) > 1 /\ Answer(r, Refused("ambiguous"))
      \/ Goes(r, [req[r] EXCEPT !.pc = IF req[r].found = <<>> THEN "decide" ELSE "identify"])
    BY Zenon DEF ClaudeScanned
<1>3. CASE Goes(r, [req[r] EXCEPT !.pc = IF req[r].found = <<>> THEN "decide" ELSE "identify"])
    <2>1. PICK pc : pc = IF req[r].found = <<>> THEN "decide" ELSE "identify"
        OBVIOUS
    <2>2. req' = [req EXCEPT ![r] = [req[r] EXCEPT !.pc = pc]]
        BY <1>3, <2>1 DEF Goes
    <2>3. req'[r].pc = pc
        BY <2>2, RequestFields DEF RoutingInv, TypeOK, Requests
    <2> QED BY <2>1, <2>3
<1>4. CASE Len(req[r].found) > 1 /\ Answer(r, Refused("ambiguous"))
    <2>1. Lists(req[r].found, SavedOf(req[r]))
        BY <1>1, ScannedKnows, SavedAreFits
    <2>2. PICK n : n = Len(req[r].found)
        OBVIOUS
    <2>3. PICK k : k = Cardinality(KeysOf(req[r]))
        OBVIOUS
    <2>4. Counted(req[r], n, k)
        BY <2>1, <2>2, <2>3, MatchingCount
    <2>5. Matching(req[r]) > 1 /\ Matching(req[r]) \in Nat
        BY <1>4, <2>2, <2>4 DEF Counted
    <2>6. Right(req[r], Refused("ambiguous"), p)
        BY <2>5, RightRefused DEF Refused
    <2>7. Close(req[r], Refused("ambiguous"), Refused("ambiguous"))
        BY DEF Close
    <2> QED BY <1>4, <2>1, <2>6, <2>7, JudgedPlainly
<1> QED BY <1>2, <1>3, <1>4

\* A Claude request past the scan.
LEMMA ClaudeKnows ==
    ASSUME RoutingInv, ReadInv, NEW r \in Slots, Due(r), req[r].pc # "scan"
    PROVE  /\ Claude /\ ~Codex /\ Knows(req[r]) /\ Concludes(req[r])
           /\ Lists(req[r].found, SavedOf(req[r])) /\ ~ByClaims(req[r])
           /\ req[r].found # <<>> => Len(req[r].found) = 1
<1>1. Claude /\ ~Codex
    BY OnlyClaude DEF Due, UnderWay, Claude
<1>2. Knows(req[r]) /\ Concludes(req[r])
    BY OnItsWay DEF Due
<1>3. Lists(req[r].found, SavedOf(req[r]))
    <2>1. CASE req[r].bearer
        BY <1>2, <2>1, SavedAreFits DEF Knows, Due
    <2>2. CASE ~req[r].bearer
        <3>1. req[r].found = <<>> /\ SavedOf(req[r]) = {}
            BY <1>2, <2>2, SavedAreFits DEF Knows
        <3> QED BY <3>1, ListsNone
    <2> QED BY <2>1, <2>2
<1>4. ~ByClaims(req[r])
    BY <1>1 DEF ByClaims
<1>5. req[r].pc \in {"identify", "decide", "cached", "profile"}
    BY RequestFields DEF Requests, Due, UnderWay
<1>6. req[r].found # <<>> => Len(req[r].found) = 1
    BY <1>2, <1>5 DEF Concludes, Due
<1> QED BY <1>1, <1>2, <1>3, <1>4, <1>6

\* The unmapped login: one place, without a route.
LEMMA UnmappedRight ==
    ASSUME RoutingInv, NEW r \in Slots, NEW n, NEW k, Counted(req[r], n, k), n = 1, ~ByClaims(req[r]), NEW p,
           Choice(AccountOf(req[r].found[1]), req[r].found[1]) = None
    PROVE  Right(req[r], Refused("unmapped"), p)
<1> DEFINE d == req[r].found[1]
           a == Refused("unmapped")
<1>0. a.status = "unmapped"
    BY DEF Refused
<1>1. k \in Nat /\ Matching(req[r]) = 1 + k /\ SavedOf(req[r]) = {d} /\ (KeysOf(req[r]) = {} <=> k = 0)
    BY DEF Counted
<1>2. CASE k # 0
    BY <1>0, <1>1, <1>2, RightRefused
<1>3. CASE config.broken
    BY <1>0, <1>3, RightBroken
<1>4. CASE k = 0 /\ ~config.broken
    <2>1. a = ByAccount(AccountOf(d), d)
        BY Zenon DEF ByAccount
    <2>2. Saves(req[r], d, a, p)
        BY <2>1, Zenon DEF Saves
    <2>3. Matching(req[r]) = 1 /\ KeysOf(req[r]) = {}
        BY <1>1, <1>4
    <2> HIDE DEF d, a
    <2> QED BY <1>0, <1>1, <1>4, <2>2, <2>3, RightSaved DEF a
<1> QED BY <1>2, <1>3, <1>4

LEMMA IdentifyJudged ==
    ASSUME RoutingInv, ReadInv, NEW r \in Slots, Identify(r), Due(r), req'[r].pc = "answered"
    PROVE  Judged(req[r], req'[r].answer, req'[r].profiled)
<1> DEFINE d       == Last(req[r].found)
           account == IF d = "env" THEN None ELSE file[d].meta
           proxy   == Choice(account, d)
           p       == req'[r].profiled
           a       == Refused("unmapped")
<1>1. req[r].pc = "identify" /\ req[r].kind = "model" /\ req[r].found # <<>>
    BY RequestFields DEF Identify, At, Due, ReqInv
<1>2. \/ Goes(r, [req[r] EXCEPT !.account = account, !.proxy = proxy, !.pc = "decide"])
      \/ proxy = None /\ Answer(r, a)
    <2>1. \/ req[r].kind = "refresh"
          \/ Goes(r, [req[r] EXCEPT !.account = account, !.proxy = proxy, !.pc = "decide"])
          \/ proxy = None /\ Answer(r, a)
        BY Zenon DEF Identify
    <2> HIDE DEF account, proxy, a
    <2> QED BY <1>1, <2>1
<1> HIDE DEF proxy, a
<1>3. CASE Goes(r, [req[r] EXCEPT !.account = account, !.proxy = proxy, !.pc = "decide"])
    <2>1. PICK q : q = WithChoice(req[r], account, proxy, "decide")
        OBVIOUS
    <2>2. req' = [req EXCEPT ![r] = q] /\ q.pc = "decide"
        <3>1. q.pc = "decide"
            BY <2>1, RequestFields, ChoiceRecord
        <3>2. req' = [req EXCEPT ![r] = q]
            BY <1>3, <2>1, Zenon DEF WithChoice, Goes
        <3> QED BY <3>1, <3>2
    <2> QED BY <2>2 DEF RoutingInv, TypeOK
<1>4. CASE proxy = None /\ Answer(r, a)
    <2>1. /\ Claude /\ ~Codex /\ Lists(req[r].found, SavedOf(req[r])) /\ ~ByClaims(req[r])
          /\ Len(req[r].found) = 1
        BY <1>1, ClaudeKnows
    <2>2. PICK n : n = Len(req[r].found)
        OBVIOUS
    <2>3. PICK k : k = Cardinality(KeysOf(req[r]))
        OBVIOUS
    <2>4. Counted(req[r], n, k) /\ n = 1
        BY <2>1, <2>2, <2>3, MatchingCount
    <2>5. d = req[r].found[1]
        BY <2>1, FoundLength
    <2>6. account = AccountOf(d)
        BY <2>1 DEF AccountOf
    <2>7. Choice(AccountOf(req[r].found[1]), req[r].found[1]) = None
        BY <1>4, <2>5, <2>6, Zenon DEF proxy
    <2>8. Right(req[r], a, p)
        <3> HIDE DEF p
        <3> QED BY <2>1, <2>4, <2>7, UnmappedRight DEF a
    <2>9. Close(req[r], a, a)
        BY DEF Close
    <2> QED BY <1>4, <2>1, <2>8, <2>9, JudgedPlainly
<1> QED BY <1>2, <1>3, <1>4

\* A Claude key has no account.
LEMMA ClaudeKeys ==
    ASSUME RoutingInv, Claude, NEW c, NEW shell, NEW x \in KeysFound(c, shell)
    PROVE  x.account = None
BY ConfigsAssumption DEF RoutingInv, Keys, KeysFound, Claude

LEMMA ClaudeChoiceJudged ==
    ASSUME RoutingInv, ReadInv, NEW r \in Slots, ClaudeDecide(r), Due(r), req'[r].pc = "answered", ~config.broken
    PROVE  Judged(req[r], req'[r].answer, req'[r].profiled)
<1> DEFINE c     == req[r].cred
           d     == req[r].found[1]
           p     == req'[r].profiled
           saved == req[r].found # <<>>
           probe == Else(config.probe, config.fallback)
           asks  == Goes(r, [req[r] EXCEPT !.proxy = probe, !.pc = "cached"])
           keys  == KeysFound(c, ~saved)
           matches == Cardinality(keys) + (IF saved THEN 1 ELSE 0)
           fallback == Routed(config.keyFallback, None)
           own == Routed(req[r].proxy, req[r].account)
           answer(a) == \E m, base : Answer(r, Finish(r, a, m, base))
           refuses == Answer(r, Refused("unmapped")) \/ (~saved /\ Answer(r, NoRoute(r)))
<1>1. req[r].pc = "decide" /\ req[r].kind = "model"
    BY DEF ClaudeDecide, At, Due
<1>2. ~asks
    <2>1. ASSUME asks PROVE FALSE
        <3>1. PICK q : q = WithChoice(req[r], req[r].account, probe, "cached")
            OBVIOUS
        <3>2. q.pc = "cached"
            BY <3>1, RequestFields, ChoiceRecord
        <3>3. Goes(r, q)
            <4> HIDE DEF probe
            <4>1. [req[r] EXCEPT !.proxy = probe, !.pc = "cached"] = q
                BY <3>1, RequestFields, SameAccount, Zenon
            <4> QED BY <2>1, <4>1, Zenon
        <3> QED BY <3>2, <3>3 DEF Goes, RoutingInv, TypeOK
    <2> QED BY <2>1, Zenon
<1>3. \/ matches > 1 /\ Answer(r, Refused("ambiguous"))
      \/ matches = 1 /\ saved /\ req[r].proxy # None /\ answer(own)
      \/ matches = 1 /\ \E x \in keys : answer(Routed(x.proxy, None))
      \/ matches = 1 /\ saved /\ req[r].proxy = None /\ refuses
      \/ matches = 0 /\ req[r].bearer /\ refuses
      \/ matches = 0 /\ ~req[r].bearer /\ (Answer(r, NoRoute(r)) \/ answer(fallback))
    <2> DEFINE profile ==
            IF ~Admits(r) THEN Answer(r, NoRoute(r))
            ELSE IF probe = None THEN Answer(r, Refused("unmapped"))
            ELSE asks
    <2>1. profile => refuses
        BY <1>2, Zenon DEF Admits
    <2>2. \/ matches > 1 /\ Answer(r, Refused("ambiguous"))
          \/ matches = 1 /\ saved /\ req[r].proxy # None /\ answer(own)
          \/ matches = 1 /\ \E x \in keys : answer(Routed(x.proxy, None))
          \/ matches = 1 /\ saved /\ req[r].proxy = None /\ profile
          \/ matches = 0 /\ req[r].bearer /\ profile
          \/ matches = 0 /\ ~req[r].bearer /\ (Answer(r, NoRoute(r)) \/ answer(fallback))
        BY ZenonT(60) DEF ClaudeDecide
    <2> HIDE DEF profile, refuses, answer, matches, saved, own, fallback
    <2> QED BY <2>1, <2>2
<1> HIDE DEF asks, probe
<1>4. /\ Claude /\ ~Codex /\ Knows(req[r]) /\ Concludes(req[r])
      /\ Lists(req[r].found, SavedOf(req[r])) /\ ~ByClaims(req[r])
      /\ saved => Len(req[r].found) = 1
    BY <1>1, ClaudeKnows
<1>5. PICK n : n = Len(req[r].found)
    OBVIOUS
<1>6. PICK k : k = Cardinality(KeysOf(req[r]))
    OBVIOUS
<1>7. Counted(req[r], n, k)
    BY <1>4, <1>5, <1>6, MatchingCount
<1>8. (n = 0 \/ n = 1) /\ (saved <=> n = 1) /\ k \in Nat /\ Matching(req[r]) = n + k
    BY <1>4, <1>5, <1>7 DEF Counted
<1>9. keys = KeysOf(req[r])
    <2>1. SavedOf(req[r]) = {} <=> ~saved
        BY <1>7 DEF Counted
    <2> QED BY <1>4, <2>1 DEF KeysOf, KeysFound
<1> HIDE DEF keys
<1>10. matches = Matching(req[r]) /\ Matching(req[r]) \in Nat
    <2>1. CASE saved
        <3>1. matches = k + 1
            BY <1>6, <1>9, <2>1, Zenon
        <3> HIDE DEF matches, saved
        <3> QED BY <1>8, <2>1, <3>1
    <2>2. CASE ~saved
        <3>1. matches = k + 0
            BY <1>6, <1>9, <2>2, Zenon
        <3> HIDE DEF matches, saved
        <3> QED BY <1>8, <2>2, <3>1
    <2> QED BY <2>1, <2>2
<1>11. ASSUME NEW a, answer(a), Right(req[r], a, p)
       PROVE  Judged(req[r], req'[r].answer, req'[r].profiled)
    <2>1. PICK m, base : Answer(r, Finish(r, a, m, base))
        BY <1>11
    <2>2. Close(req[r], a, Finish(r, a, m, base))
        BY <1>1, FinishCloses
    <2> QED BY <1>4, <1>11, <2>1, <2>2, JudgedPlainly
<1>12. ASSUME NEW a, Answer(r, a), Right(req[r], a, p)
       PROVE  Judged(req[r], req'[r].answer, req'[r].profiled)
    <2>1. Close(req[r], a, a)
        BY DEF Close
    <2> QED BY <1>4, <1>12, <2>1, JudgedPlainly
<1> HIDE DEF answer
<1>13. CASE matches > 1 /\ Answer(r, Refused("ambiguous"))
    <2>1. Right(req[r], Refused("ambiguous"), p)
        BY <1>10, <1>13, RightRefused DEF Refused
    <2> QED BY <1>12, <1>13, <2>1
<1>14. CASE matches = 1 /\ saved /\ req[r].proxy # None /\ answer(own)
    <2>1. Matching(req[r]) = 1 /\ n = 1 /\ k = 0
        BY <1>8, <1>10, <1>14
    <2>2. SavedOf(req[r]) = {d} /\ KeysOf(req[r]) = {}
        BY <1>7, <2>1 DEF Counted
    <2>3. req[r].account = AccountOf(d) /\ req[r].proxy = Choice(req[r].account, d)
        BY <1>1, <1>4, <1>14 DEF Concludes
    <2>4. own = ByAccount(AccountOf(d), d)
        BY <1>14, <2>3, Zenon DEF ByAccount
    <2>5. Saves(req[r], d, own, p)
        BY <2>4, Zenon DEF Saves
    <2>6. own.status # "ambiguous"
        BY DEF Routed
    <2>7. Right(req[r], own, p)
        <3> HIDE DEF own, d
        <3> QED BY <1>4, <2>1, <2>2, <2>5, <2>6, RightSaved
    <2> QED BY <1>11, <1>14, <2>7
<1>15. ASSUME NEW x \in keys, matches = 1, answer(Routed(x.proxy, None))
       PROVE  Judged(req[r], req'[r].answer, req'[r].profiled)
    <2>1. k # 0 /\ x \in KeysOf(req[r])
        BY <1>7, <1>9 DEF Counted
    <2>2. n = 0 /\ k = 1 /\ Matching(req[r]) = 1
        BY <1>8, <1>10, <1>15, <2>1
    <2>3. SavedOf(req[r]) = {} /\ KeysOf(req[r]) = {x}
        BY <1>7, <2>1, <2>2 DEF Counted
    <2>4. x.account = None
        BY <1>4, ClaudeKeys DEF keys
    <2>5. Right(req[r], Routed(x.proxy, x.account), p)
        BY <1>4, <2>2, <2>3, RightKey
    <2> QED BY <1>11, <1>15, <2>4, <2>5
<1>16. PICK status \in {"unavailable", "refused"} : NoRoute(r) = Refused(status)
    BY NoRouteIsRefusal
<1>17. /\ NoRoute(r).status \in {"unavailable", "refused"} /\ Refused("unmapped").status = "unmapped"
       /\ fallback.status = "routed"
    BY <1>16 DEF Refused, Routed
<1>18. CASE matches = 1 /\ saved /\ req[r].proxy = None /\ refuses
    <2>1. n = 1 /\ Answer(r, Refused("unmapped"))
        BY <1>8, <1>18
    <2>2. req[r].account = AccountOf(d) /\ None = Choice(req[r].account, d)
        BY <1>1, <1>4, <1>18 DEF Concludes
    <2>3. Right(req[r], Refused("unmapped"), p)
        <3> HIDE DEF p
        <3> QED BY <1>4, <1>7, <2>1, <2>2, UnmappedRight
    <2> QED BY <1>12, <2>1, <2>3
<1>19. CASE matches = 0 /\ req[r].bearer /\ refuses
    <2>1. Right(req[r], Refused("unmapped"), p) /\ Right(req[r], NoRoute(r), p)
        BY <1>10, <1>17, <1>19, RightNone
    <2> QED BY <1>12, <1>19, <2>1
<1>20. CASE matches = 0 /\ ~req[r].bearer /\ (Answer(r, NoRoute(r)) \/ answer(fallback))
    <2>1. Right(req[r], NoRoute(r), p)
        BY <1>10, <1>17, <1>20, RightNone
    <2>2. Right(req[r], fallback, p)
        BY <1>10, <1>17, <1>20, RightNone
    <2> QED BY <1>11, <1>12, <1>20, <2>1, <2>2
<1> QED BY <1>3, <1>13, <1>14, <1>15, <1>18, <1>19, <1>20

LEMMA ClaudeDecideJudged ==
    ASSUME RoutingInv, ReadInv, NEW r \in Slots, ClaudeDecide(r), Due(r), req'[r].pc = "answered"
    PROVE  Judged(req[r], req'[r].answer, req'[r].profiled)
<1> DEFINE a == Refused("unavailable")
<1>1. CASE ~config.broken
    BY <1>1, ClaudeChoiceJudged
<1>2. CASE config.broken
    <2>1. Answer(r, a)
        BY <1>2, Zenon DEF ClaudeDecide
    <2>2. a.status = "unavailable"
        BY DEF Refused
    <2>3. req[r].pc # "scan"
        BY DEF ClaudeDecide, At
    <2>4. Lists(req[r].found, SavedOf(req[r]))
        BY <2>3, ClaudeKnows
    <2> HIDE DEF a
    <2>5. Right(req[r], a, req'[r].profiled) /\ Close(req[r], a, a)
        BY <1>2, <2>2, RightBroken DEF Close
    <2> QED BY <2>1, <2>4, <2>5, JudgedPlainly
<1> QED BY <1>1, <1>2

\* A request whose profile is asked for.
LEMMA ProfileCounted ==
    ASSUME RoutingInv, ReadInv, NEW r \in Slots, Due(r), req[r].pc \in {"cached", "profile"}
    PROVE  /\ Claude /\ req[r].bearer /\ ~ByClaims(req[r]) /\ Lists(req[r].found, SavedOf(req[r]))
           /\ ~config.broken /\ KeysOf(req[r]) = {}
           /\ \/ Matching(req[r]) = 0
              \/ /\ Matching(req[r]) = 1 /\ SavedOf(req[r]) = {req[r].found[1]}
                 /\ AccountOf(req[r].found[1]) = None /\ Choice(None, req[r].found[1]) = None
<1>1. /\ Claude /\ Concludes(req[r]) /\ Lists(req[r].found, SavedOf(req[r])) /\ ~ByClaims(req[r])
      /\ req[r].found # <<>> => Len(req[r].found) = 1
    BY ClaudeKnows
<1>2. /\ req[r].bearer /\ ~config.broken /\ KeysFound(req[r].cred, req[r].found = <<>>) = {}
      /\ req[r].found # <<>> => AccountOf(req[r].found[1]) = None /\ Choice(None, req[r].found[1]) = None
    BY <1>1 DEF Concludes
<1>3. PICK n : n = Len(req[r].found)
    OBVIOUS
<1>4. PICK k : k = Cardinality(KeysOf(req[r]))
    OBVIOUS
<1>5. Counted(req[r], n, k)
    BY <1>1, <1>3, <1>4, MatchingCount
<1>6. KeysOf(req[r]) = {}
    <2>1. SavedOf(req[r]) = {} <=> req[r].found = <<>>
        BY <1>5 DEF Counted
    <2> QED BY <1>1, <1>2, <2>1 DEF KeysOf, KeysFound
<1>7. k = 0 /\ (n = 0 \/ n = 1) /\ Matching(req[r]) = n /\ (req[r].found # <<>> <=> n = 1)
    BY <1>1, <1>2, <1>3, <1>5, <1>6 DEF Counted
<1>8. n = 1 => SavedOf(req[r]) = {req[r].found[1]}
    BY <1>5 DEF Counted
<1> QED BY <1>1, <1>2, <1>6, <1>7, <1>8

LEMMA ProfiledJudged ==
    ASSUME RoutingInv, ReadInv, NEW r \in Slots, Due(r), req[r].pc \in {"cached", "profile"},
           Profiled(r, Owner[req[r].cred])
    PROVE  Judged(req[r], req'[r].answer, req'[r].profiled)
<1> DEFINE a == ByAccount(Owner[req[r].cred], None)
           d == req[r].found[1]
<1>1. req' = [req EXCEPT ![r] = WithAnswer(req[r], a, TRUE, epoch)]
    BY Zenon DEF Profiled, WithAnswer
<1>2. PICK p : p = TRUE
    OBVIOUS
<1>3. req'[r].answer = a /\ req'[r].profiled = p
    <2> HIDE DEF a
    <2>1. PICK x : x = WithAnswer(req[r], a, p, epoch)
        OBVIOUS
    <2>2. req' = [req EXCEPT ![r] = x]
        BY <1>1, <1>2, <2>1
    <2>3. req'[r] = x
        BY <2>2 DEF RoutingInv, TypeOK
    <2>4. x.answer = a /\ x.profiled = p
        BY <2>1, RequestFields DEF Requests, WithAnswer
    <2> QED BY <2>3, <2>4, Zenon
<1>4. a.status # "ambiguous"
    BY ByAccountStatus
<1>5. Right(req[r], a, p)
    <2>1. CASE Matching(req[r]) = 0
        <3>1. Claude /\ req[r].bearer /\ ~config.broken
            BY ProfileCounted
        <3> HIDE DEF a
        <3>2. Right(req[r], a, p)
            BY <1>4, <2>1, <3>1, RightNone DEF a
        <3> QED BY <3>2
    <2>2. CASE Matching(req[r]) = 1
        <3>1. /\ Claude /\ SavedOf(req[r]) = {d} /\ KeysOf(req[r]) = {} /\ ~ByClaims(req[r]) /\ ~config.broken
              /\ AccountOf(d) = None /\ Choice(None, d) = None
            BY <2>2, ProfileCounted
        <3>2. Saves(req[r], d, a, p)
            BY <1>2, <3>1, Zenon DEF Saves
        <3> HIDE DEF a, d
        <3> QED BY <1>4, <2>2, <3>1, <3>2, RightSaved
    <2> QED BY <2>1, <2>2, ProfileCounted
<1>6. Close(req[r], a, a) /\ Lists(req[r].found, SavedOf(req[r]))
    BY ProfileCounted, Zenon DEF Close
<1> HIDE DEF a
<1> QED BY <1>3, <1>5, <1>6 DEF Judged

LEMMA ProfileFailsJudged ==
    ASSUME RoutingInv, ReadInv, NEW r \in Slots, Due(r), ProfileFails(r)
    PROVE  Judged(req[r], req'[r].answer, req'[r].profiled)
<1> DEFINE a == Refused("failed")
           d == req[r].found[1]
           p == req'[r].profiled
<1>1. req[r].pc = "profile" /\ Answer(r, a)
    BY DEF ProfileFails, At
<1>2. a.status = "failed"
    BY DEF Refused
<1>3. Right(req[r], a, p)
    <2> HIDE DEF a, p
    <2>1. CASE Matching(req[r]) = 0
        BY <1>1, <1>2, <2>1, ProfileCounted, RightNone
    <2>2. CASE Matching(req[r]) = 1
        <3>1. /\ Claude /\ SavedOf(req[r]) = {d} /\ KeysOf(req[r]) = {} /\ ~ByClaims(req[r]) /\ ~config.broken
              /\ AccountOf(d) = None /\ Choice(None, d) = None
            BY <1>1, <2>2, ProfileCounted
        <3>2. Saves(req[r], d, a, p)
            BY <1>2, <3>1 DEF Saves
        <3> HIDE DEF d
        <3> QED BY <1>2, <2>2, <3>1, <3>2, RightSaved
    <2> QED BY <1>1, <2>1, <2>2, ProfileCounted
<1>4. Close(req[r], a, a) /\ Lists(req[r].found, SavedOf(req[r]))
    BY <1>1, ProfileCounted DEF Close
<1> HIDE DEF a
<1> QED BY <1>1, <1>3, <1>4, JudgedPlainly

\* Who answers a request.
Decides(r) == CodexDecide(r) \/ ClaudeScanned(r) \/ Identify(r) \/ ClaudeDecide(r)

Looks(r) == CacheHit(r) \/ ProfileKnown(r) \/ ProfileFails(r)

Refreshes(r) == CodexRefresh(r) \/ RefreshUnmatched(r) \/ ClaudeRefresh(r)

LEMMA WhoAnswers ==
    ASSUME RoutingInv, NEW r \in Slots, Request(r), UnderWay(req[r]), req'[r].pc = "answered"
    PROVE  Decides(r) \/ Looks(r) \/ Refreshes(r)
<1>0. req[r].pc \notin {"idle", "answered"} /\ req[r] \in Requests
    BY RequestFields DEF UnderWay
<1>1. ASSUME NEW q, Goes(r, q), q.pc # "answered" PROVE FALSE
    <2>1. req'[r] = q
        BY <1>1 DEF Goes, RoutingInv, TypeOK
    <2> QED BY <1>1, <2>1
<1>2. \A kind, c, bearer, claimed : ~Begin(r, kind, c, bearer, claimed)
    BY <1>0 DEF Begin
<1>3. \A target, c, bearer : ~BeginExplicit(r, target, c, bearer)
    BY <1>0 DEF BeginExplicit
<1>4. ~ReadSource(r)
    <2> SUFFICES ASSUME ReadSource(r) PROVE FALSE
        OBVIOUS
    <2>1. PICK pc : pc = IF Claude /\ req[r].kind = "refresh" /\ file[Places[req[r].next]].token = req[r].cred
                         THEN "identify" ELSE req[r].pc
        OBVIOUS
    <2>3. PICK n, f, v : Goes(r, [req[r] EXCEPT !.next = n, !.found = f, !.unavailable = v, !.pc = pc])
        BY <2>1, Zenon DEF ReadSource
    <2>4. pc # "answered"
        BY <1>0, <2>1
    <2>2. [req[r] EXCEPT !.next = n, !.found = f, !.unavailable = v, !.pc = pc].pc = pc
        BY <1>0 DEF Requests
    <2> QED BY <1>1, <2>2, <2>3, <2>4
<1>5. ~ReadHome(r)
    <2> SUFFICES ASSUME ReadHome(r) PROVE FALSE
        OBVIOUS
    <2>1. req[r].pc = "scan"
        BY DEF ReadHome, Scanning, At
    <2>2. \/ \E n, v : Goes(r, [req[r] EXCEPT !.next = n, !.value = v])
          \/ \E n, u : Goes(r, [req[r] EXCEPT !.next = n, !.unavailable = u])
        BY Zenon DEF ReadHome
    <2>3. \A n, v : [req[r] EXCEPT !.next = n, !.value = v].pc = "scan" /\ [req[r] EXCEPT !.next = n, !.unavailable = v].pc = "scan"
        BY <1>0, <2>1 DEF Requests
    <2> QED BY <1>1, <2>2, <2>3, Zenon
<1>6. ~ReadVariable(r)
    <2> SUFFICES ASSUME ReadVariable(r) PROVE FALSE
        OBVIOUS
    <2>1. req[r].pc = "scan"
        BY DEF ReadVariable, At
    <2>2. \E n, f, u : Goes(r, [req[r] EXCEPT !.next = n, !.found = f, !.unavailable = u])
        BY Zenon DEF ReadVariable
    <2>3. \A n, f, u : [req[r] EXCEPT !.next = n, !.found = f, !.unavailable = u].pc = "scan"
        BY <1>0, <2>1 DEF Requests
    <2> QED BY <1>1, <2>2, <2>3, Zenon
<1>7. ~CacheMiss(r)
    <2> SUFFICES ASSUME CacheMiss(r) PROVE FALSE
        OBVIOUS
    <2>1. Goes(r, [req[r] EXCEPT !.pc = "profile"])
        BY DEF CacheMiss
    <2>2. [req[r] EXCEPT !.pc = "profile"].pc = "profile"
        BY <1>0 DEF Requests
    <2> QED BY <1>1, <2>1, <2>2
<1> QED BY <1>2, <1>3, <1>4, <1>5, <1>6, <1>7, Zenon DEF Request, Decides, Looks, Refreshes

LEMMA AnswersSo ==
    ASSUME RoutingInv, NEW r \in Slots, Decides(r) \/ Looks(r) \/ Refreshes(r), req'[r].pc = "answered",
           UnderWay(req[r])
    PROVE  \E a, p : req' = [req EXCEPT ![r] = WithAnswer(req[r], a, p, epoch)]
<1>0. req[r] \in Requests
    BY RequestFields
<1>1. ASSUME NEW q, Goes(r, q), q.pc # "answered" PROVE FALSE
    <2>1. req'[r] = q
        BY <1>1 DEF Goes, RoutingInv, TypeOK
    <2> QED BY <1>1, <2>1
<1>2. ASSUME NEW a, Answer(r, a)
      PROVE  \E b, p : req' = [req EXCEPT ![r] = WithAnswer(req[r], b, p, epoch)]
    <2>1. [req[r] EXCEPT !.pc = "answered", !.answer = a, !.until = epoch] = WithAnswer(req[r], a, req[r].profiled, epoch)
        BY <1>0, SameProfiled
    <2> QED BY <1>2, <2>1, Zenon DEF Answer, Answered
<1>3. ASSUME NEW b, Profiled(r, b)
      PROVE  \E a, p : req' = [req EXCEPT ![r] = WithAnswer(req[r], a, p, epoch)]
    <2>1. req' = [req EXCEPT ![r] = WithAnswer(req[r], ByAccount(b, None), TRUE, epoch)]
        BY <1>3, Zenon DEF Profiled, WithAnswer
    <2> QED BY <2>1
<1>4. CASE Refreshes(r)
    <2>1. \E a : Answer(r, a)
        BY <1>4, Zenon DEF Refreshes, CodexRefresh, RefreshUnmatched, ClaudeRefresh
    <2> QED BY <1>2, <2>1
<1>5. CASE Looks(r)
    <2>1. (\E a : Answer(r, a)) \/ (\E b : Profiled(r, b))
        BY <1>5, Zenon DEF Looks, CacheHit, ProfileKnown, ProfileFails
    <2> QED BY <1>2, <1>3, <2>1
<1>6. CASE Decides(r)
    <2>1. ASSUME NEW pc, pc # "answered", Goes(r, [req[r] EXCEPT !.pc = pc]) PROVE FALSE
        <3>1. [req[r] EXCEPT !.pc = pc].pc = pc
            BY <1>0 DEF Requests
        <3> QED BY <1>1, <2>1, <3>1
    <2>2. ASSUME NEW b, NEW pc, pc # "answered", Goes(r, [req[r] EXCEPT !.account = b, !.pc = pc]) PROVE FALSE
        <3>1. [req[r] EXCEPT !.account = b, !.pc = pc].pc = pc
            BY <1>0 DEF Requests
        <3> QED BY <1>1, <2>2, <3>1
    <2>3. ASSUME NEW p, NEW pc, pc # "answered", Goes(r, [req[r] EXCEPT !.proxy = p, !.pc = pc]) PROVE FALSE
        <3>1. [req[r] EXCEPT !.proxy = p, !.pc = pc].pc = pc
            BY <1>0 DEF Requests
        <3> QED BY <1>1, <2>3, <3>1
    <2>4. ASSUME NEW b, NEW p, NEW pc, pc # "answered", Goes(r, [req[r] EXCEPT !.account = b, !.proxy = p, !.pc = pc]) PROVE FALSE
        <3>1. [req[r] EXCEPT !.account = b, !.proxy = p, !.pc = pc].pc = pc
            BY <1>0 DEF Requests
        <3> QED BY <1>1, <2>4, <3>1
    <2>5. CASE CodexDecide(r)
        <3>1. \E a : Answer(r, a)
            BY <2>5, Zenon DEF CodexDecide
        <3> QED BY <1>2, <3>1
    <2>6. CASE ClaudeScanned(r)
        <3>1. PICK pc : pc = IF req[r].found = <<>> THEN "decide" ELSE "identify"
            OBVIOUS
        <3>2. (\E a : Answer(r, a)) \/ Goes(r, [req[r] EXCEPT !.pc = pc])
            BY <2>6, <3>1, Zenon DEF ClaudeScanned
        <3>3. pc # "answered"
            BY <3>1
        <3> QED BY <1>2, <2>1, <3>2, <3>3
    <2>7. CASE Identify(r)
        <3>1. \/ \E a : Answer(r, a)
              \/ \E b : Goes(r, [req[r] EXCEPT !.account = b, !.pc = "scan"])
              \/ \E b, p : Goes(r, [req[r] EXCEPT !.account = b, !.proxy = p, !.pc = "decide"])
            BY <2>7, Zenon DEF Identify
        <3> QED BY <1>2, <2>2, <2>4, <3>1
    <2>8. CASE ClaudeDecide(r)
        <3>1. (\E a : Answer(r, a)) \/ (\E p : Goes(r, [req[r] EXCEPT !.proxy = p, !.pc = "cached"]))
            BY <2>8, Zenon DEF ClaudeDecide
        <3> QED BY <1>2, <2>3, <3>1
    <2> QED BY <1>6, <2>5, <2>6, <2>7, <2>8 DEF Decides
<1> QED BY <1>4, <1>5, <1>6

LEMMA AnswerJudged ==
    ASSUME RoutingInv, ReadInv, NEW r \in Slots, Request(r), Due(r), req'[r].pc = "answered"
    PROVE  Judged(req[r], req'[r].answer, req'[r].profiled)
<1>1. Decides(r) \/ Looks(r) \/ Refreshes(r)
    BY WhoAnswers DEF Due
<1>8. ~Refreshes(r)
    BY DEF Due, Refreshes, CodexRefresh, RefreshUnmatched, ClaudeRefresh
<1>9. CASE CodexDecide(r)
    BY <1>9, CodexDecideJudged
<1>10. CASE ClaudeScanned(r)
    BY <1>10, ClaudeScannedJudged
<1>11. CASE Identify(r)
    BY <1>11, IdentifyJudged
<1>12. CASE ClaudeDecide(r)
    BY <1>12, ClaudeDecideJudged
<1>13. CASE CacheHit(r)
    <2>1. PICK i \in Cached(req[r].cred) : Profiled(r, cache[i].account)
        BY <1>13, Zenon DEF CacheHit
    <2>2. cache[i].account = Owner[req[r].cred]
        BY <2>1 DEF Cached, RoutingInv, CacheInv
    <2> QED BY <1>13, <2>1, <2>2, ProfiledJudged DEF CacheHit, At
<1>14. CASE ProfileKnown(r)
    BY <1>14, ProfiledJudged DEF ProfileKnown, At
<1>15. CASE ProfileFails(r)
    BY <1>15, ProfileFailsJudged
<1> QED BY <1>1, <1>8, <1>9, <1>10, <1>11, <1>12, <1>13, <1>14, <1>15, Zenon DEF Decides, Looks

-----------------------------------------------------------------------------
(* The action properties. *)

\* A request's step concerns nothing else but the cache.
Steps(s) == (\E q : req' = [req EXCEPT ![s] = q]) /\ config' = config /\ file' = file /\ epoch' = epoch

\* A request's step goes on or answers; two of them use the cache.
LEMMA RequestKinds ==
    ASSUME RoutingInv, NEW s \in Slots, Request(s)
    PROVE  (\E q : Goes(s, q)) \/ (\E a : Answer(s, a)) \/ CacheHit(s) \/ ProfileKnown(s)
<1>1. CASE \E kind \in Kinds, c \in Creds, bearer \in BOOLEAN, claimed \in Opt(Accounts) :
                Begin(s, kind, c, bearer, claimed)
    BY <1>1, Zenon DEF Begin
<1>2. CASE \E target \in config.asked, c \in Creds, bearer \in BOOLEAN : BeginExplicit(s, target, c, bearer)
    BY <1>2, SentCases, ZenonT(60)
<1>3. CASE ReadSource(s) \/ ReadHome(s) \/ ReadVariable(s) \/ CacheMiss(s)
    BY <1>3, Zenon DEF ReadSource, ReadHome, ReadVariable, CacheMiss
<1>4. CASE CodexRefresh(s) \/ RefreshUnmatched(s) \/ ClaudeRefresh(s) \/ ProfileFails(s)
    BY <1>4, Zenon DEF CodexRefresh, RefreshUnmatched, ClaudeRefresh, ProfileFails
<1>5. CASE CodexDecide(s)
    BY <1>5, Zenon DEF CodexDecide
<1>6. CASE ClaudeScanned(s) \/ Identify(s) \/ ClaudeDecide(s)
    BY <1>6, Zenon DEF ClaudeScanned, Identify, ClaudeDecide
<1> QED BY <1>1, <1>2, <1>3, <1>4, <1>5, <1>6, Zenon DEF Request

LEMMA OneRequest ==
    ASSUME RoutingInv, NEW s \in Slots, Request(s)
    PROVE  Steps(s)
<1>1. ASSUME NEW q, Goes(s, q) PROVE Steps(s)
    BY <1>1 DEF Goes, Steps
<1>2. ASSUME NEW a, Answer(s, a) PROVE Steps(s)
    BY <1>2, Zenon DEF Answer, Answered, Steps
<1>3. ASSUME NEW b, Profiled(s, b), config' = config, file' = file, epoch' = epoch PROVE Steps(s)
    BY <1>3, Zenon DEF Profiled, Steps
<1>4. CASE CacheHit(s) \/ ProfileKnown(s)
    <2>1. \E b : Profiled(s, b)
        BY <1>4, Zenon DEF CacheHit, ProfileKnown
    <2>2. config' = config /\ file' = file /\ epoch' = epoch
        BY <1>4 DEF CacheHit, ProfileKnown
    <2> QED BY <1>3, <2>1, <2>2
<1> QED BY <1>1, <1>2, <1>4, RequestKinds

\* A request is answered by a step of its own: on its way, or as it begins.
LEMMA AnswersItself ==
    ASSUME RoutingInv, [Next]_vars, NEW r \in Slots, req[r].pc # "answered", req'[r].pc = "answered"
    PROVE  Request(r)
<1>1. ~CommandLine
    <2> SUFFICES ASSUME CommandLine PROVE FALSE
        OBVIOUS
    <2>1. req' = req
        BY Zenon DEF CommandLine, ClaudeLoginEnds, Logout, CodexLogin, ClaudeLogin, EditsEnv, Changed
    <2> QED BY <2>1
<1>2. ~UNCHANGED vars
    BY DEF vars
<1>3. ASSUME NEW s \in Slots, s # r, Request(s) PROVE FALSE
    <2>1. PICK q : req' = [req EXCEPT ![s] = q]
        BY <1>3, OneRequest DEF Steps
    <2> QED BY <1>3, <2>1 DEF RoutingInv, TypeOK
<1> QED BY <1>1, <1>2, <1>3, Zenon DEF Next

LEMMA AnswersAtOnce ==
    ASSUME RoutingInv, NEW r \in Slots, Request(r), ~UnderWay(req[r]), req'[r].pc = "answered"
    PROVE  /\ req'[r].target # None /\ req'[r].kind = "model" /\ req'[r].found = <<>>
           /\ req'[r].since = epoch /\ req'[r].until = epoch
<1>1. req[r].pc \in {"idle", "answered"} /\ req \in [Slots -> Requests]
    BY DEF UnderWay, RoutingInv, TypeOK
<1>2. \/ \E kind \in Kinds, c \in Creds, bearer \in BOOLEAN, claimed \in Opt(Accounts) :
            Begin(r, kind, c, bearer, claimed)
      \/ \E target \in config.asked, c \in Creds, bearer \in BOOLEAN : BeginExplicit(r, target, c, bearer)
    <2>1. ~ReadSource(r) /\ ~ReadHome(r) /\ ~ReadVariable(r) /\ ~CodexRefresh(r) /\ ~RefreshUnmatched(r) /\ ~ClaudeRefresh(r)
        BY <1>1 DEF ReadSource, ReadHome, ReadVariable, CodexRefresh, RefreshUnmatched, ClaudeRefresh, Scanning, Scanned, At
    <2>2. ~CodexDecide(r) /\ ~ClaudeScanned(r) /\ ~Identify(r)
        BY <1>1 DEF CodexDecide, ClaudeScanned, Identify, Scanned, At
    <2>3. ~ClaudeDecide(r) /\ ~CacheHit(r) /\ ~CacheMiss(r) /\ ~ProfileKnown(r) /\ ~ProfileFails(r)
        BY <1>1 DEF ClaudeDecide, CacheHit, CacheMiss, ProfileKnown, ProfileFails, At
    <2> QED BY <2>1, <2>2, <2>3, Zenon DEF Request
<1>3. ASSUME NEW q, Goes(r, q) PROVE req'[r] = q
    BY <1>1, <1>3 DEF Goes
<1>4. ASSUME NEW kind \in Kinds, NEW c \in Creds, NEW bearer \in BOOLEAN, NEW claimed \in Opt(Accounts),
             Begin(r, kind, c, bearer, claimed)
      PROVE  FALSE
    <2>1. PICK pc : pc = (IF bearer THEN "scan" ELSE "decide")
        OBVIOUS
    <2>2. PICK q : q = Begun(kind, c, bearer, claimed, None, pc, Refused("none"), epoch, 0)
        OBVIOUS
    <2>3. Goes(r, q)
        BY ZenonT(60), <1>4, <2>1, <2>2, BegunRecord DEF Begin
    <2>4. q.pc = pc
        BY <2>2 DEF Begun
    <2> QED BY <1>3, <2>1, <2>3, <2>4
<1>5. ASSUME NEW target \in config.asked, NEW c \in Creds, NEW bearer \in BOOLEAN, BeginExplicit(r, target, c, bearer)
      PROVE  /\ req'[r].target # None /\ req'[r].kind = "model" /\ req'[r].found = <<>>
             /\ req'[r].since = epoch /\ req'[r].until = epoch
    <2>1. PICK pc : pc = (IF bearer THEN "scan" ELSE "decide")
        OBVIOUS
    <2>2. \/ \E a : Goes(r, Begun("model", c, bearer, None, target, "answered", a, epoch, epoch))
          \/ Goes(r, Begun("model", c, bearer, None, target, pc, Refused("none"), epoch, 0))
        BY <1>5, <2>1, SentCases, Zenon
    <2>3. ASSUME Goes(r, Begun("model", c, bearer, None, target, pc, Refused("none"), epoch, 0)) PROVE FALSE
        <3>1. PICK q : q = Begun("model", c, bearer, None, target, pc, Refused("none"), epoch, 0)
            OBVIOUS
        <3>2. q.pc = pc
            BY <3>1 DEF Begun
        <3> QED BY <1>3, <2>1, <2>3, <3>1, <3>2
    <2>4. PICK a : Goes(r, Begun("model", c, bearer, None, target, "answered", a, epoch, epoch))
        BY <2>2, <2>3, Zenon
    <2>5. PICK q : q = Begun("model", c, bearer, None, target, "answered", a, epoch, epoch)
        OBVIOUS
    <2>6. q.target = target /\ q.kind = "model" /\ q.found = <<>> /\ q.since = epoch /\ q.until = epoch
        BY <2>5 DEF Begun
    <2>7. req'[r] = q
        BY <1>3, <2>4, <2>5
    <2>8. target # None
        BY DEF RoutingInv, TypeOK, ConfigType
    <2> QED BY <2>6, <2>7, <2>8
<1> QED BY <1>2, <1>4, <1>5

\* Whose answer comes now.
LEMMA AnsweredNow ==
    ASSUME RoutingInv, ReadInv, [Next]_vars, NEW r \in Slots, req[r].pc # "answered", req'[r].pc = "answered",
           req[r].since = epoch, req[r].kind = "model", req[r].claimed = None, req'[r].target = None
    PROVE  \E p : Right(req[r], req'[r].answer, p)
<1>1. Request(r)
    BY AnswersItself
<1>2. UnderWay(req[r]) /\ Due(r)
    BY <1>1, AnswersAtOnce DEF Due
<1>3. PICK a, p : req' = [req EXCEPT ![r] = WithAnswer(req[r], a, p, epoch)]
    BY <1>1, <1>2, WhoAnswers, AnswersSo
<1>4. req'[r].target = req[r].target
    <2>1. PICK x : x = WithAnswer(req[r], a, p, epoch)
        OBVIOUS
    <2>2. req' = [req EXCEPT ![r] = x]
        BY <1>3, <2>1
    <2> QED BY <2>1, <2>2, AnswerFields
<1>5. Judged(req[r], req'[r].answer, req'[r].profiled)
    BY <1>1, <1>2, AnswerJudged
<1> QED BY <1>4, <1>5, Zenon DEF Judged, Close

\* The files of whatever directories hold still while a request is on its way: it
\* is answered as they say.
THEOREM SnapshotsAnswered == Spec => SnapshotAnswer
<1>1. RoutingInv /\ ReadInv /\ [Next]_vars =>
        [\A r \in Slots :
            /\ ~At(r, "answered") /\ At(r, "answered")' /\ req[r].since = epoch
            /\ req[r].kind = "model" /\ req[r].claimed = None /\ req'[r].target = None
            => RightAnswer(r, req'[r].answer)]_vars
    <2> SUFFICES ASSUME RoutingInv, ReadInv, [Next]_vars, NEW r \in Slots, ~At(r, "answered"), At(r, "answered")',
                        req[r].since = epoch, req[r].kind = "model", req[r].claimed = None, req'[r].target = None
                 PROVE  RightAnswer(r, req'[r].answer)
        OBVIOUS
    <2>1. req[r].pc # "answered" /\ req'[r].pc = "answered"
        BY DEF At
    <2>2. PICK p : Right(req[r], req'[r].answer, p)
        BY <2>1, AnsweredNow
    <2> QED BY <2>2, Zenon DEF Right, RightAnswer, Saves, SavedOf, Matching, ByClaims, KeysOf
<1> QED BY <1>1, ReadInvariant, PTL DEF Spec, SnapshotAnswer

\* What the check accepts fits one route at most.
LEMMA CheckedRight ==
    ASSUME RoutingInv, NEW r \in Slots, config.fileOnly, CheckCredentials, NEW a, NEW p, Right(req[r], a, p)
    PROVE  /\ a.status # "ambiguous"
           /\ req[r].bearer /\ (\E s \in SourceSet : Token(s) = req[r].cred) => a.status = "routed"
           /\ \A k \in Keys(req[r].cred) : a = Routed(k.proxy, k.account)
<1> DEFINE c == req[r].cred
           S == SavedOf(req[r])
           K == KeysOf(req[r])
<1>1. \A x, y \in K : x = y
    BY DEF CheckCredentials, KeysOf, KeysFound, Keys
<1>2. \A x, y \in S : x = y
    BY DEF CheckCredentials, SavedOf
<1>3. S # {} => K = {}
    BY DEF CheckCredentials, SavedOf, KeysOf, KeysFound, Keys
<1>4. ~ByClaims(req[r])
    BY DEF ByClaims
<1>5. ASSUME NEW T, \A x, y \in T : x = y
      PROVE  Cardinality(T) \in {0, 1} /\ (T = {} => Cardinality(T) = 0) /\ (T # {} => Cardinality(T) = 1)
    <2>1. T = {} \/ \E x : T = {x}
        BY <1>5
    <2> QED BY <2>1, FS_EmptySet, FS_Singleton
<1>6. PICK n : n = Cardinality(S)
    OBVIOUS
<1>7. PICK k : k = Cardinality(K)
    OBVIOUS
<1>8. /\ n \in {0, 1} /\ (S = {} => n = 0) /\ (S # {} => n = 1)
      /\ k \in {0, 1} /\ (K = {} => k = 0) /\ (K # {} => k = 1)
    <2> HIDE DEF S, K
    <2> QED BY <1>1, <1>2, <1>5, <1>6, <1>7
<1>9. Matching(req[r]) = n + k + 0
    BY <1>4, <1>6, <1>7, Zenon DEF Matching
<1>10. Matching(req[r]) \in {0, 1} /\ (S # {} \/ K # {} => Matching(req[r]) = 1)
    <2> HIDE DEF S, K
    <2> QED BY <1>3, <1>8, <1>9
<1>11. a.status # "ambiguous"
    BY <1>10 DEF Right
<1>12. ~config.broken
    BY DEF CheckCredentials
<1>13. \A x \in Keys(c) : a = Routed(x.proxy, x.account)
    <2>1. TAKE x \in Keys(c)
    <2>2. S = {}
        BY DEF CheckCredentials, SavedOf, Keys
    <2>3. x \in K
        BY <1>4, <2>2 DEF KeysOf, KeysFound
    <2> QED BY <1>10, <1>12, <2>3 DEF Right
<1>14. ASSUME NEW s \in SourceSet, req[r].bearer, Token(s) = c
       PROVE  a.status = "routed"
    <2>1. s \in S
        BY <1>14 DEF SavedOf
    <2>2. Saves(req[r], s, a, p)
        BY <1>10, <1>12, <2>1 DEF Right
    <2>3. Choice(AccountOf(s), s) # None
        BY DEF CheckCredentials
    <2>4. a = ByAccount(AccountOf(s), s)
        BY <2>2, <2>3, Zenon DEF Saves
    <2> QED BY <2>3, <2>4, Zenon DEF ByAccount, Routed
<1> QED BY <1>11, <1>13, <1>14

\* Whatever the check accepts is routed: a login or a key of a file-only
\* configuration is never ambiguous, and has its route.
THEOREM CheckedAreRouted == Spec => CheckedRoutes
<1>1. RoutingInv /\ ReadInv /\ [Next]_vars =>
        [\A r \in Slots :
            /\ ~At(r, "answered") /\ At(r, "answered")' /\ req[r].since = epoch
            /\ req[r].kind = "model" /\ req[r].claimed = None /\ req'[r].target = None
            /\ config.fileOnly /\ CheckCredentials
            =>  LET a == req'[r].answer
                IN  /\ a.status # "ambiguous"
                    /\ req[r].bearer /\ (\E s \in SourceSet : Token(s) = req[r].cred) => a.status = "routed"
                    /\ \A k \in Keys(req[r].cred) : a = Routed(k.proxy, k.account)]_vars
    <2> SUFFICES ASSUME RoutingInv, ReadInv, [Next]_vars, NEW r \in Slots, ~At(r, "answered"), At(r, "answered")',
                        req[r].since = epoch, req[r].kind = "model", req[r].claimed = None, req'[r].target = None,
                        config.fileOnly, CheckCredentials
                 PROVE  /\ req'[r].answer.status # "ambiguous"
                        /\ req[r].bearer /\ (\E s \in SourceSet : Token(s) = req[r].cred) => req'[r].answer.status = "routed"
                        /\ \A k \in Keys(req[r].cred) : req'[r].answer = Routed(k.proxy, k.account)
        OBVIOUS
    <2>1. req[r].pc # "answered" /\ req'[r].pc = "answered"
        BY DEF At
    <2>2. PICK p : Right(req[r], req'[r].answer, p)
        BY <2>1, AnsweredNow
    <2> QED BY <2>2, CheckedRight
<1> QED BY <1>1, ReadInvariant, PTL DEF Spec, CheckedRoutes

-----------------------------------------------------------------------------
(* A login and its refresh. *)

\* What the files say of an answer that none of their changes has disturbed.
Settled(q) ==
    /\ q.kind = "model" /\ q.answer.status = "routed" /\ q.found # <<>> /\ ~FromEnv /\ ~q.profiled =>
        \E d : Fits(q.cred) = {d} /\ q.answer = ByAccount(AccountOf(d), d)
    /\ q.kind = "refresh" /\ ~FromEnv =>
        \A d : Fits(q.cred) = {d} => q.answer = ByAccount(AccountOf(d), d)

\* It stays true until they change, which is as long as another answer can be
\* compared with it.
RouteInv ==
    /\ SameRoute
    /\ \A r \in Slots : \A q :
        q = req[r] /\ q.pc = "answered" /\ q.since = epoch /\ q.until = epoch => Settled(q)

LEMMA SameSettled ==
    ASSUME config' = config, file' = file, NEW q
    PROVE  Settled(q)' <=> Settled(q)
<1>1. FromEnv' = FromEnv /\ Fits(q.cred)' = Fits(q.cred)
    BY SameFiles
<1>2. \A d : ByAccount(AccountOf(d), d)' = ByAccount(AccountOf(d), d)
    <2> SUFFICES ASSUME NEW d PROVE ByAccount(AccountOf(d), d)' = ByAccount(AccountOf(d), d)
        OBVIOUS
    <2>1. AccountOf(d)' = AccountOf(d)
        BY SameFiles
    <2>2. Choice(AccountOf(d), d)' = Choice(AccountOf(d), d)
        BY <2>1 DEF Choice, Else
    <2> QED BY <2>1, <2>2 DEF ByAccount
<1> QED BY <1>1, <1>2, Zenon DEF Settled

\* Two of them agree.
LEMMA SettledAgree ==
    ASSUME NEW p, NEW q, Settled(p), Settled(q), p.kind = "model", q.kind = "refresh", p.cred = q.cred,
           p.answer.status = "routed", p.found # <<>>, ~FromEnv, ~p.profiled
    PROVE  p.answer = q.answer
BY DEF Settled

LEMMA RouteStep ==
    ASSUME RoutingInv, RouteInv, NEW r \in Slots, NEW q, req' = [req EXCEPT ![r] = q],
           config' = config, file' = file, epoch' = epoch,
           q.pc = "answered" => q.until = epoch /\ (q.since = epoch => Settled(q))
    PROVE  RouteInv'
<1>1. req'[r] = q /\ \A s \in Slots \ {r} : req'[s] = req[s]
    BY DEF RoutingInv, TypeOK
<1>2. ASSUME NEW s \in Slots, NEW p, p = req'[s], p.pc = "answered", p.since = epoch, p.until = epoch
      PROVE  Settled(p)
    <2>1. CASE s = r
        BY <1>1, <1>2, <2>1
    <2>2. CASE s # r
        BY <1>1, <1>2, <2>2 DEF RouteInv
    <2> QED BY <2>1, <2>2
<1>3. ASSUME NEW m \in Slots, NEW s \in Slots,
             req'[m].pc = "answered", req'[m].answer.status = "routed", req'[s].pc = "answered",
             req'[m].since = req'[m].until, req'[s].since = req'[s].until, req'[m].since = req'[s].since,
             req'[m].kind = "model", req'[s].kind = "refresh", req'[m].cred = req'[s].cred,
             req'[m].found # <<>>, ~FromEnv, ~req'[m].profiled
      PROVE  req'[m].answer = req'[s].answer
    <2>1. CASE m # r /\ s # r
        <3>1. req'[m] = req[m] /\ req'[s] = req[s]
            BY <1>1, <2>1
        <3> QED BY <1>3, <3>1 DEF RouteInv, SameRoute, Done, At, Undisturbed
    <2>2. CASE m = r \/ s = r
        <3>1. req'[m].until = epoch \/ req'[s].until = epoch
            BY <1>1, <1>3, <2>2
        <3>2. PICK x : x = req'[m]
            OBVIOUS
        <3>3. PICK y : y = req'[s]
            OBVIOUS
        <3>4. x.since = epoch /\ x.until = epoch /\ y.since = epoch /\ y.until = epoch
            BY <1>3, <3>1, <3>2, <3>3
        <3>5. Settled(x) /\ Settled(y)
            BY <1>2, <1>3, <3>2, <3>3, <3>4
        <3> QED BY <1>3, <3>2, <3>3, <3>5, SettledAgree
    <2> QED BY <2>1, <2>2
<1>4. SameRoute'
    <2>1. FromEnv' = FromEnv
        BY SameFiles
    <2> QED BY <1>3, <2>1 DEF SameRoute, Done, At, Undisturbed
<1>5. ASSUME NEW s \in Slots, NEW p, p = req'[s], p.pc = "answered", p.since = epoch, p.until = epoch
      PROVE  Settled(p)'
    BY <1>2, <1>5, SameSettled
<1> QED BY <1>4, <1>5 DEF RouteInv

LEMMA RouteFiles ==
    ASSUME RoutingInv, ReadInv, RouteInv, Changed
    PROVE  RouteInv'
<1>1. epoch \in Nat /\ epoch' = epoch + 1 /\ config' = config /\ req' = req
    BY DEF Changed, RoutingInv, TypeOK
<1>2. ASSUME NEW r \in Slots PROVE req'[r].since # epoch'
    <2>1. req[r].since \in Nat
        BY DEF RoutingInv, TypeOK, Requests
    <2>2. req[r].since <= epoch
        BY DEF ReadInv
    <2> QED BY <1>1, <2>1, <2>2
<1>3. FromEnv' = FromEnv
    BY <1>1 DEF FromEnv
<1>4. SameRoute'
    BY <1>1, <1>3 DEF RouteInv, SameRoute, Done, At, Undisturbed
<1> QED BY <1>2, <1>4 DEF RouteInv

\* The answer to a request on its way.
LEMMA RefreshSettled ==
    ASSUME RoutingInv, ReadInv, NEW r \in Slots, Refreshes(r), UnderWay(req[r]), req[r].since = epoch, ~FromEnv,
           NEW d, Fits(req[r].cred) = {d}
    PROVE  Answer(r, ByAccount(AccountOf(d), d))
<1> DEFINE c == req[r].cred
<1>1. Knows(req[r]) /\ Concludes(req[r])
    BY OnItsWay
<1>2. d \in Range(Places) /\ Token(d) = c /\ file[d].token = c /\ d # "env"
    <2>1. d \in SourceSet /\ Token(d) = c
        BY DEF Fits
    <2>2. SourceSet = Range(Places)
        BY DEF SourceSet
    <2>3. d # "env"
        BY <2>1, <2>2, PlacesOnce
    <2> QED BY <2>1, <2>2, <2>3 DEF Token
<1>3. CASE CodexRefresh(r)
    <2> DEFINE e == Places[req[r].next]
    <2>1. /\ Codex /\ req[r].next <= Len(Places) /\ file[e].token = c
          /\ Answer(r, ByAccount(Owner[c], e))
        BY <1>3 DEF CodexRefresh, Scanning
    <2>2. req[r].next \in DOMAIN Places
        BY <2>1, RequestFields, PlacesOnce
    <2>3. e \in SourceSet /\ Token(e) = c
        BY <2>1, <2>2, PlacesOnce DEF SourceSet, Token
    <2>4. e = d
        BY <2>3 DEF Fits
    <2>5. AccountOf(d) = Owner[c]
        <3>1. Codex /\ ~Claude
            BY <2>1 DEF Codex, Claude
        <3> QED BY <1>2, <3>1, Zenon DEF AccountOf
    <2> QED BY <2>1, <2>4, <2>5
<1>4. ASSUME Scanned(r), req[r].kind = "refresh"
      PROVE  Lists(req[r].found, {d})
    <2>1. req[r].pc = "scan" /\ req[r].next > Len(Places) /\ req[r].next \in Nat \ {0}
        BY <1>4, PlacesOnce, RequestFields DEF Scanned, At
    <2>2. Lists(req[r].found, Before(req[r].next, c))
        BY <1>1, <2>1 DEF Knows
    <2>3. Before(req[r].next, c) = Fits(c)
        BY <2>1, AllBefore
    <2> QED BY <2>2, <2>3
<1>5. CASE RefreshUnmatched(r)
    <2>1. Lists(<<>>, {d})
        BY <1>4, <1>5 DEF RefreshUnmatched
    <2> QED BY <2>1 DEF Lists
<1>6. CASE ClaudeRefresh(r)
    <2>1. Claude /\ ~Codex /\ Scanned(r) /\ req[r].kind = "refresh" /\ req[r].found # <<>>
        BY <1>6 DEF ClaudeRefresh, Claude, Codex
    <2>2. Len(req[r].found) = 1 /\ req[r].found[1] = d /\ Last(req[r].found) = d
        <3>1. req[r].found \in Seq(Dirs \cup {"env"}) /\ Lists(req[r].found, {d})
            BY <1>4, <2>1, RequestFields
        <3>2. Cardinality({d}) = Len(req[r].found)
            BY <3>1, ListedCount
        <3>3. Cardinality({d}) = 1
            BY FS_Singleton
        <3>4. {d} = {req[r].found[1]}
            BY <3>1, <3>2, <3>3, ListedOne
        <3> QED BY <3>2, <3>3, <3>4, FoundLength
    <2>3. req[r].account = file[d].meta
        BY <1>1, <2>1, <2>2 DEF Concludes, Scanned, At
    <2>4. AccountOf(d) = file[d].meta
        BY <1>2, <2>1 DEF AccountOf
    <2>5. Answer(r, ByAccount(req[r].account, req[r].found[1]))
        <3>1. ~(Len(req[r].found) > 1)
            BY <2>2
        <3> QED BY <1>6, <3>1, Zenon DEF ClaudeRefresh
    <2> QED BY <2>2, <2>3, <2>4, <2>5
<1> QED BY <1>3, <1>5, <1>6 DEF Refreshes

LEMMA JudgedSettled ==
    ASSUME RoutingInv, NEW r \in Slots, req[r].kind = "model", NEW a, NEW q, Judged(req[r], a, q.profiled), ~q.profiled,
           a.status = "routed", req[r].found # <<>>, ~FromEnv
    PROVE  \E d : Fits(req[r].cred) = {d} /\ a = ByAccount(AccountOf(d), d)
<1>1. Lists(req[r].found, SavedOf(req[r])) /\ Right(req[r], a, q.profiled)
    BY DEF Judged, Close
<1>2. PICK n : n = Len(req[r].found)
    OBVIOUS
<1>3. PICK k : k = Cardinality(KeysOf(req[r]))
    OBVIOUS
<1>4. Counted(req[r], n, k)
    BY <1>1, <1>2, <1>3, MatchingCount
<1>5. n # 0 /\ n \in Nat /\ k \in Nat /\ ~ByClaims(req[r]) /\ Matching(req[r]) = n + k
    BY <1>4 DEF Counted
<1>6. ~config.broken
    BY <1>1 DEF Right
<1>7. ~(Matching(req[r]) > 1)
    BY <1>1, <1>6 DEF Right
<1>8. n = 1 /\ Matching(req[r]) = 1
    BY <1>5, <1>7
<1> DEFINE d == req[r].found[1]
<1>9. SavedOf(req[r]) = {d}
    BY <1>4, <1>8 DEF Counted
<1> HIDE DEF d
<1>10. Saves(req[r], d, a, q.profiled)
    BY <1>1, <1>6, <1>8, <1>9 DEF Right
<1>11. a = ByAccount(AccountOf(d), d)
    BY <1>10 DEF Saves
<1>12. Fits(req[r].cred) = {d}
    BY <1>9, SavedAreFits
<1> QED BY <1>11, <1>12

LEMMA AnswersSettle ==
    ASSUME RoutingInv, ReadInv, RouteInv, NEW r \in Slots, Request(r), UnderWay(req[r]), NEW q,
           req' = [req EXCEPT ![r] = q], config' = config, file' = file, epoch' = epoch, q.pc = "answered"
    PROVE  RouteInv'
<1>1. q = req'[r] /\ req'[r].pc = "answered"
    BY DEF RoutingInv, TypeOK
<1>2. Decides(r) \/ Looks(r) \/ Refreshes(r)
    BY <1>1, WhoAnswers
<1>3. PICK a, p : req' = [req EXCEPT ![r] = WithAnswer(req[r], a, p, epoch)]
    BY <1>1, <1>2, AnswersSo
<1>4. /\ q.answer = a /\ q.profiled = p
      /\ q.kind = req[r].kind /\ q.cred = req[r].cred /\ q.found = req[r].found
      /\ q.since = req[r].since /\ q.until = epoch
    <2>1. PICK x : x = WithAnswer(req[r], a, p, epoch)
        OBVIOUS
    <2>2. q = x
        BY <1>1, <1>3, <2>1 DEF RoutingInv, TypeOK
    <2> QED BY <2>1, <2>2, RequestFields, AnswerRecord
<1>5. ASSUME q.since = epoch PROVE Settled(q)
    <2>1. ASSUME q.kind = "model", a.status = "routed", q.found # <<>>, ~FromEnv, ~q.profiled
          PROVE  \E d : Fits(q.cred) = {d} /\ a = ByAccount(AccountOf(d), d)
        <3>1. Judged(req[r], a, q.profiled)
            <4>1. Due(r)
                BY <1>4, <1>5, <2>1 DEF Due
            <4>2. Judged(req[r], req'[r].answer, req'[r].profiled)
                BY <1>1, <4>1, AnswerJudged
            <4>3. Judged(req[r], q.answer, q.profiled)
                BY <1>1, <4>2, Zenon
            <4>4. q.answer = a /\ q.profiled = p
                BY <1>4
            <4>5. Judged(req[r], a, q.profiled)
                BY <4>3, <4>4, Zenon
            <4> QED BY <4>5
        <3> QED BY <1>4, <2>1, <3>1, JudgedSettled
    <2>2. ASSUME q.kind = "refresh", ~FromEnv, NEW d, Fits(q.cred) = {d}
          PROVE  a = ByAccount(AccountOf(d), d)
        <3>1. Refreshes(r)
            <4>1. ~Looks(r) /\ ~ClaudeDecide(r)
                <5>1. req[r].pc \notin {"decide", "cached", "profile"}
                    BY <1>4, <1>5, <2>2, OnItsWay DEF Knows
                <5> QED BY <5>1 DEF Looks, CacheHit, ProfileKnown, ProfileFails, ClaudeDecide, At
            <4>2. ~CodexDecide(r) /\ ~ClaudeScanned(r)
                BY <1>4, <2>2 DEF CodexDecide, ClaudeScanned
            <4>3. ~Identify(r)
                <5> SUFFICES ASSUME Identify(r) PROVE FALSE
                    OBVIOUS
                <5>1. \E b : Goes(r, [req[r] EXCEPT !.account = b, !.pc = "scan"])
                    <6>1. req[r].kind = "refresh"
                        BY <1>4, <2>2
                    <6> QED BY <6>1, Zenon DEF Identify
                <5>2. \A b : [req[r] EXCEPT !.account = b, !.pc = "scan"].pc = "scan"
                    BY RequestFields DEF Requests
                <5>3. PICK b : Goes(r, [req[r] EXCEPT !.account = b, !.pc = "scan"])
                    BY <5>1
                <5>4. req'[r] = [req[r] EXCEPT !.account = b, !.pc = "scan"]
                    BY <5>3 DEF Goes, RoutingInv, TypeOK
                <5> QED BY <1>1, <5>2, <5>4
            <4> QED BY <1>2, <4>1, <4>2, <4>3 DEF Decides
        <3>2. Answer(r, ByAccount(AccountOf(d), d))
            BY <1>4, <1>5, <2>2, <3>1, RefreshSettled
        <3>3. PICK x : x = ByAccount(AccountOf(d), d)
            OBVIOUS
        <3>4. Answer(r, x)
            BY <3>2, <3>3
        <3>5. req'[r].answer = x
            BY <3>4, PlainFields
        <3> QED BY <1>1, <1>4, <3>3, <3>5
    <2> QED BY <1>4, <2>1, <2>2 DEF Settled
<1> QED BY <1>4, <1>5, RouteStep

LEMMA RouteInvNext ==
    ASSUME RoutingInv, ReadInv, RouteInv, [Next]_vars
    PROVE  RouteInv'
<1>1. CASE CommandLine
    <2>1. Changed
        BY <1>1, Zenon DEF CommandLine, ClaudeLoginEnds, Logout, CodexLogin, ClaudeLogin, EditsEnv
    <2> QED BY <2>1, RouteFiles
<1>2. ASSUME NEW r \in Slots, Request(r) PROVE RouteInv'
    <2>1. PICK q : req' = [req EXCEPT ![r] = q]
        BY <1>2, OneRequest DEF Steps
    <2>2. config' = config /\ file' = file /\ epoch' = epoch
        BY <1>2, OneRequest DEF Steps
    <2>3. CASE q.pc # "answered"
        BY <2>1, <2>2, <2>3, RouteStep
    <2>4. CASE q.pc = "answered" /\ UnderWay(req[r])
        BY <1>2, <2>1, <2>2, <2>4, AnswersSettle
    <2>5. CASE q.pc = "answered" /\ ~UnderWay(req[r])
        <3>1. q = req'[r]
            BY <2>1 DEF RoutingInv, TypeOK
        <3>2. q.kind = "model" /\ q.found = <<>> /\ q.until = epoch
            BY <1>2, <2>5, <3>1, AnswersAtOnce
        <3>3. Settled(q)
            BY <3>2 DEF Settled
        <3> QED BY <2>1, <2>2, <3>2, <3>3, RouteStep
    <2> QED BY <2>3, <2>4, <2>5
<1>3. CASE UNCHANGED vars
    <2>1. config' = config /\ file' = file /\ epoch' = epoch /\ req' = req
        BY <1>3 DEF vars
    <2>2. ASSUME NEW s \in Slots, NEW p, p = req'[s], p.pc = "answered", p.since = epoch, p.until = epoch
          PROVE  Settled(p)'
        <3>1. Settled(p)
            BY <2>1, <2>2 DEF RouteInv
        <3> QED BY <2>1, <3>1, SameSettled
    <2>3. SameRoute'
        <3>1. FromEnv' = FromEnv
            BY <2>1 DEF FromEnv
        <3> QED BY <2>1, <3>1 DEF RouteInv, SameRoute, Done, At, Undisturbed
    <2> QED BY <2>1, <2>2, <2>3 DEF RouteInv
<1> QED BY <1>1, <1>2, <1>3 DEF Next

LEMMA RouteInvInit ==
    ASSUME Init
    PROVE  RouteInv
<1>1. \A r \in Slots : req[r].pc = "idle"
    <2>1. Idle.pc = "idle"
        BY Zenon DEF Idle
    <2> QED BY <2>1 DEF Init
<1> QED BY <1>1 DEF RouteInv, SameRoute, Done, At

\* However requests, refreshes and the command line clients interleave: while the
\* files are the same, a saved login and its refresh are answered alike.
THEOREM SameRouteHeld == Spec => []SameRoute
<1>1. RouteInv => SameRoute
    BY DEF RouteInv
<1> QED BY <1>1, ReadInvariant, RouteInvInit, RouteInvNext, PTL DEF Spec

-----------------------------------------------------------------------------
(* What leaves the profile cache. *)

\* Each entry's token had an answer after those of the entries before it.
InOrder(entries, since) ==
    \A i, j \in DOMAIN entries : i < j => entries[j].token \in since[entries[i].token]

UsedInv == served \in [Logins -> SUBSET Logins] /\ InOrder(cache, served)

LEMMA RemovedOrder ==
    ASSUME NEW entries, CacheInv(entries), NEW since, InOrder(entries, since), NEW i \in DOMAIN entries
    PROVE  /\ InOrder(RemoveAt(entries, i), since)
           /\ \A k \in DOMAIN entries : k # i => \E j \in DOMAIN RemoveAt(entries, i) : RemoveAt(entries, i)[j] = entries[k]
<1> DEFINE S == [token : Logins, account : Accounts]
           R == RemoveAt(entries, i)
           at(j) == IF j < i THEN j ELSE j + 1
<1>1. entries \in Seq(S) /\ i \in 1 .. Len(entries) /\ Len(entries) \in Nat
    BY DEF CacheInv
<1>2. /\ R \in Seq(S) /\ Len(R) = Len(entries) - 1
      /\ \A j \in 1 .. Len(R) : R[j] = entries[at(j)]
    <2> HIDE DEF S, R
    <2>1. R = RemoveAt(entries, i)
        BY DEF R
    <2>2. /\ R \in Seq(S) /\ Len(R) = Len(entries) - 1
          /\ \A j \in 1 .. Len(R) : R[j] = entries[IF j < i THEN j ELSE j + 1]
        BY <1>1, <2>1, RemovedEntry, SMTT(60)
    <2> QED BY <2>2, Zenon DEF at
<1> HIDE DEF R
<1>3. DOMAIN R = 1 .. Len(R) /\ DOMAIN entries = 1 .. Len(entries)
    BY <1>1, <1>2
<1>4. \A j \in DOMAIN R : R[j] = entries[at(j)] /\ at(j) \in DOMAIN entries
    BY <1>1, <1>2, <1>3
<1>5. \A j, k \in DOMAIN R : j < k => at(j) < at(k)
    BY <1>1, <1>2, <1>3
<1>6. \A k \in DOMAIN entries : k # i => \E j \in DOMAIN R : at(j) = k
    <2> SUFFICES ASSUME NEW k \in DOMAIN entries, k # i PROVE \E j \in DOMAIN R : at(j) = k
        OBVIOUS
    <2>1. CASE k < i
        <3>1. k \in DOMAIN R /\ at(k) = k
            BY <1>1, <1>2, <1>3, <2>1
        <3> QED BY <3>1
    <2>2. CASE i < k
        <3>1. k - 1 \in DOMAIN R /\ at(k - 1) = k
            BY <1>1, <1>2, <1>3, <2>2
        <3> QED BY <3>1
    <2> QED BY <1>1, <1>3, <2>1, <2>2
<1> HIDE DEF at
<1>7. InOrder(R, since)
    BY <1>4, <1>5 DEF InOrder
<1>8. \A k \in DOMAIN entries : k # i => \E j \in DOMAIN R : R[j] = entries[k]
    BY <1>4, <1>6
<1> QED BY <1>7, <1>8 DEF R

LEMMA WithoutOrder ==
    ASSUME NEW entries, CacheInv(entries), NEW since, InOrder(entries, since), NEW t
    PROVE  /\ InOrder(Without(entries, t), since)
           /\ \A k \in DOMAIN entries : entries[k].token # t =>
                \E j \in DOMAIN Without(entries, t) : Without(entries, t)[j] = entries[k]
<1> DEFINE places == {i \in DOMAIN entries : entries[i].token = t}
           k == CHOOSE i \in places : TRUE
<1>1. Without(entries, t) = IF places = {} THEN entries ELSE RemoveAt(entries, k)
    BY Zenon DEF Without
<1>2. CASE places = {}
    BY <1>1, <1>2
<1>3. CASE places # {}
    <2>1. k \in places
        BY <1>3, Zenon
    <2> HIDE DEF k
    <2> QED BY <1>1, <1>3, <2>1, RemovedOrder
<1> QED BY <1>2, <1>3

\* A token that has an answer comes last.
LEMMA ServedOrder ==
    ASSUME NEW entries, CacheInv(entries), served \in [Logins -> SUBSET Logins], InOrder(entries, served),
           NEW t \in Logins, \A j \in DOMAIN entries : entries[j].token # t,
           Serve(t), NEW x, x.token = t, x \in [token : Logins, account : Accounts]
    PROVE  served' \in [Logins -> SUBSET Logins] /\ InOrder(Append(entries, x), served')
<1> DEFINE S == [token : Logins, account : Accounts]
           R == Append(entries, x)
<1>1. served' = [u \in Logins |-> IF u = t THEN {} ELSE served[u] \cup {t}]
    BY DEF Serve
<1>2. entries \in Seq(S) /\ Len(entries) \in Nat /\ DOMAIN entries = 1 .. Len(entries)
    BY DEF CacheInv
<1>3. /\ Len(R) = Len(entries) + 1 /\ DOMAIN R = 1 .. Len(R)
      /\ \A j \in 1 .. Len(entries) : R[j] = entries[j]
      /\ R[Len(R)] = x
    BY <1>2
<1>4. \A j \in DOMAIN entries : entries[j].token \in Logins
    <2>1. \A j \in DOMAIN entries : entries[j] \in S
        <3> HIDE DEF S
        <3> QED BY <1>2
    <2> QED BY <2>1
<1> HIDE DEF R, S
<1>5. ASSUME NEW i \in DOMAIN R, NEW j \in DOMAIN R, i < j
      PROVE  R[j].token \in served'[R[i].token]
    <2>1. i \in DOMAIN entries /\ R[i] = entries[i] /\ i \in Nat /\ j \in Nat
        BY <1>2, <1>3, <1>5
    <2>2. served'[entries[i].token] = served[entries[i].token] \cup {t}
        BY <1>1, <1>4, <2>1
    <2>3. CASE j \in DOMAIN entries
        <3>1. R[j] = entries[j]
            BY <1>2, <1>3, <2>3
        <3>2. entries[j].token \in served[entries[i].token]
            BY <1>5, <2>1, <2>3 DEF InOrder
        <3> QED BY <2>1, <2>2, <3>1, <3>2
    <2>4. CASE j \notin DOMAIN entries
        <3>1. R[j] = x
            BY <1>2, <1>3, <2>1, <2>4
        <3> QED BY <2>1, <2>2, <3>1
    <2> QED BY <2>3, <2>4
<1>6. served' \in [Logins -> SUBSET Logins]
    BY <1>1
<1> QED BY <1>5, <1>6 DEF InOrder, R

LEMMA TailOrder ==
    ASSUME NEW entries, CacheInv(entries), NEW since, InOrder(entries, since), Len(entries) > 0
    PROVE  /\ InOrder(Tail(entries), since) /\ Len(Tail(entries)) = Len(entries) - 1
           /\ \A k \in DOMAIN entries : k # 1 => \E j \in DOMAIN Tail(entries) : Tail(entries)[j] = entries[k]
<1> DEFINE S == [token : Logins, account : Accounts]
           R == Tail(entries)
<1>1. entries \in Seq(S) /\ Len(entries) \in Nat /\ DOMAIN entries = 1 .. Len(entries)
    BY DEF CacheInv
<1>2. /\ Len(R) = Len(entries) - 1 /\ DOMAIN R = 1 .. Len(R)
      /\ \A j \in DOMAIN R : R[j] = entries[j + 1] /\ j + 1 \in DOMAIN entries /\ j \in Nat
    BY <1>1
<1> HIDE DEF R
<1>3. InOrder(R, since)
    BY <1>2 DEF InOrder
<1>4. ASSUME NEW k \in DOMAIN entries, k # 1 PROVE \E j \in DOMAIN R : R[j] = entries[k]
    <2>1. k - 1 \in DOMAIN R /\ k - 1 + 1 = k
        BY <1>1, <1>2, <1>4
    <2>2. R[k - 1] = entries[k]
        BY <1>2, <2>1
    <2> QED BY <2>1, <2>2
<1> QED BY <1>2, <1>3, <1>4 DEF R

\* What stays in the cache when another entry is added.
LEMMA AppendedHas ==
    ASSUME NEW entries, CacheInv(entries), NEW x
    PROVE  /\ \A j \in DOMAIN entries : \E k \in DOMAIN Append(entries, x) : Append(entries, x)[k] = entries[j]
           /\ \E k \in DOMAIN Append(entries, x) : Append(entries, x)[k] = x
           /\ Len(Append(entries, x)) = Len(entries) + 1
<1> DEFINE R == Append(entries, x)
<1>1. entries \in Seq([token : Logins, account : Accounts]) /\ Len(entries) \in Nat /\ DOMAIN entries = 1 .. Len(entries)
    BY DEF CacheInv
<1>2. /\ Len(R) = Len(entries) + 1 /\ DOMAIN R = 1 .. Len(R)
      /\ \A j \in 1 .. Len(entries) : R[j] = entries[j]
      /\ R[Len(R)] = x
    BY <1>1
<1> HIDE DEF R
<1>3. \A j \in DOMAIN entries : j \in DOMAIN R
    BY <1>1, <1>2
<1>4. Len(R) \in DOMAIN R
    BY <1>1, <1>2
<1> QED BY <1>1, <1>2, <1>3, <1>4 DEF R

\* The cache when a token's answer is put at its end.
Used(t, from, x) ==
    /\ CacheInv(from) /\ InOrder(from, served) /\ (\A j \in DOMAIN from : from[j].token # t)
    /\ t \in Logins /\ x.token = t /\ x \in [token : Logins, account : Accounts]
    /\ Serve(t) /\ cache' = Append(from, x)

LEMMA UsedKeeps ==
    ASSUME UsedInv, NEW t, NEW from, NEW x, Used(t, from, x)
    PROVE  UsedInv'
<1>1. served' \in [Logins -> SUBSET Logins] /\ InOrder(Append(from, x), served')
    BY ServedOrder DEF Used, UsedInv
<1> QED BY <1>1 DEF Used, UsedInv, InOrder

\* Nothing leaves, or the first entry leaves a full cache.
Leaves ==
    \/ \A k \in DOMAIN cache : \E j \in DOMAIN cache' : cache'[j].token = cache[k].token
    \/ /\ Len(cache) = Capacity /\ Len(cache') = Capacity
       /\ \A k \in DOMAIN cache : k # 1 => \E j \in DOMAIN cache' : cache'[j].token = cache[k].token

LEMMA HitUses ==
    ASSUME RoutingInv, UsedInv, NEW r \in Slots, CacheHit(r)
    PROVE  UsedInv' /\ Leaves
<1> DEFINE t == req[r].cred
<1>1. PICK i \in Cached(t) : cache' = Append(Without(cache, t), cache[i])
    BY Zenon DEF CacheHit
<1>2. CacheInv(cache) /\ i \in DOMAIN cache /\ cache[i].token = t
    BY <1>1 DEF RoutingInv, Cached
<1>3. PICK x : x = cache[i]
    OBVIOUS
<1>4. x \in [token : Logins, account : Accounts]
    <2> DEFINE S == [token : Logins, account : Accounts]
    <2>1. cache \in Seq(S)
        BY <1>2 DEF CacheInv
    <2> HIDE DEF S
    <2>2. x \in S
        BY <1>2, <1>3, <2>1
    <2> QED BY <2>2 DEF S
<1>5. x.token = t /\ t \in Logins
    BY <1>2, <1>3, <1>4
<1>6. PICK from : from = Without(cache, t)
    OBVIOUS
<1> HIDE DEF t
<1>7. InOrder(cache, served) /\ CacheInv(from) /\ (\A j \in DOMAIN from : from[j].token # t)
    BY <1>2, <1>6, WithoutKeeps DEF UsedInv
<1>8. /\ InOrder(from, served)
      /\ \A k \in DOMAIN cache : cache[k].token # t => \E j \in DOMAIN from : from[j] = cache[k]
    BY <1>2, <1>6, <1>7, WithoutOrder
<1>9. cache' = Append(from, x)
    BY <1>1, <1>3, <1>6
<1>10. Used(t, from, x)
    <2>1. Serve(t)
        BY DEF CacheHit, t
    <2> QED BY <1>4, <1>5, <1>7, <1>8, <1>9, <2>1 DEF Used
<1>11. \A k \in DOMAIN cache : \E j \in DOMAIN cache' : cache'[j].token = cache[k].token
    <2>1. /\ \A j \in DOMAIN from : \E k \in DOMAIN cache' : cache'[k] = from[j]
          /\ \E k \in DOMAIN cache' : cache'[k] = x
        BY <1>7, <1>9, AppendedHas
    <2> QED BY <1>5, <1>8, <2>1
<1> QED BY <1>10, <1>11, UsedKeeps DEF Leaves

LEMMA KnownUses ==
    ASSUME RoutingInv, UsedInv, NEW r \in Slots, ProfileKnown(r)
    PROVE  UsedInv' /\ Leaves
<1> DEFINE t == req[r].cred
<1>1. PICK x : x = [token |-> t, account |-> Owner[t]]
    OBVIOUS
<1>2. t \in Logins /\ cache' = Append(Room(t), x) /\ Serve(t)
    BY <1>1 DEF ProfileKnown
<1>3. x \in [token : Logins, account : Accounts] /\ x.token = t
    BY <1>1, <1>2
<1>4. PICK from : from = Room(t)
    OBVIOUS
<1> HIDE DEF t
<1>5. CacheInv(from) /\ \A j \in DOMAIN from : from[j].token # t
    BY <1>4, RoomKeeps
<1>6. CacheInv(cache) /\ InOrder(cache, served) /\ Len(cache) \in Nat /\ Len(cache) <= Capacity
    BY DEF RoutingInv, UsedInv, CacheInv
<1>7. cache' = Append(from, x)
    BY <1>2, <1>4
<1>8. /\ \A j \in DOMAIN from : \E k \in DOMAIN cache' : cache'[k] = from[j]
      /\ \E k \in DOMAIN cache' : cache'[k] = x
      /\ Len(cache') = Len(from) + 1
    BY <1>5, <1>7, AppendedHas
<1>9. InOrder(from, served) /\ Leaves
    <2>1. CASE Len(cache) >= Capacity /\ Cached(t) = {}
        <3>1. from = Tail(cache)
            BY <1>4, <2>1, Zenon DEF Room
        <3>2. Len(cache) > 0 /\ Len(cache) = Capacity
            BY <1>6, <2>1
        <3>3. /\ InOrder(from, served) /\ Len(from) = Len(cache) - 1
              /\ \A k \in DOMAIN cache : k # 1 => \E j \in DOMAIN from : from[j] = cache[k]
            BY <1>6, <3>1, <3>2, TailOrder
        <3>4. Len(cache') = Capacity
            BY <1>8, <3>2, <3>3
        <3>5. \A k \in DOMAIN cache : k # 1 => \E j \in DOMAIN cache' : cache'[j].token = cache[k].token
            BY <1>8, <3>3
        <3> QED BY <3>2, <3>3, <3>4, <3>5 DEF Leaves
    <2>2. CASE ~(Len(cache) >= Capacity /\ Cached(t) = {})
        <3>1. from = Without(cache, t)
            BY <1>4, <2>2, Zenon DEF Room
        <3>2. /\ InOrder(from, served)
              /\ \A k \in DOMAIN cache : cache[k].token # t => \E j \in DOMAIN from : from[j] = cache[k]
            BY <1>6, <3>1, WithoutOrder
        <3>3. \A k \in DOMAIN cache : \E j \in DOMAIN cache' : cache'[j].token = cache[k].token
            BY <1>3, <1>8, <3>2
        <3> QED BY <3>2, <3>3 DEF Leaves
    <2> QED BY <2>1, <2>2
<1>10. Used(t, from, x)
    BY <1>2, <1>3, <1>5, <1>7, <1>9 DEF Used
<1> QED BY <1>9, <1>10, UsedKeeps

LEMMA OtherUses ==
    ASSUME RoutingInv, NEW r \in Slots, Request(r), ~CacheHit(r), ~ProfileKnown(r)
    PROVE  cache' = cache /\ served' = served
<1>1. ASSUME NEW q, Goes(r, q) PROVE cache' = cache /\ served' = served
    BY <1>1 DEF Goes
<1>2. ASSUME NEW a, Answer(r, a) PROVE cache' = cache /\ served' = served
    BY <1>2 DEF Answer
<1> QED BY <1>1, <1>2, RequestKinds

LEMMA UsesNext ==
    ASSUME RoutingInv, UsedInv, [Next]_vars
    PROVE  UsedInv' /\ Leaves
<1>1. ASSUME cache' = cache, served' = served PROVE UsedInv' /\ Leaves
    BY <1>1 DEF UsedInv, InOrder, Leaves
<1>2. CASE CommandLine
    <2>1. Changed
        BY <1>2, Zenon DEF CommandLine, ClaudeLoginEnds, Logout, CodexLogin, ClaudeLogin, EditsEnv
    <2> QED BY <1>1, <2>1 DEF Changed
<1>3. ASSUME NEW r \in Slots, Request(r) PROVE UsedInv' /\ Leaves
    BY <1>1, <1>3, HitUses, KnownUses, OtherUses
<1>4. CASE UNCHANGED vars
    BY <1>1, <1>4 DEF vars
<1> QED BY <1>2, <1>3, <1>4 DEF Next

\* The cache is in the order in which its tokens last had an answer.
THEOREM UsedInvariant == Spec => [](RoutingInv /\ UsedInv)
<1>1. Init => UsedInv
    <2> SUFFICES ASSUME Init PROVE UsedInv
        OBVIOUS
    <2>1. cache = <<>> /\ served = [t \in Logins |-> {}]
        BY DEF Init
    <2> QED BY <2>1 DEF UsedInv, InOrder
<1>2. RoutingInv /\ UsedInv /\ [Next]_vars => UsedInv'
    BY UsesNext
<1> QED BY <1>1, <1>2, RoutingInvariant, PTL DEF Spec

\* However many requests use the cache of profiles, and whatever its capacity, only
\* the token that has been unused for longest leaves it, and only for another.
THEOREM OldestLeaves == Spec => LeastRecentlyUsed
<1>1. RoutingInv /\ UsedInv /\ [Next]_vars =>
        [\A t \in Logins :
            Cached(t) # {} /\ Cached(t)' = {} =>
                /\ Len(cache) = Capacity /\ Len(cache') = Capacity
                /\ \A u \in Logins \ {t} : Cached(u) # {} => u \in served[t]]_vars
    <2> SUFFICES ASSUME RoutingInv, UsedInv, [Next]_vars, NEW t \in Logins, Cached(t) # {}, Cached(t)' = {}
                 PROVE  /\ Len(cache) = Capacity /\ Len(cache') = Capacity
                        /\ \A u \in Logins \ {t} : Cached(u) # {} => u \in served[t]
        OBVIOUS
    <2>1. PICK i \in DOMAIN cache : cache[i].token = t
        BY DEF Cached
    <2>2. ~\E j \in DOMAIN cache' : cache'[j].token = cache[i].token
        BY <2>1 DEF Cached
    <2>3. Leaves
        BY UsesNext
    <2>4. i = 1 /\ Len(cache) = Capacity /\ Len(cache') = Capacity
        BY <2>2, <2>3 DEF Leaves
    <2>5. ASSUME NEW u \in Logins \ {t}, Cached(u) # {} PROVE u \in served[t]
        <3>1. PICK j \in DOMAIN cache : cache[j].token = u
            BY <2>5 DEF Cached
        <3>2. j \in Nat /\ 1 < j
            <4>1. DOMAIN cache = 1 .. Len(cache) /\ j # 1
                BY <2>1, <2>4, <2>5, <3>1 DEF RoutingInv, CacheInv
            <4> QED BY <4>1
        <3> QED BY <2>1, <2>4, <3>1, <3>2 DEF UsedInv, InOrder
    <2> QED BY <2>4, <2>5
<1> QED BY <1>1, UsedInvariant, PTL DEF Spec, LeastRecentlyUsed
=============================================================================
