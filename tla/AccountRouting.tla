--------------------------- MODULE AccountRouting ---------------------------
(***************************************************************************)
(* How a request's credential selects its proxy: src/routing.rs and        *)
(* src/identity.rs for Codex, src/claude.rs and Server::claude_route for   *)
(* Claude.  The files of the saved logins are read one after the other,    *)
(* per request, while the command line clients log in, rotate tokens and   *)
(* log out.  A Codex file holds a token with the account it belongs to; a  *)
(* Claude token is opaque, and its account is in a file of its own, or     *)
(* known to the profile API, whose answers are cached.  Instead of such    *)
(* files, one environment variable can hold the token: Codex looks for it  *)
(* in the .env file of each directory first.                               *)
(*                                                                         *)
(* Abstracted: a login stands for its access token and its refresh token;  *)
(* an account for its id and names (the first one with a route counts);    *)
(* API keys do not change; what a .env file gives the variable is that     *)
(* file's one value.  A request that names its upstream (UrlRouting) is    *)
(* one of the kind "model"; the upstreams matter only for those.           *)
(***************************************************************************)
EXTENDS Naturals, FiniteSets, UrlRouting

CONSTANTS
    Slots,      \* requests that run at the same time
    Logins, ApiKeys,
    Accounts,
    Owner,      \* the account of each login
    Dirs,       \* credential directories
    Proxies,
    Configs,    \* the configurations to consider
    Capacity,   \* of the profile cache: 128 in the code
    MaxEpoch,   \* bound: changes of the files
    None

Creds == Logins \cup ApiKeys

ASSUME RoutingAssumption ==
    /\ Owner \in [Logins -> Accounts]
    /\ None \notin Creds \cup Accounts \cup Proxies \cup Dirs \cup Targets
    /\ "env" \notin Dirs /\ Creds # {}
    /\ Capacity \in Nat \ {0}
    /\ MaxEpoch \in Nat

VARIABLES
    config,     \* one of Configs, read once
    file,       \* each directory: the saved login, the account in its metadata,
                \* the login whose second file is still to be written, and what
                \* .env gives the account's variable
    epoch,      \* changes of the files so far
    req,        \* each slot's request
    cache,      \* tokens with the account the profile API gave, least recently used first
    served      \* history: for each token, the others that had a profile answer since it had one

vars == <<config, file, epoch, req, cache, served>>

----------------------------------------------------------------------------
Opt(S) == S \cup {None}

ConfigType ==
    [service : {"codex", "claude"}, fileOnly : BOOLEAN, dirs : Seq(Dirs),
     auth : {"none", "file", "env"},            \* the account source, if declared
     process : Opt(Logins), shell : Opt(Logins), \* its variable, here and in a login shell
     byAccount : [Accounts -> Opt(Proxies)], byDefault : Opt(Proxies),
     fallback : Opt(Proxies), probe : Opt(Proxies), keyFallback : Opt(Proxies), mcp : Proxies,
     keys : SUBSET [cred : Creds, name : {"key1", "key2"}, proxy : Proxies, account : Opt(Accounts),
                    base : Urls,            \* its provider's or settings file's upstream, or that of all keys
                    shell : BOOLEAN],       \* whether only a login shell has its variable
     keysUnavailable : BOOLEAN, broken : BOOLEAN, \* a variable that is not set, a settings file that is of no use
     urls : [Apps -> SUBSET [base : Urls, proxy : Proxies]], upstream : [{"account", "key"} -> Urls],
     asked : SUBSET Targets]        \* bound: the upstreams that clients name

\* A key with an account is a Codex provider's that uses a saved login
\* (requires_openai_auth).  Settings files are Claude's.
ASSUME ConfigsAssumption ==
    \A c \in Configs :
        /\ c \in ConfigType /\ IsFiniteSet(c.keys)
        /\ c.broken => c.service = "claude"
        /\ \A k \in c.keys :
             k.account # None => c.service = "codex" /\ k.cred \in Logins /\ k.account = Owner[k.cred]

Kinds == {"model", "usage", "docs", "refresh"}

Statuses == {"none", "routed", "ambiguous", "unavailable", "refused", "unmapped",
             "changed", "forbidden", "failed", "conflict", "undeclared"}

Answers == [status : Statuses, proxy : Opt(Proxies), account : Opt(Accounts)]

Routed(proxy, account) == [status |-> "routed", proxy |-> proxy, account |-> account]
Refused(status) == [status |-> status, proxy |-> None, account |-> None]

\* A request: what the client sent, the next source to read, the directories
\* whose login matched (or "env"), the value of the variable so far, the account
\* found for it, and the answer.
Requests ==
    [kind : Kinds, cred : Creds, bearer : BOOLEAN, claimed : Opt(Accounts),
     pc : {"idle", "scan", "identify", "decide", "cached", "profile", "answered"},
     next : Nat \ {0}, found : Seq(Dirs \cup {"env"}), value : Opt(Logins), unavailable : BOOLEAN,
     account : Opt(Accounts), proxy : Opt(Proxies), profiled : BOOLEAN, target : Opt(config.asked),
     since : Nat, until : Nat, answer : Answers]

Codex == config.service = "codex"
Claude == config.service = "claude"

Else(a, b) == IF a # None THEN a ELSE b

\* The routing table: by account, by the label of the source, the fallback.
Choice(account, source) ==
    Else(IF account = None THEN None ELSE config.byAccount[account],
         Else(IF source = None THEN None ELSE config.byDefault, config.fallback))

Maps(c) == (\E a \in Accounts : c.byAccount[a] # None) \/ c.byDefault # None

RoutesAccounts(c) == Maps(c) \/ c.fallback # None

AccountRouting == RoutesAccounts(config)

\* What a configuration must be to be accepted.  Codex has an account source
\* for the sake of account routes only, and probes nothing.
ValidCodex(c) ==
    /\ c.probe = None
    /\ c.auth # "none" => RoutesAccounts(c)
    /\ c.fileOnly /\ RoutesAccounts(c) => c.auth # "none" \/ c.dirs # <<>>

ValidClaude(c) == c.fileOnly /\ Maps(c) => c.auth # "none" \/ c.dirs # <<>>

Valid(c) ==
    /\ IsInjective(c.dirs) /\ \A app \in Apps : ValidRoutes(c.urls[app])
    /\ c.auth = "file" => c.dirs # <<>>
    /\ IF c.service = "codex" THEN ValidCodex(c) ELSE ValidClaude(c)

ByAccount(account, source) ==
    IF Choice(account, source) = None THEN Refused("unmapped")
                                      ELSE Routed(Choice(account, source), account)

\* The API keys with this credential; in Codex a provider may use a login's.
Keys(c) == {k \in config.keys : k.cred = c}

\* Those that a request finds, with a login shell asked for variables or without.
KeysFound(c, shell) == {k \in Keys(c) : k.shell => shell}

----------------------------------------------------------------------------
(* The command line clients.                                               *)

Changed == epoch < MaxEpoch /\ epoch' = epoch + 1 /\ UNCHANGED <<config, req, cache, served>>

\* A variable is edited in a .env file.
EditsEnv(d, l) ==
    /\ config.auth = "env" /\ Codex /\ file[d].env # l
    /\ file' = [file EXCEPT ![d].env = l]
    /\ Changed

\* Codex saves token and account in one file.
CodexLogin(d, l) ==
    /\ Codex /\ file[d].token # l
    /\ file' = [file EXCEPT ![d].token = l]
    /\ Changed

\* Claude saves the token and the account in two files, one of them first.
ClaudeLogin(d, l) ==
    /\ Claude /\ file[d].todo = None /\ file[d].token # l
    /\ \/ file' = [file EXCEPT ![d].token = l, ![d].todo = l]
       \/ file' = [file EXCEPT ![d].meta = Owner[l], ![d].todo = l]
    /\ Changed

ClaudeLoginEnds(d) ==
    /\ file[d].todo # None
    /\ file' = [file EXCEPT ![d] = [token |-> @.todo, meta |-> Owner[@.todo], todo |-> None, env |-> @.env]]
    /\ Changed

Logout(d) ==
    /\ file[d].token # None /\ file[d].todo = None
    /\ file' = [file EXCEPT ![d] = [token |-> None, meta |-> None, todo |-> None, env |-> @.env]]
    /\ Changed

----------------------------------------------------------------------------
(* Requests.                                                               *)

At(r, pc) == req[r].pc = pc

\* The answer is given; "until" is history.
Answered(r, a) ==
    req' = [req EXCEPT ![r] = [@ EXCEPT !.pc = "answered", !.answer = a, !.until = epoch]]

Answer(r, a) == Answered(r, a) /\ UNCHANGED <<config, file, epoch, cache, served>>

\* Every request's step but the answers and what concerns the cache.
Goes(r, record) ==
    /\ req' = [req EXCEPT ![r] = record]
    /\ UNCHANGED <<config, file, epoch, cache, served>>

Idle == [kind |-> "model", cred |-> CHOOSE c \in Creds : TRUE, bearer |-> TRUE, claimed |-> None,
         pc |-> "idle", next |-> 1, found |-> <<>>, value |-> None, unavailable |-> FALSE, account |-> None,
         proxy |-> None, profiled |-> FALSE, target |-> None, since |-> 0, until |-> 0, answer |-> Refused("none")]

\* A key in x-api-key is no account's.  Codex has Bearer credentials and a
\* header that names the account the client believes to be logged in.
Begin(r, kind, c, bearer, claimed) ==
    /\ req[r].pc \in {"idle", "answered"}
    /\ Codex => bearer
    /\ Claude => kind # "docs" /\ claimed = None
    /\ kind = "refresh" => bearer /\ c \in Logins /\ claimed = None
    /\ Goes(r, [Idle EXCEPT !.kind = kind, !.cred = c, !.bearer = bearer, !.claimed = claimed,
                            !.pc = IF bearer THEN "scan" ELSE "decide", !.since = epoch])

\* A target that names its upstream: a declared one has its route, whatever the
\* credential, which goes there unseen; only one application may declare it.
\* Another one is left to the service's logins and keys, if Claude's own
\* upstream contains it; Codex finds that out at the end (Finish).
BeginExplicit(r, target, c, bearer) ==
    LET apps == Declaring(config.urls, target)
        sent == [Idle EXCEPT !.cred = c, !.bearer = bearer, !.target = target, !.since = epoch]
        answers(a) == Goes(r, [sent EXCEPT !.pc = "answered", !.answer = a, !.until = epoch])
    IN  /\ req[r].pc \in {"idle", "answered"}
        /\ \/ apps = Apps /\ answers(Refused("conflict"))
           \/ /\ apps = {"codex"} /\ ~bearer
              /\ answers(Refused("refused"))
           \/ \E app \in apps :
                /\ apps = {app} /\ (app = "codex" => bearer)
                /\ \E a \in MatchRoute(config.urls[app], target.url) : answers(Routed(a.proxy, None))
           \/ /\ apps = {} /\ Service(target) = config.service
              /\ IF Codex /\ ~bearer THEN answers(Refused("refused"))
                 ELSE IF Claude /\ ~Under(config.upstream["key"], target.url) THEN answers(Refused("undeclared"))
                 ELSE Goes(r, [sent EXCEPT !.pc = IF bearer THEN "scan" ELSE "decide"])

\* The queries of an account go to the root of the accounts' upstream.
Queries(base) == base.path = config.upstream["account"].path

\* What the request is about decides what a route is good for.  "matched": the
\* route is an account's.  An upstream that the request names must be the route's.
Finish(r, a, matched, base) ==
    LET wrong == a.account # None /\ req[r].claimed \notin {None, a.account}
    IN
    IF req[r].kind = "docs"
    THEN IF a.status = "routed" /\ req[r].claimed \in {None, a.account} THEN a ELSE Routed(config.mcp, None)
    ELSE IF a.status # "routed" THEN a
    ELSE IF wrong THEN Refused("changed")
    ELSE IF req[r].kind = "usage" /\ ~matched THEN Refused("forbidden")
    ELSE IF req[r].kind = "usage" /\ Codex /\ ~Queries(base) THEN Refused("undeclared")
    ELSE IF req[r].target # None /\ ~Under(base, req[r].target.url) THEN Refused("undeclared")
    ELSE a

\* Saved logins in every directory, unless a variable is the one source.
FromEnv  == config.auth = "env"
Saved    == ~FromEnv /\ (config.auth = "file" \/ AccountRouting)
Places   == IF Saved \/ (FromEnv /\ Codex) THEN config.dirs ELSE <<>>
Sources  == Len(Places) + (IF FromEnv THEN 1 ELSE 0)

Scanning(r) == At(r, "scan") /\ req[r].next <= Len(Places)
Scanned(r)  == At(r, "scan") /\ req[r].next > Sources

\* Variant with a bug: the last match wins.
LastMatch(found, d) == <<d>>

AnotherMatch(found, d) == Append(found, d)

\* One saved login is read.  A Claude refresh goes on to the metadata of a
\* match at once; a Codex refresh takes the first match (CodexRefresh).
ReadSource(r) ==
    LET d == Places[req[r].next]
        match == file[d].token = req[r].cred
    IN  /\ Saved /\ Scanning(r)
        /\ ~(Codex /\ req[r].kind = "refresh" /\ match)
        /\ Goes(r, [req[r] EXCEPT
                !.next = @ + 1,
                !.found = IF match THEN AnotherMatch(@, d) ELSE @,
                !.unavailable = @ \/ file[d].token = None,
                !.pc = IF Claude /\ req[r].kind = "refresh" /\ match THEN "identify" ELSE @])

\* "Account environment variable has different values across Codex homes."
Agree(seen, value) == None \in {seen, value} \/ seen = value

\* One .env file is read; without an entry it is the service's own variable
\* that Codex would see.
ReadHome(r) ==
    LET value == Else(file[Places[req[r].next]].env, config.process) IN
    /\ FromEnv /\ Scanning(r)
    /\ Goes(r, IF Agree(req[r].value, value)
               THEN [req[r] EXCEPT !.next = @ + 1, !.value = Else(@, value)]
               ELSE [req[r] EXCEPT !.next = Sources + 1, !.unavailable = TRUE])

\* Then the variable has its value, from a login shell if need be.  It holds no
\* refresh token, and Claude's refreshes do not look at it.
ReadVariable(r) ==
    LET value == Else(req[r].value, Else(config.process, config.shell)) IN
    /\ FromEnv /\ At(r, "scan") /\ req[r].next = Sources
    /\ Goes(r, [req[r] EXCEPT
            !.next = @ + 1,
            !.found = IF value = req[r].cred /\ req[r].kind # "refresh" THEN <<"env">> ELSE @,
            !.unavailable = @ \/ (value = None /\ (Codex \/ req[r].kind # "refresh"))])

\* Nothing fits: some source may have been unreadable.
NoRoute(r) ==
    Refused(IF req[r].unavailable \/ (req[r].kind # "refresh" /\ config.keysUnavailable)
            THEN "unavailable" ELSE "refused")

CodexRefresh(r) ==
    /\ Codex /\ Saved /\ Scanning(r) /\ req[r].kind = "refresh"
    /\ LET d == Places[req[r].next] IN
       /\ file[d].token = req[r].cred
       /\ Answer(r, ByAccount(Owner[req[r].cred], d))

RefreshUnmatched(r) ==
    /\ Scanned(r) /\ req[r].kind = "refresh" /\ req[r].found = <<>>
    /\ Answer(r, IF ~config.fileOnly /\ config.fallback # None
                 THEN Routed(config.fallback, None) ELSE NoRoute(r))

\* Variant with a bug: the source's route is forgotten.
ClaudeRefreshUnlabelled(r) ==
    /\ Claude /\ Scanned(r) /\ req[r].kind = "refresh" /\ req[r].found # <<>>
    /\ Answer(r, IF Len(req[r].found) > 1 THEN Refused("ambiguous")
                 ELSE ByAccount(req[r].account, None))

ClaudeRefresh(r) ==
    /\ Claude /\ Scanned(r) /\ req[r].kind = "refresh" /\ req[r].found # <<>>
    /\ Answer(r, IF Len(req[r].found) > 1 THEN Refused("ambiguous")
                 ELSE ByAccount(req[r].account, req[r].found[1]))

----------------------------------------------------------------------------
(* Codex: the saved logins that matched, else the token's own claims, and   *)
(* the API keys.  An account's route leads to the accounts' upstream, a     *)
(* key's to that of its provider, also if its credential is an account's.   *)
(* A login shell is asked for a key only if no account has matched.         *)

\* Variant with a bug: the file is read again for the account.
RereadAccount(r, d) ==
    IF d = "env" THEN Owner[req[r].cred] ELSE IF file[d].token = None THEN None ELSE Owner[file[d].token]

\* The account of the login found in d: it was read together with the token.
SavedAccount(r, d) == Owner[req[r].cred]

CodexDecide(r) ==
    LET c       == req[r].cred
        found   == req[r].found
        claims  == found = <<>> /\ ~config.fileOnly /\ AccountRouting /\ c \in Logins
        keys    == KeysFound(c, found = <<>> /\ ~claims)
        matches == Len(found) + (IF claims THEN 1 ELSE 0) + Cardinality(keys)
        goes(a, base) == Answer(r, Finish(r, a, a.account # None, base))
        answer(a) == goes(a, config.upstream["account"])
    IN  /\ Codex /\ Scanned(r) /\ req[r].kind # "refresh"
        /\ \/ matches > 1 /\ answer(Refused("ambiguous"))
           \/ matches = 1 /\ found # <<>> /\ answer(ByAccount(SavedAccount(r, found[1]), found[1]))
           \/ matches = 1 /\ claims /\ answer(ByAccount(Owner[c], None))
           \/ matches = 1 /\ \E k \in keys : goes(Routed(k.proxy, k.account), k.base)
           \/ /\ matches = 0
              /\ IF req[r].kind # "docs" /\ config.keyFallback # None
                 THEN goes(Routed(config.keyFallback, None), config.upstream["key"])
                 ELSE answer(NoRoute(r))

----------------------------------------------------------------------------
(* Claude: a saved login first, then the API keys, then the profile API.    *)
(* A login shell is asked for a key only if no login has matched; a named   *)
(* settings file that is of no use refuses every request that comes to the  *)
(* keys.                                                                   *)

ClaudeScanned(r) ==
    /\ Claude /\ Scanned(r) /\ req[r].kind # "refresh"
    /\ IF Len(req[r].found) > 1 THEN Answer(r, Refused("ambiguous"))
       ELSE Goes(r, [req[r] EXCEPT !.pc = IF req[r].found = <<>> THEN "decide" ELSE "identify"])

\* The metadata is read when the token has been: another login may be saved.
\* A variable is no evidence that its token is the one the metadata is about.
\* Without it, a probe can find the account.
Identify(r) ==
    LET d       == Last(req[r].found)
        account == IF d = "env" THEN None ELSE file[d].meta
        proxy   == Choice(account, d)
    IN  /\ At(r, "identify")
        /\ \/ /\ req[r].kind = "refresh"
              /\ Goes(r, [req[r] EXCEPT !.account = account, !.pc = "scan"])
           \/ /\ req[r].kind # "refresh"
              /\ proxy # None \/ (account = None /\ config.probe # None)
              /\ Goes(r, [req[r] EXCEPT !.account = account, !.proxy = proxy, !.pc = "decide"])
           \/ /\ req[r].kind # "refresh"
              /\ proxy = None /\ (account # None \/ config.probe = None)
              /\ Answer(r, Refused("unmapped"))

\* Variant with a bug: any token may be looked up.
AdmitsAll(r) == TRUE

\* With account_auth_file_only, the profile API is for saved tokens only.
Admits(r) == req[r].found # <<>> \/ ~config.fileOnly

ClaudeDecide(r) ==
    LET saved   == req[r].found # <<>>
        keys    == KeysFound(req[r].cred, ~saved)
        matches == Cardinality(keys) + (IF saved THEN 1 ELSE 0)
        probe   == Else(config.probe, config.fallback)
        goes(a, matched, base) == Answer(r, Finish(r, a, matched, base))
        profile ==
            IF ~Admits(r) THEN Answer(r, NoRoute(r))
            ELSE IF probe = None THEN Answer(r, Refused("unmapped"))
            ELSE Goes(r, [req[r] EXCEPT !.proxy = probe, !.pc = "cached"])
    IN  /\ Claude /\ At(r, "decide")
        /\ IF config.broken THEN Answer(r, Refused("unavailable"))
           ELSE \/ matches > 1 /\ Answer(r, Refused("ambiguous"))
                \/ /\ matches = 1 /\ saved /\ req[r].proxy # None
                   /\ goes(Routed(req[r].proxy, req[r].account), TRUE, config.upstream["key"])
                \/ matches = 1 /\ \E k \in keys : goes(Routed(k.proxy, None), FALSE, k.base)
                \/ matches = 1 /\ saved /\ req[r].proxy = None /\ profile
                \/ matches = 0 /\ req[r].bearer /\ profile
                \/ /\ matches = 0 /\ ~req[r].bearer
                   /\ IF config.keyFallback = None THEN Answer(r, NoRoute(r))
                      ELSE goes(Routed(config.keyFallback, None), FALSE, config.upstream["key"])

\* The account that the profile API names decides; sources have no part in it.
Profiled(r, account) ==
    req' = [req EXCEPT ![r] = [@ EXCEPT !.pc = "answered", !.answer = ByAccount(account, None),
                                        !.profiled = TRUE, !.until = epoch]]

Cached(t) == {i \in DOMAIN cache : cache[i].token = t}

Without(entries, t) ==
    LET places == {i \in DOMAIN entries : entries[i].token = t}
    IN  IF places = {} THEN entries ELSE RemoveAt(entries, CHOOSE i \in places : TRUE)

\* History: t has been used.
Serve(t) == served' = [u \in Logins |-> IF u = t THEN {} ELSE served[u] \cup {t}]

\* Variant with a bug: a hit does not count as a use.
CacheHitUntouched(r) ==
    /\ At(r, "cached")
    /\ \E i \in Cached(req[r].cred) : Profiled(r, cache[i].account)
    /\ Serve(req[r].cred)
    /\ UNCHANGED <<config, file, epoch, cache>>

CacheHit(r) ==
    /\ At(r, "cached")
    /\ \E i \in Cached(req[r].cred) :
        /\ cache' = Append(Without(cache, req[r].cred), cache[i])
        /\ Profiled(r, cache[i].account)
    /\ Serve(req[r].cred)
    /\ UNCHANGED <<config, file, epoch>>

CacheMiss(r) ==
    /\ At(r, "cached") /\ Cached(req[r].cred) = {}
    /\ Goes(r, [req[r] EXCEPT !.pc = "profile"])

\* Variant with a bug: an entry that another request has made meanwhile stays.
NoRoom(t) == cache

\* The cache without t, and without its oldest entry if t needs the room:
\* another request may have brought t meanwhile.
Room(t) ==
    IF Len(cache) >= Capacity /\ Cached(t) = {} THEN Tail(cache) ELSE Without(cache, t)

ProfileKnown(r) ==
    LET t == req[r].cred IN
    /\ At(r, "profile") /\ t \in Logins
    /\ cache' = Append(Room(t), [token |-> t, account |-> Owner[t]])
    /\ Profiled(r, Owner[t])
    /\ Serve(t)
    /\ UNCHANGED <<config, file, epoch>>

\* The lookup is refused, malformed, or does not arrive.
ProfileFails(r) ==
    /\ At(r, "profile")
    /\ Answer(r, Refused("failed"))

----------------------------------------------------------------------------
(* The check of the credentials, at once and for the files as they are.    *)

SourceSet == IF FromEnv THEN {"env"} ELSE Range(Places)

Variable ==
    LET homes == {Else(file[d].env, config.process) : d \in Range(Places)} \ {None}
    IN  CASE homes = {} -> Else(config.process, config.shell)
          [] \E v \in homes : homes = {v} -> CHOOSE v \in homes : TRUE
          [] OTHER -> None

Token(s) == IF s = "env" THEN Variable ELSE file[s].token

AccountOf(s) ==
    CASE Codex -> Owner[Token(s)]
      [] Claude /\ s # "env" -> file[s].meta
      [] OTHER -> None

\* Variant with a bug: keys are compared with one another only.
ChecksApart ==
    /\ ~config.keysUnavailable /\ ~config.broken
    /\ \A k, j \in config.keys : k # j => k.cred # j.cred
    /\ config.fileOnly => \A s \in SourceSet :
        /\ Token(s) # None /\ Choice(AccountOf(s), s) # None
        /\ \A t \in SourceSet \ {s} : Token(t) # Token(s)

\* Every key is there, in a login shell if need be, and in file-only mode every source, each with a route;
\* no two have one credential.
CheckCredentials ==
    /\ ~config.keysUnavailable /\ ~config.broken
    /\ \A k, j \in config.keys : k # j => k.cred # j.cred
    /\ config.fileOnly => \A s \in SourceSet :
        /\ Token(s) # None /\ Choice(AccountOf(s), s) # None
        /\ \A t \in SourceSet \ {s} : Token(t) # Token(s)
        /\ \A k \in config.keys : Token(s) # k.cred

----------------------------------------------------------------------------
Init ==
    /\ config \in {c \in Configs : Valid(c)}
    /\ file \in [Dirs -> {[token |-> l, meta |-> IF l = None THEN None ELSE Owner[l], todo |-> None, env |-> v] :
                            l \in Opt(Logins), v \in Opt(Logins)}]
    /\ epoch = 0 /\ cache = <<>> /\ served = [t \in Logins |-> {}]
    /\ req = [r \in Slots |-> Idle]

CommandLine ==
    \E d \in Dirs :
        \/ ClaudeLoginEnds(d) \/ Logout(d)
        \/ \E l \in Logins : CodexLogin(d, l) \/ ClaudeLogin(d, l)
        \/ \E l \in Opt(Logins) : EditsEnv(d, l)

Request(r) ==
    \/ \E kind \in Kinds, c \in Creds, bearer \in BOOLEAN, claimed \in Opt(Accounts) :
            Begin(r, kind, c, bearer, claimed)
    \/ \E target \in config.asked, c \in Creds, bearer \in BOOLEAN : BeginExplicit(r, target, c, bearer)
    \/ ReadSource(r) \/ ReadHome(r) \/ ReadVariable(r) \/ CodexRefresh(r) \/ RefreshUnmatched(r) \/ ClaudeRefresh(r)
    \/ CodexDecide(r) \/ ClaudeScanned(r) \/ Identify(r) \/ ClaudeDecide(r)
    \/ CacheHit(r) \/ CacheMiss(r) \/ ProfileKnown(r) \/ ProfileFails(r)

Next == CommandLine \/ \E r \in Slots : Request(r)

Spec == Init /\ [][Next]_vars

----------------------------------------------------------------------------
(* Properties.                                                             *)

\* The cache stays within its capacity, with one entry for a token, and knows
\* only accounts that the profile API gave for that very token.
TypeOK ==
    /\ config \in ConfigType
    /\ file \in [Dirs -> [token : Opt(Logins), meta : Opt(Accounts), todo : Opt(Logins), env : Opt(Logins)]]
    /\ epoch \in 0 .. MaxEpoch
    /\ req \in [Slots -> Requests]
    /\ cache \in Seq([token : Logins, account : Accounts]) /\ Len(cache) <= Capacity
    /\ \A i, j \in DOMAIN cache : cache[i].token = cache[j].token => i = j

Done(r) == At(r, "answered") /\ req[r].answer.status = "routed"

\* The files did not change while the request was routed.
Undisturbed(r) == req[r].since = req[r].until

\* Whatever logins come and go meanwhile, a request is routed as an account
\* only if its own token is that account's, where the account is read with the
\* token, from the token, or is the profile API's.
OwnAccount ==
    \A r \in Slots :
        Done(r) /\ req[r].kind # "refresh" /\ req[r].answer.account # None /\ (Codex \/ req[r].profiled)
            => req[r].cred \in Logins /\ req[r].answer.account = Owner[req[r].cred]

\* The same of the metadata of a saved Claude login: "it is never reused for a
\* different incoming token" (README.md:150).
MetadataOfToken ==
    \A r \in Slots :
        Done(r) /\ req[r].answer.account # None => req[r].answer.account = Owner[req[r].cred]

\* The upstreams that the credential of a request can be good for.
Bases(c) == {config.upstream[u] : u \in {"account", "key"}} \cup {k.base : k \in Keys(c)}

\* A request that names its upstream goes there only if it may: "undeclared
\* destinations cannot use another route" (README.md), of two bases that contain
\* it the inner one's route counts, and a URL that both applications declare
\* needs a prefix.  No login and no key has a part in a declared one's route.
UrlRouted ==
    \A r \in Slots : At(r, "answered") /\ req[r].target # None =>
        LET t == req[r].target
            a == req[r].answer
            declared == {app \in Apps : t.scope \in {"any", app} /\ \E b \in config.urls[app] : Under(b.base, t.url)}
        IN  /\ a.status = "conflict" <=> t.scope = "any" /\ declared = Apps
            /\ Done(r) => \/ \E app \in declared : \E b \in config.urls[app] :
                                /\ Under(b.base, t.url) /\ a = Routed(b.proxy, None)
                                /\ \A c \in config.urls[app] : Under(c.base, t.url) => Under(c.base, b.base)
                          \/ declared = {} /\ \E base \in Bases(req[r].cred) : Under(base, t.url)
            /\ declared # {} /\ a.status \notin {"conflict", "routed"} => ~req[r].bearer /\ declared = {"codex"}

\* "Refresh credentials select the same local account route as access tokens"
\* (claude.rs:353), and Codex does likewise: when a saved login routes a request,
\* and the files are the same, its refresh takes the same proxy.  (A variable
\* holds no refresh token.)
SameRoute ==
    \A m, r \in Slots :
        /\ Done(m) /\ At(r, "answered") /\ Undisturbed(m) /\ Undisturbed(r) /\ req[m].since = req[r].since
        /\ req[m].kind = "model" /\ req[r].kind = "refresh" /\ req[m].cred = req[r].cred
        /\ req[m].found # <<>> /\ ~FromEnv /\ ~req[m].profiled
        => req[m].answer = req[r].answer

\* The answer of the files as they are: nothing that fits two routes is routed, a
\* saved login goes by its account or source, a key by its own route, and only
\* what fits no route falls back.  A variable on which the directories differ fits
\* nothing, nor does a key that only a login shell has once an account fits; with
\* a broken settings file nothing is routed that might be a key.
RightAnswer(r, a) ==
    LET c     == req[r].cred
        saved == {s \in SourceSet : req[r].bearer /\ Token(s) = c}
        jwt   == Codex /\ saved = {} /\ ~config.fileOnly /\ AccountRouting /\ c \in Logins
        keys  == KeysFound(c, saved = {} /\ ~jwt)
        fits  == Cardinality(saved) + Cardinality(keys) + (IF jwt THEN 1 ELSE 0)
        saves(s) == \/ a = ByAccount(AccountOf(s), s)
                    \/ Claude /\ AccountOf(s) = None /\ Choice(None, s) = None
                       /\ (a.status = "failed" \/ a = ByAccount(Owner[c], None))
    IN  /\ a.status = "ambiguous" => fits > 1
        /\ config.broken => a.status \in {"ambiguous", "unmapped", "unavailable"}
        /\ fits > 1 /\ ~config.broken => a.status \in {"ambiguous", "unmapped"}
        /\ fits = 1 /\ ~config.broken => /\ \A s \in saved : saves(s)
                       /\ \A k \in keys : a = Routed(k.proxy, k.account)
                       /\ jwt => a = ByAccount(Owner[c], None)
        /\ fits = 0 /\ a.status = "routed" =>
                IF Claude /\ req[r].bearer THEN a = ByAccount(Owner[c], None)
                                          ELSE a = Routed(config.keyFallback, None)

\* A request during which no file changes is answered so.
SnapshotAnswer ==
    [][\A r \in Slots :
        /\ ~At(r, "answered") /\ At(r, "answered")' /\ req[r].since = epoch
        /\ req[r].kind = "model" /\ req[r].claimed = None /\ req'[r].target = None
        => RightAnswer(r, req'[r].answer)]_vars

\* "Configuration, credential and route are valid" (main.rs:46), said of files
\* that no request finds changed, is true of every saved login and key of a
\* file-only configuration: the login is routed, the key takes its own route,
\* and nothing is ambiguous.
CheckedRoutes ==
    [][\A r \in Slots :
        /\ ~At(r, "answered") /\ At(r, "answered")' /\ req[r].since = epoch
        /\ req[r].kind = "model" /\ req[r].claimed = None /\ req'[r].target = None
        /\ config.fileOnly /\ CheckCredentials
        =>  LET a == req'[r].answer
            IN  /\ a.status # "ambiguous"
                /\ req[r].bearer /\ (\E s \in SourceSet : Token(s) = req[r].cred) => a.status = "routed"
                /\ \A k \in Keys(req[r].cred) : a = Routed(k.proxy, k.account)]_vars

\* Only the token that has been unused for longest leaves the cache, and only
\* for another one that needs the room.
LeastRecentlyUsed ==
    [][\A t \in Logins :
        Cached(t) # {} /\ Cached(t)' = {} =>
            /\ Len(cache) = Capacity /\ Len(cache') = Capacity
            /\ \A u \in Logins \ {t} : Cached(u) # {} => u \in served[t]]_vars
=============================================================================
