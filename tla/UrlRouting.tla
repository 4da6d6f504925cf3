----------------------------- MODULE UrlRouting -----------------------------
(***************************************************************************)
(* Routing by the upstream that a request names itself: a target           *)
(* "/https://...", after the name of an application or not.                *)
(* src/url_routing.rs, and what Server::forward, Config::resolve_url and   *)
(* Claude::explicit_api_route make of it.                                  *)
(*                                                                         *)
(* Abstracted: a URL is an origin and its path's segments; the spellings   *)
(* of one URL and the rules for valid hosts are left out.                  *)
(***************************************************************************)
EXTENDS SequencesExt

CONSTANTS Origins, Segments

Apps == {"codex", "claude"}

Urls == [origin : Origins, path : Seq(Segments)]

\* A base contains its own path and what follows it after a slash, not a name
\* that merely begins alike.
Under(base, url) == base.origin = url.origin /\ IsPrefix(base.path, url.path)

\* A set of routes, records with a base: no base may be there twice.
ValidRoutes(routes) == \A a, b \in routes : a.base = b.base => a = b

Matches(routes, url) == {a \in routes : Under(a.base, url)}

\* Variant with a bug: the shortest base wins.
MatchShortest(routes, url) ==
    {a \in Matches(routes, url) : \A b \in Matches(routes, url) : Len(a.base.path) <= Len(b.base.path)}

\* The longest base wins.
MatchRoute(routes, url) ==
    {a \in Matches(routes, url) : \A b \in Matches(routes, url) : Len(b.base.path) <= Len(a.base.path)}

----------------------------------------------------------------------------
\* The application that the target's prefix names, or any.
Targets == [scope : Apps \cup {"any"}, url : Urls]

Eligible(target) == IF target.scope = "any" THEN Apps ELSE {target.scope}

\* The applications that declare the target's URL as a route.
Declaring(routes, target) == {app \in Eligible(target) : Matches(routes[app], target.url) # {}}

\* Where none does, the prefix tells whose request it is, or else the path.
Service(target) ==
    IF target.scope # "any" THEN target.scope
    ELSE IF IsPrefix(<<"v1", "messages">>, target.url.path) THEN "claude" ELSE "codex"
=============================================================================
