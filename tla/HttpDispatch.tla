---------------------------- MODULE HttpDispatch ----------------------------
(***************************************************************************)
(* One request on its way through the router and the middlewares of        *)
(* http/middleware: the filters whose pattern covers its path, in the      *)
(* order they were registered, then the route chi picks with the route's   *)
(* own middlewares and handler, or the responder for OPTIONS, 404 or 405.  *)
(* A panic unwinds to the recovery filter.                                 *)
(*                                                                         *)
(* A path is a sequence of segments.  A request whose path is escaped has  *)
(* two: the decoded one, which filters are asked about and may rewrite,    *)
(* and the raw one, by which chi routes.  The store, the limiter's bucket  *)
(* and a handler's luck are choices; what the store and the limiter do is  *)
(* the subject of SessionMediator and RateLimit.                           *)
(***************************************************************************)
EXTENDS Naturals, Sequences, SequencesExt, FiniteSets

CONSTANTS
    Sites,        \* [filters, routes, recovers]: an application's registrations
    Asks          \* site -> the requests asked of it

\* A pattern, and a filter or a route's middleware with the paths it is for.
Pattern == [segs : Seq(STRING), deep : BOOLEAN]
Scoped == [mw : STRING, pattern : Pattern, excluded : SUBSET Pattern]
ASSUME HttpAssumption ==
    /\ \A s \in Sites :
          /\ s.filters \in Seq(Scoped) /\ s.scoped \in Seq(Scoped)
          /\ s.routes \subseteq [method : STRING, pattern : Pattern, mws : Seq(STRING), issues : BOOLEAN]
    /\ \A s \in Sites : \A a \in Asks[s] :
          /\ a.fetch \in {"absent", "none", "same-origin", "same-site", "cross-site"}
          /\ a.origin \in {"none", "own", "listed", "foreign"}
          /\ a.path \in Seq(STRING) /\ a.raw \in Seq(STRING)

VARIABLES
    site, ask,    \* the application and the request
    path,         \* the path as rewritten so far
    link,         \* the next link of the chain
    holds,        \* session the rest of the request sees: none, live or fresh
    tokenOut,     \* whose CSRF token the response header names
    allowed,      \* the CORS headers of the answer
    written,      \* statuses written, in order; only the first reaches the client
    handled       \* routes whose handler ran
httpVars == <<site, ask, path, link, holds, tokenOut, allowed, written, handled>>

Safe == {"GET", "HEAD", "OPTIONS", "TRACE"}

-----------------------------------------------------------------------------
(* Patterns: [segs, deep]; a deep one ends in a wildcard, and "*" is one    *)
(* segment, whatever it is.                                                 *)

Whole == [segs |-> <<>>, deep |-> TRUE]
Fits(segs, p) ==
    /\ Len(segs) <= Len(p)
    /\ \A i \in DOMAIN segs : segs[i] \in {"*", p[i]}

\* The path chi routes by: the request's raw path where it has one, which nothing rewrites.
RoutePath == IF ask.raw # <<>> THEN ask.raw ELSE path

\* A filter's pattern against the path: "/a/**" wants something after "/a/".
matches(pattern, p) ==
    \/ pattern = Whole
    \/ pattern.deep /\ Fits(pattern.segs, p) /\ Len(p) > Len(pattern.segs)
    \/ ~pattern.deep /\ pattern.segs = p

\* A middleware's pattern against a route's: "/a/**" takes "/a" as well.
matchesPattern(pattern, route) ==
    \/ pattern = Whole
    \/ pattern.deep /\ IsPrefix(pattern.segs, route.segs)
    \/ ~pattern.deep /\ pattern.segs = route.segs /\ ~route.deep

Covers(pattern, excluded, p) ==
    matches(pattern, p) /\ \A x \in excluded : ~matches(x, p)
CoversRoute(pattern, excluded, r) ==
    matchesPattern(pattern, r) /\ \A x \in excluded : ~matchesPattern(x, r)

\* chi: static before parameter before catch-all, and only endpoints of the
\* method stop the search.
RouteFits(r, p) ==
    IF r.pattern.deep THEN Fits(r.pattern.segs, p)
    ELSE Fits(r.pattern.segs, p) /\ Len(p) = Len(r.pattern.segs)
Wild(r) == IF r.pattern.deep THEN 9 ELSE Cardinality({i \in DOMAIN r.pattern.segs : r.pattern.segs[i] = "*"})
Picked(method, p) ==
    LET able == {r \in site.routes : r.method = method /\ RouteFits(r, p)}
    IN  {r \in able : \A other \in able : Wild(r) <= Wild(other)}

isConcrete(p) == {r \in site.routes : ~r.pattern.deep /\ RouteFits(r, p)}
methodsForPath(p) ==
    IF isConcrete(p) = {} THEN {}
    ELSE {"OPTIONS"} \cup {r.method : r \in isConcrete(p)}

-----------------------------------------------------------------------------
(* The chain of a request: the filters, then the routing step.  A filter    *)
(* is asked about the path as it is when its turn comes.                    *)

Filter == site.filters[link]
Passing == link' = link + 1
Stop(status) == link' = 0 /\ written' = Append(written, status)

Turn(mw) ==
    /\ link \in DOMAIN site.filters
    /\ Filter.mw = mw /\ Covers(Filter.pattern, Filter.excluded, path)

Skip ==
    /\ link \in DOMAIN site.filters
    /\ ~Covers(Filter.pattern, Filter.excluded, path)
    /\ Passing
    /\ UNCHANGED <<site, ask, path, holds, tokenOut, written, handled, allowed>>

\* RecoveryMiddleware hands an error to the registered handlers and answers
\* anything else with 500; without it the connection is dropped.
Panics(status) ==
    /\ link' = 0
    /\ written' = IF site.recovers THEN Append(written, status) ELSE written

SecurityHeaders ==
    /\ Turn("headers")
    /\ Passing
    /\ UNCHANGED <<site, ask, path, holds, tokenOut, written, handled, allowed>>

\* Rewrites the path for every later link, and for chi unless it goes by the raw one.
CaseSensitive ==
    /\ Turn("lower")
    /\ path' = [i \in DOMAIN path |-> IF path[i] = "API" THEN "api" ELSE path[i]]
    /\ Passing
    /\ UNCHANGED <<site, ask, holds, tokenOut, written, handled, allowed>>

\* The three signals in order of trust.
refuse ==
    IF ask.fetch # "absent" THEN ask.fetch \in {"cross-site", "same-site"}
    ELSE IF ask.origin # "none" THEN ask.origin # "own"
    ELSE ask.referer = "foreign"

SameOrigin ==
    /\ Turn("sameOrigin")
    /\ IF ask.method \notin Safe /\ refuse
       THEN Stop(403)
       ELSE Passing /\ UNCHANGED written
    /\ UNCHANGED <<site, ask, path, holds, tokenOut, handled, allowed>>

\* newCors: no origins and no function of the application's means every
\* origin, as "*" does; the constructor refuses that together with credentials.
wildcardsEveryOrigin(o) ==
    IF o.origins = {} THEN ~o.func ELSE "all" \in o.origins
Constructed(o) == ~(o.credentials /\ wildcardsEveryOrigin(o))
allowedOriginsAll(o) == "all" \in o.origins \/ (o.origins = {} /\ ~o.func)

isOriginAllowed(o) ==
    IF o.func THEN ask.origin = "listed"
    ELSE allowedOriginsAll(o) \/ ask.origin \in {"own"} \cup o.origins
isMethodAllowed(method) == method \in {"GET", "POST", "HEAD", "OPTIONS"}
areHeadersAllowed(o) == o.anyHeader \/ ask.asksHeaders # "other"
Answers(o, method) == isOriginAllowed(o) /\ isMethodAllowed(method)
AllowOrigin(o) ==
    [origin |-> IF allowedOriginsAll(o) THEN "all" ELSE ask.origin,
     credentials |-> o.credentials]

\* A preflight ends here, unless the application answers OPTIONS itself; an actual request of
\* an origin or a method not allowed is refused.
handlePreflight ==
    ask.origin = "none" \/ (Answers(site.cors, ask.preflight) /\ areHeadersAllowed(site.cors))
handleActualRequest == ask.origin = "none" \/ Answers(site.cors, ask.method)
Cors ==
    /\ Turn("cors")
    /\ IF ask.method = "OPTIONS" /\ ask.preflight # "none"
       THEN IF ~handlePreflight THEN Stop(400)
            ELSE IF site.cors.passthrough THEN Passing /\ UNCHANGED written
            ELSE Stop(200)
       ELSE IF handleActualRequest THEN Passing /\ UNCHANGED written
       ELSE Stop(403)
    /\ allowed' = IF ask.origin # "none" /\ (link' # 0 \/ written' = <<200>>)
                  THEN AllowOrigin(site.cors) ELSE allowed
    /\ UNCHANGED <<site, ask, path, holds, tokenOut, handled>>

RateLimited ==
    /\ Turn("limit")
    /\ \/ Passing /\ UNCHANGED written
       \/ Stop(429)
    /\ UNCHANGED <<site, ask, path, holds, tokenOut, handled, allowed>>

-----------------------------------------------------------------------------
(* Sessions.  What the request sees is published to its session scope and   *)
(* its context together with the token's header (PublishSession).           *)

CurrentSession == IF holds # "none" THEN holds
                  ELSE IF ask.cookie = "live" THEN "live" ELSE "none"

\* A live session is published with its token, one being minted when it has
\* none; otherwise a fresh one is started, and its token is handed out only
\* when the session that carries it was stored.  Any store call may fail.
SessionStarted ==
    /\ Turn("session")
    /\ Passing
    /\ \/ /\ ask.method = "OPTIONS"
          /\ UNCHANGED <<holds, tokenOut>>
       \/ /\ ask.method # "OPTIONS" /\ CurrentSession # "none"
          /\ holds' = CurrentSession
          /\ tokenOut' \in {CurrentSession} \cup (IF ask.minted THEN {} ELSE {"none"})
       \/ /\ ask.method # "OPTIONS" /\ CurrentSession = "none"
          /\ \/ UNCHANGED <<holds, tokenOut>>
             \/ holds' = "fresh" /\ tokenOut' \in {"none", "fresh"}
    /\ UNCHANGED <<site, ask, path, written, handled, allowed>>

\* The token of the request against the one its session holds; a live session
\* holds one once it was minted, a fresh one was never seen by the client.
\* Fault: no session, no check.
TokenMatchesIfAny == CurrentSession # "live" \/ (ask.minted /\ ask.token = "live")
TokenMatches == CurrentSession = "live" /\ ask.minted /\ ask.token = "live"
CSRF ==
    /\ Turn("csrf")
    /\ CASE ask.method = "OPTIONS" -> Stop(204)
         [] ask.method \in {"GET", "HEAD", "TRACE"} -> Passing /\ UNCHANGED written
         [] ask.method \notin Safe /\ TokenMatches -> Passing /\ UNCHANGED written
         [] OTHER -> Stop(403)
    /\ UNCHANGED <<site, ask, path, holds, tokenOut, handled, allowed>>

-----------------------------------------------------------------------------
(* Routing, once every filter has passed.                                   *)

Routed == link = Len(site.filters) + 1
RouteMiddlewares(r) ==
    [i \in DOMAIN site.scoped |->
        IF CoversRoute(site.scoped[i].pattern, site.scoped[i].excluded, r.pattern)
        THEN site.scoped[i].mw ELSE "none"] \o r.mws

\* AuthMiddleware: 401 who are you, 403 not allowed; a lookup that breaks
\* panics.  JwtMiddleware panics with an error that answers 401, also when the
\* token's user cannot be had; with roles, a user of another role gets 403.
\* ask.bearer is the role of that user: "none" no valid token, "gone" no user.
LoggedIn == CurrentSession = "live" /\ ask.role # "none"
Lets(mw) == CASE mw = "auth" -> LoggedIn
              [] mw = "admin" -> LoggedIn /\ ask.role = "admin"
              [] mw = "jwt" -> ask.bearer # "none"
              [] mw = "jwtAdmin" -> ask.bearer = "admin"
              [] OTHER -> TRUE
Refusal(mw) == CASE mw = "admin" /\ LoggedIn -> {302, 401, 403, 500}
                 [] mw \in {"auth", "admin"} -> {302, 401}
                 [] mw = "jwtAdmin" /\ ask.bearer \notin {"none", "gone"} -> {403}
                 [] OTHER -> {401}
Aborts(mw, status) == status = 500 \/ (mw \in {"jwt", "jwtAdmin"} /\ status = 401)

FirstRefusing(r) ==
    {i \in DOMAIN RouteMiddlewares(r) :
        /\ ~Lets(RouteMiddlewares(r)[i])
        /\ \A j \in 1..(i - 1) : Lets(RouteMiddlewares(r)[j])}

Refused(r) ==
    /\ \E i \in FirstRefusing(r) : \E status \in Refusal(RouteMiddlewares(r)[i]) :
           IF Aborts(RouteMiddlewares(r)[i], status)
           THEN Panics(status) ELSE Stop(status)
    /\ UNCHANGED <<site, ask, path, holds, tokenOut, handled, allowed>>

\* The input resolver first: an argument that does not parse or validate is
\* answered and the handler not called.  A handler may panic, having written
\* or not; the csrf controller starts a session when the request has none.
Handled(r) ==
    /\ FirstRefusing(r) = {}
    /\ \/ Stop(400) /\ UNCHANGED <<handled, holds, tokenOut>>
       \/ Stop(200) /\ handled' = handled \cup {r} /\ UNCHANGED <<holds, tokenOut>>
       \/ Panics(500) /\ handled' = handled \cup {r} /\ UNCHANGED <<holds, tokenOut>>
       \/ /\ link' = 0 /\ handled' = handled \cup {r}
          /\ written' = written \o <<200>> \o (IF site.recovers THEN <<500>> ELSE <<>>)
          /\ UNCHANGED <<holds, tokenOut>>
       \/ /\ r.issues /\ handled' = handled \cup {r}
          /\ \/ /\ CurrentSession = "none" /\ Stop(500) /\ UNCHANGED <<holds, tokenOut>>
             \/ /\ holds' = IF CurrentSession = "none" THEN "fresh" ELSE CurrentSession
                /\ \/ Stop(200) /\ tokenOut' = holds'
                   \/ Stop(500) /\ UNCHANGED tokenOut
    /\ UNCHANGED <<site, ask, path, allowed>>

Route == Routed /\ \E r \in Picked(ask.method, RoutePath) : Refused(r) \/ Handled(r)

\* registerPreflight: every pattern answers OPTIONS unless the application
\* declared a route for it; the handler never runs.
Preflight ==
    /\ Routed /\ ask.method = "OPTIONS" /\ Picked("OPTIONS", RoutePath) = {}
    /\ \E r \in site.routes : RouteFits(r, RoutePath)
    /\ Stop(204)
    /\ UNCHANGED <<site, ask, path, holds, tokenOut, handled, allowed>>

\* chi says 405 for a path that has a route under another method; where at
\* most a catch-all claims the decoded path, the router makes it a 404.
Unrouted ==
    /\ Routed /\ Picked(ask.method, RoutePath) = {}
    /\ LET claimed == \E r \in site.routes : RouteFits(r, RoutePath)
       IN  /\ ask.method = "OPTIONS" => ~claimed
           /\ Stop(IF claimed /\ methodsForPath(path) # {} THEN 405 ELSE 404)
    /\ UNCHANGED <<site, ask, path, holds, tokenOut, handled, allowed>>

-----------------------------------------------------------------------------
HttpInit ==
    /\ site \in Sites /\ Constructed(site.cors)
    /\ ask \in Asks[site]
    /\ path = ask.path
    /\ link = 1
    /\ holds = "none" /\ tokenOut = "none"
    /\ allowed = [origin |-> "none", credentials |-> FALSE]
    /\ written = <<>>
    /\ handled = {}

HttpNext ==
    \/ Skip \/ SecurityHeaders \/ CaseSensitive \/ SameOrigin \/ Cors
    \/ RateLimited \/ SessionStarted \/ CSRF
    \/ Route \/ Preflight \/ Unrouted

HttpSpec == HttpInit /\ [][HttpNext]_httpVars

-----------------------------------------------------------------------------
(* What a filter promises of a request it covers.                           *)

Promise(mw) ==
    CASE mw = "sameOrigin" ->
           ask.method \notin Safe =>
             \/ ask.fetch \in {"same-origin", "none"}
             \/ ask.fetch = "absent" /\ ask.origin = "own"
             \/ ask.fetch = "absent" /\ ask.origin = "none" /\ ask.referer # "foreign"
      [] mw = "cors" -> ask.origin = "none" \/ allowed.origin # "none"
      [] mw = "csrf" ->
           ask.method \notin Safe => /\ ask.cookie = "live" /\ ask.token = "live"
                                     /\ CurrentSession = "live"
      [] OTHER -> TRUE

\* A guard of the path routed by which its filter does not see in the path it is shown: the
\* request's path was escaped.
OutOfSight(f) == RoutePath # path /\ ~Covers(f.pattern, f.excluded, path)

(* A handler runs behind everything that guards it: under the method its    *)
(* route was registered for, once, when every filter whose pattern covers   *)
(* the path it was routed by, or the decoded path, has kept its promise     *)
(* about the session the handler sees, but for what an escaped path keeps   *)
(* out of its sight, and every middleware of the route let the caller in.   *)
HandlerIsGuarded ==
    \A r \in handled :
        /\ r.method = ask.method /\ RouteFits(r, RoutePath) /\ handled = {r}
        /\ \A i \in DOMAIN site.filters :
              LET f == site.filters[i]
              IN  Covers(f.pattern, f.excluded, RoutePath) \/ Covers(f.pattern, f.excluded, path)
                  => Promise(f.mw) \/ OutOfSight(f)
        /\ \A i \in DOMAIN RouteMiddlewares(r) : Lets(RouteMiddlewares(r)[i])

(* The answer is honest.  Of a request routed by the path it is answered    *)
(* for, 404 means no route has the path, whatever the method, and 405 that  *)
(* one has it; 405 is never said of a method that has a route; every        *)
(* request that passed the filters is answered, unless a panic met no       *)
(* recovery; a credentialed answer never goes to every origin; and the      *)
(* token handed out belongs to the session the client is left with.         *)
AnswerIsHonest ==
    /\ written = <<404>> /\ RoutePath = path =>
          \A r \in site.routes : RouteFits(r, path) => r.pattern.deep
    /\ written = <<405>> =>
          /\ RoutePath = path => \E r \in site.routes : RouteFits(r, path) /\ ~r.pattern.deep
          /\ \A r \in site.routes : RouteFits(r, RoutePath) => r.method # ask.method
    /\ link = 0 => written # <<>> \/ ~site.recovers
    /\ allowed.credentials => allowed.origin # "all"
    /\ tokenOut \in {"none", holds}

\* One request, from the first filter to the answer: what runs is guarded, what is said is so.
AnswersBehindGuards == HandlerIsGuarded /\ AnswerIsHonest
=============================================================================
