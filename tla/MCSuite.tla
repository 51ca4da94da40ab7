------------------------------- MODULE MCSuite -------------------------------
(***************************************************************************)
(* The components that do not meet inside one request, checked together in *)
(* one run: a behaviour picks one of them, which then runs by its own      *)
(* Init and Next while the others stay parked in one of their initial      *)
(* states.  The state graph is the disjoint union of the components', so a *)
(* property of one of them is checked over the whole of its graph.         *)
(***************************************************************************)
EXTENDS TokenSource, OrmSave, SqlScan, SqlPolicy, AccessControl, RowFilters, IdentityMemo,
        MemorySession, RateLimit, SqlGuard, HttpDispatch, RequestScope, QueryBuilder, MCSql, MCBoot

VARIABLE which          \* the component of this behaviour

Parts == {"token", "order", "draft", "scan", "query", "batch", "access", "rows", "memo", "memory", "limit",
          "guard", "http", "request", "builder", "render", "boot"}

scanVars == <<scanned>>
policyVars == <<queries, batches>>
renderVars == <<asked>>
suiteVars == <<which, tokenVars, saveVars, scanVars, policyVars, accessVars, rowVars, memoVars,
               memoryVars, limitVars, guardVars, httpVars, requestVars, builderVars, renderVars,
               bootVars>>

---------------------------------------------------------------------------
(* TokenSource, OrmSave.                                                    *)

\* A browser sign-in with its record file, and a method that asks nobody.
MCMethods == {[interactive |-> TRUE, persistent |-> TRUE], [interactive |-> FALSE, persistent |-> FALSE]}
MCTokens == {[left |-> 2, refresh |-> 1]}

\* An order has many tags, one with a generated key and one whose key the application sets, and
\* lines, which belong to the first. A draft belongs to it too, and holds its notes as values, of
\* which one has its metadata already.
MCEntities == {"order", "line", "tag", "label", "draft", "note", "memo"}
MCHas == [e \in MCEntities |-> IF e = "order" THEN {"line"} ELSE {}]
MCUp == [e \in MCEntities |-> IF e \in {"line", "draft"} THEN "tag" ELSE NoEntity]
MCTags == [e \in MCEntities |-> CASE e = "order" -> {"tag", "label"}
                                  [] e = "draft" -> {"note", "memo"}
                                  [] OTHER -> {}]

---------------------------------------------------------------------------
(* SqlScan: every text of up to four units; SqlPolicy: every query of a     *)
(* WITH and a subquery over four kinds of query, every batch of two.        *)

ScanUnits == [tsql |-> {"word", "quote", "bracket[", "bracket]", "open", "close", "dashes", "newline"},
              postgres |-> {"word", "E", "quote", "escape", "open", "close", "dollars"},
              mysql |-> {"word", "quote", "dquote", "escape", "tick", "exec", "open", "close", "hash#"}]
MCTexts == [e \in Engines |-> UNION {[1..n -> ScanUnits[e]] : n \in 0..4}
                                  \cup [1..5 -> {"word", "quote", "dquote", "escape"}]]

Flats == {PlainQuery(v, t) : v \in {"SELECT", "DELETE"}, t \in {"none", "into", "lock", "call", "column"}}
Some == {PlainQuery("SELECT", "none"), PlainQuery("DELETE", "none"), PlainQuery("SELECT", "into"),
         PlainQuery("SELECT", "column")}
Tops == Flats \cup {[q EXCEPT !.ctes = <<c>>] : q \in Flats, c \in Flats}
              \cup {[q EXCEPT !.ctes = <<c, d>>] : q \in Some, c \in Some, d \in Some}
MCQueries == Tops \cup {[q EXCEPT !.sub = <<r>>] : q \in {p \in Flats : p.tail = "none"},
                           r \in {p \in Tops : p.tail \in {"none", "into"} /\ (p.ctes # <<>> \/ p.verb = "SELECT")}}

Statement(kinds, explains) == [kind : kinds, explain : explains]
BatchesOf(engine, separated, statements) ==
    [engine : {engine}, separated : separated,
     statements : {<<s>> : s \in statements} \cup {<<s, r>> : s \in statements, r \in statements}]
MCBatches == BatchesOf("tsql", BOOLEAN, Statement(TsqlKinds, {FALSE}))
                 \cup BatchesOf("postgres", {TRUE}, Statement(OtherKinds, BOOLEAN))

---------------------------------------------------------------------------
(* AccessControl and RowFilters.                                            *)

Says(yes, deny, to) == [allowed |-> yes, deny |-> deny, roles |-> to]
ToAll == Says(TRUE, FALSE, {})
ToAdmin == Says(TRUE, FALSE, {"admin"})
ToGuest == Says(TRUE, FALSE, {"guest"})
ToNone == Says(FALSE, FALSE, {})
Refusing == Says(TRUE, TRUE, {})
OwnerAndRest(owner, rest) == [r \in {"read", "owner", "filter", "sort"} |-> IF r = "owner" THEN owner ELSE rest]
MCFieldRules == {OwnerAndRest(Refusing, ToAll), OwnerAndRest(ToAll, ToAdmin)}
OperationRules == {ops \in [{"read", "read_owner", "read_level", "filter", "sort"} ->
                              {Undeclared, ToAll, ToAdmin, ToGuest, Refusing, ToNone}] :
                      /\ ops["read_owner"] \in {ToAdmin, Refusing}
                      /\ ops["read_level"] \in {ToGuest, Refusing}
                      /\ ops["filter"] = ToGuest /\ ops["sort"] = Undeclared}
MCPolicies == [guests : BOOLEAN, ops : OperationRules,
               fields : {[f \in Fields |-> x] : x \in MCFieldRules \cup {Undeclared}},
               defaults : {Fields}, ownership : {TRUE}, bounded : {TRUE},
               operators : {{"="}}, filterRoles : {{"guest"}}, sortRoles : {{}}]

Rows12 == [PlainFilter EXCEPT !.rows = {1, 2}]
MCFilters == {Rows12,
              [PlainFilter EXCEPT !.rows = {2, 3}, !.logic = "OR"],
              [PlainFilter EXCEPT !.rows = {1}, !.logic = "or"],
              [PlainFilter EXCEPT !.rows = {1, 3}, !.join = {3}],
              [PlainFilter EXCEPT !.rows = {3}, !.value = "tenant_id"],
              [PlainFilter EXCEPT !.rows = {3}, !.operator = "emptylist"],
              [PlainFilter EXCEPT !.slots = {"processor"}, !.processor = "teams"],
              [PlainFilter EXCEPT !.slots = {"processor"}, !.processor = "failing"],
              [PlainFilter EXCEPT !.rows = {1}, !.value = "undeclared"],
              [PlainFilter EXCEPT !.rows = {2}, !.clean = FALSE],
              [PlainFilter EXCEPT !.rows = {2}, !.nested = "bad"],
              [PlainFilter EXCEPT !.nested = "good", !.as = {1, 3}, !.meant = {1, 3}],
              [PlainFilter EXCEPT !.rows = {1}, !.slots = {"raw"}, !.nested = "good", !.as = {1, 2}, !.meant = {1, 2}],
              [PlainFilter EXCEPT !.nested = "good", !.as = {2}, !.meant = {1}, !.logic = "OR"],
              [PlainFilter EXCEPT !.rows = {2}, !.operator = "unlisted"]}
MCTeams == {[PlainFilter EXCEPT !.rows = {1}, !.logic = "OR"],
            [PlainFilter EXCEPT !.as = {2}, !.meant = {2}, !.logic = "OR", !.slots = {}, !.nested = "good"]}
AdminFilters == {{}} \cup {{f, g} : f \in MCFilters, g \in MCFilters}
GuestFilters == {{}, {Rows12}, {[PlainFilter EXCEPT !.rows = {1}, !.value = "undeclared"]}}
MCSetups == [enabled : {TRUE}, guests : {TRUE}, ownership : BOOLEAN, skip : {{}, {"admin"}},
             custom : {[r \in ReaderRoles |-> IF r = "guest" THEN [spelled |-> "lower", filters |-> a]
                                              ELSE [spelled |-> sp, filters |-> b]] :
                          a \in GuestFilters, b \in AdminFilters, sp \in {"as is", "other"}},
             teams : {MCTeams}]

---------------------------------------------------------------------------
(* RateLimit and HttpDispatch.                                              *)

MCBurst == [k \in Keys |-> IF k = "short" THEN 2 ELSE 1]
MCWindow == [k \in Keys |-> IF k = "short" THEN 3 ELSE 7]

Exactly(segs) == [segs |-> segs, deep |-> FALSE]
Under(segs) == [segs |-> segs, deep |-> TRUE]
Filtered(mw, pattern) == [mw |-> mw, pattern |-> pattern, excluded |-> {}]
Registered(method, pattern, mws) ==
    [method |-> method, pattern |-> pattern, mws |-> mws, issues |-> pattern.segs = <<"csrf">>]
MCRoutes == {Registered("GET", Under(<<>>), <<>>), Registered("POST", Exactly(<<"api", "me">>), <<"jwt">>),
             Registered("GET", Exactly(<<"api", "*">>), <<>>), Registered("POST", Exactly(<<"api", "hook">>), <<>>),
             Registered("POST", Exactly(<<"api", "*">>), <<"jwtAdmin">>),
             Registered("GET", Exactly(<<"csrf">>), <<>>), Registered("OPTIONS", Exactly(<<"api", "*">>), <<>>)}
CorsOf(origins, func, credentials, passthrough, anyHeader) ==
    [origins |-> origins, func |-> func, credentials |-> credentials, passthrough |-> passthrough, anyHeader |-> anyHeader]

\* What rewrites the path stands before what is scoped by it, as the documentation asks.
Cookies == [filters |-> <<Filtered("headers", Whole),
                          [mw |-> "lower", pattern |-> Whole, excluded |-> {Exactly(<<"x">>)}],
                          Filtered("sameOrigin", Under(<<"api">>)), Filtered("session", Under(<<"api">>)),
                          [mw |-> "csrf", pattern |-> Under(<<"api">>), excluded |-> {Under(<<"api", "open">>)}]>>,
            recovers |-> TRUE, routes |-> MCRoutes, cors |-> CorsOf({"listed"}, FALSE, TRUE, FALSE, FALSE),
            scoped |-> <<[mw |-> "auth", pattern |-> Under(<<"api">>), excluded |-> {Exactly(<<"api", "hook">>)}]>>]
Crossing(cors) ==
    [filters |-> <<Filtered("cors", Whole), Filtered("limit", Exactly(<<"api", "me">>))>>,
     recovers |-> FALSE, routes |-> MCRoutes, cors |-> cors,
     scoped |-> <<Filtered("admin", Exactly(<<"api", "me">>))>>]
\* An application that registered nothing.
Silent == [filters |-> <<>>, recovers |-> FALSE, routes |-> {}, scoped |-> <<>>,
           cors |-> CorsOf({}, FALSE, FALSE, FALSE, FALSE)]
MCSites == {Cookies, Silent, Crossing(CorsOf({"listed"}, FALSE, TRUE, TRUE, FALSE)), Crossing(CorsOf({"listed"}, FALSE, TRUE, FALSE, TRUE))}
             \cup {Crossing(CorsOf(o, f, c, FALSE, FALSE)) : o \in {{}, {"listed"}, {"all"}}, f \in BOOLEAN, c \in BOOLEAN}

Verbs4 == {"GET", "POST", "OPTIONS", "DELETE"}
EveryCookie ==
    [method : Verbs4, path : {<<"api", "me">>, <<"API", "me">>, <<"api", "hook">>, <<"csrf">>, <<"x">>, <<"api">>},
     raw : {<<>>}, fetch : {"absent", "same-origin", "cross-site"}, origin : {"none", "own", "foreign"},
     referer : {"none", "foreign"}, preflight : {"none"}, asksHeaders : {"none"}, cookie : {"none", "live"},
     minted : BOOLEAN, token : {"none", "live"}, role : {"none", "user"}, bearer : {"none", "user"}]
\* Escaped paths, the raw one beside the decoded.
EscapedCookie ==
    {a \in [method : Verbs4, path : {<<"api", "open", "x">>, <<"API", "me">>, <<"api", "me">>, <<"api", "hook">>},
            raw : {<<"api", "open%2Fx">>, <<"API", "m%65">>, <<"api", "m%65">>, <<"api%2Fhook">>},
            fetch : {"absent"}, origin : {"own", "foreign"}, referer : {"none"}, preflight : {"none"},
            asksHeaders : {"none"}, cookie : {"live"}, minted : BOOLEAN, token : {"none", "live"},
            role : {"user"}, bearer : {"user", "admin"}] :
        <<a.path, a.raw>> \in {<< <<"api", "open", "x">>, <<"api", "open%2Fx">> >>, << <<"API", "me">>, <<"API", "m%65">> >>,
                              << <<"api", "me">>, <<"api", "m%65">> >>, << <<"api", "hook">>, <<"api%2Fhook">> >>}}
\* A referer is read where there is no origin, a bearer by the routes that want it, a role and a
\* token through the session a cookie names.
WithCookies == {a \in EveryCookie : (a.referer = "foreign" => a.origin = "none")
                                     /\ (a.cookie = "none" => a.role = "none" /\ ~a.minted)
                                     /\ (a.bearer = "none" => a.path \in {<<"api", "me">>, <<"API", "me">>})}
                 \cup EscapedCookie
AnyElsewhere ==
    [method : Verbs4, path : {<<"api", "me">>, <<"x">>, <<"api", "z">>}, raw : {<<>>}, fetch : {"absent"},
     origin : {"none", "own", "listed", "foreign"}, referer : {"none"}, preflight : {"none", "GET", "DELETE"},
     asksHeaders : {"none", "other"}, cookie : {"none", "live"}, minted : {TRUE}, token : {"none"},
     role : {"none", "user", "admin"}, bearer : {"gone", "user", "admin"}]
\* A preflight is an OPTIONS, which brings no cookie; a bearer's role is read by one route.
FromElsewhere ==
    {a \in AnyElsewhere :
        /\ (a.preflight # "none") => (a.method = "OPTIONS" /\ a.cookie = "none" /\ a.role = "none")
        /\ (a.preflight = "none") => (a.asksHeaders = "none")
        /\ (a.bearer # "user") => (a.path = <<"api", "z">>)
        /\ (a.path = <<"api", "z">>) => (a.method = "POST" /\ a.role = "none")}
MCAsks == [s \in MCSites |-> IF s = Cookies THEN WithCookies ELSE FromElsewhere]

---------------------------------------------------------------------------
(* RequestScope: sizes around every limit, forms that parse and that do     *)
(* not, uploads of one and two parts, and of one too many.                  *)
Sending(type, text, sound, parts, registers) ==
    [type : {type}, text : text, sound : sound, parts : parts, registers : registers]
UploadPart == [size : {1}, kind : {"good"}, field : {"file", "title", "unknown"}]
                \cup [size : {3}, kind : {"good"}, field : {"file"}]
                \cup [size : {1}, kind : {"refused"}, field : {"file"}]
OneUpload == [size |-> 1, kind |-> "good", field |-> "file"]
MCPosted ==
    Sending("form", {3, 4, 5, 7}, BOOLEAN, {<<>>}, {TRUE})
    \cup Sending("other", {3, 5, 7}, {TRUE}, {<<>>}, {TRUE})
    \cup Sending("multipart", {1}, {TRUE}, UNION {{<<p>>, <<OneUpload, p>>} : p \in UploadPart}, BOOLEAN)
    \cup Sending("multipart", {1, 3, 4}, BOOLEAN, {<<OneUpload>>, <<OneUpload, OneUpload, OneUpload>>}, {TRUE})

---------------------------------------------------------------------------
(* QueryBuilder: what an application prepares and then builds on.           *)
MCStarts == {<<"Insert", "OnConflict">>, <<"Update", "Set", "Where">>, <<"Insert", "Values", "Columns">>,
             <<"Select", "GroupBy", "Rollup">>, <<"OrderByRaw", "OrderBy", "Window">>, <<"Join", "Having", "From">>,
             <<"Limit", "Offset", "Returning">>, <<"DistinctOn", "Cube", "GroupingSets">>}

---------------------------------------------------------------------------
(* The union.                                                               *)

TokenParked == interactive = FALSE /\ persistent = FALSE /\ boot = "up" /\ TokenInit
SaveParked == external = FALSE /\ SaveInit /\ row["order"].n = 0
ScanParked == scanned = [engine |-> "tsql", text |-> <<>>]
APolicy == CHOOSE p \in MCPolicies : TRUE
AnEntity == CHOOSE x \in Entity : TRUE
AnAsk == CHOOSE a \in FromElsewhere : TRUE
AccessParked == /\ policy = APolicy /\ entity = AnEntity
                /\ uc = [state |-> "authenticated", roles |-> {}]
\* Row filters are turned off.
SetupOff == [enabled |-> FALSE, guests |-> FALSE, ownership |-> FALSE, skip |-> {}, teams |-> {},
             custom |-> [r \in ReaderRoles |-> [spelled |-> "as is", filters |-> {}]]]
RowParked == setup = SetupOff /\ reader = [state |-> "unresolved", roles |-> {}, tenant |-> TRUE]
MemoParked == session = [id |-> 0, user |-> Nobody] /\ MemoInit
GuardParked == prepared = FALSE /\ GuardInit
BuilderParked == heap = <<>> /\ built = <<>>
RenderParked == asked = {}
BootParked == /\ dbFile = <<>> /\ surroundings = [reach |-> "up", storage |-> "memory"]
              /\ making = NoSource /\ connected = <<>> /\ dbStage = "up" /\ pings = 0 /\ dbFault = NoFault
APost == CHOOSE p \in MCPosted : p.type = "other"
RequestParked == posted = APost /\ RequestInit
HttpParked == site = Silent /\ ask = AnAsk /\ HttpInit

Init == /\ which \in Parts
        /\ IF which = "token" THEN TokenInit ELSE TokenParked
        /\ IF which \in Roots THEN SaveInit /\ (external => which = "order") ELSE SaveParked
        /\ IF which = "scan" THEN ScanInit ELSE ScanParked
        /\ IF which = "query" THEN \E q \in [engine : {"tsql", "postgres"}, tree : Queries] : queries = {q}
           ELSE queries = {}
        /\ IF which = "batch" THEN \E b \in Batches : batches = {b} ELSE batches = {}
        /\ IF which = "access" THEN AccessInit ELSE AccessParked
        /\ IF which = "rows" THEN RowInit ELSE RowParked
        /\ IF which = "memo" THEN MemoInit ELSE MemoParked
        /\ MemoryInit
        /\ LimitInit
        /\ IF which = "guard" THEN GuardInit ELSE GuardParked
        /\ IF which = "http" THEN HttpInit ELSE HttpParked
        /\ IF which = "request" THEN RequestInit ELSE RequestParked
        /\ IF which = "builder" THEN BuilderInit ELSE BuilderParked
        /\ IF which = "render" THEN \E a \in MCAsked : asked = {a} ELSE RenderParked
        /\ IF which = "boot" THEN BootInit ELSE BootParked

\* Only the part's own variables may change.
Alone(part) ==
    /\ which = part /\ which' = which
    /\ part # "token" => UNCHANGED tokenVars
    /\ part \notin Roots => UNCHANGED saveVars
    /\ part # "memo" => UNCHANGED memoVars
    /\ part # "memory" => UNCHANGED memoryVars
    /\ part # "limit" => UNCHANGED limitVars
    /\ part # "guard" => UNCHANGED guardVars
    /\ part # "http" => UNCHANGED httpVars
    /\ part # "request" => UNCHANGED requestVars
    /\ part # "builder" => UNCHANGED builderVars
    /\ part # "boot" => UNCHANGED bootVars
    /\ UNCHANGED <<scanVars, policyVars, accessVars, rowVars, renderVars>>

\* A behaviour saves, edits, loads and deletes one of the roots, a draft outside any transaction.
OnlySaves(root) == /\ \A e \in Roots \ {root} : UNCHANGED <<row[e], mem[e], slice[e]>>
                   /\ root = "draft" => UNCHANGED tx

\* The policies, texts, filters and renderings are questions: they have an answer and no steps.
Next == \/ Alone("token") /\ TokenNext
        \/ \E root \in Roots : Alone(root) /\ SaveNext /\ OnlySaves(root)
        \/ Alone("memo") /\ MemoNext
        \/ Alone("memory") /\ MemoryNext
        \/ Alone("limit") /\ LimitNext
        \/ Alone("guard") /\ GuardNext
        \/ Alone("http") /\ HttpNext
        \/ Alone("request") /\ RequestNext
        \/ Alone("builder") /\ BuilderNext
        \/ Alone("boot") /\ BootNext

Spec == Init /\ [][Next]_suiteVars
=============================================================================
