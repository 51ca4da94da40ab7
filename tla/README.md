# Formal models of gorgany

gorgany is a Go framework for web applications: sessions shared by the replicas
of an application, authentication, a service container, an HTTP stack, an ORM
with migrations for several SQL engines, scheduled jobs and an event bus. This
directory holds TLA+ models of its parts that act concurrently, fail halfway or
decide about data by rules that combine, the TLC runs that check them, and TLAPS
proofs of what matters most. All paths
are relative to the root of the repository (`src/`).

    tlc -config SessionMediator.cfg MCSessionMediator     # one run
    tlapm SessionMediatorProofs.tla                       # one proof module

`PROJECT.json` lists components, runs, mutants (a plausible bug for every
property, which the run must catch), the map from definitions to source lines,
findings, hazards and theorems.

## 1. The system

### What there is, and what can go wrong

| Component (source) | State it keeps | Operations | Talks to | What is hard | Correct when |
|---|---|---|---|---|---|
| Session store (`auth/session_mediator.go`, `auth/db_session.go`) | per replica: cache of entities, tombstones of revoked ids, owed revocations, an id lock; shared: the sessions table | GetSession, CreateSession, UpdateSession, DeleteSession, ClearExpired, retry of a failed DELETE | database, AuthStrategy, the `session:gc` job | replicas, lost answers, restarts, stale cache, capped maps, a clock | a revoked session never serves again; a failed revocation stays owed |
| Session record (`auth/db_session.go`, `db/orm/saver.go`) | columns with dirty marks, attribute log, version | setters, Snapshot, guarded UPDATE, re-read and reconcile | database | concurrent writers on one and on several replicas | no acknowledged change lost, no foreign change overwritten |
| Authentication (`auth/standard_auth_strategy.go`) | cookie of the browser, scope of the request | CurrentSession, rotation, Login, Logout, roll-back | session store, CSRF service | parallel requests of one browser, failures between two storage calls | a login is on a fresh identifier; an ended identity stays ended |
| Memory session store (`auth/memory_session.go`) | one map of shared entities, tombstones, one mutex | AddSession, UpdateSession, DeleteSession, ClearExpiredSessions | AuthStrategy | capped tombstones, time-guarded sweep | as the database store, without failures |
| Life cycle (`app/app.go`) | drain step, errors, signal | Run, serve, Shutdown | HTTP server, scheduler, bus, datasources | signals, several callers, deadlines | datasources close only when nothing is at work; the process ends |
| Scheduler (`job/scheduler.go`) | running flags, WaitGroup, context | Start, loop, dispatch, invoke, Stop | jobs, Shutdown | ticks racing with Stop, overlapping runs | one run at a time where asked; Stop waits for all |
| Event bus (`event/event_bus.go`) | subscribers, WaitGroup | Subscribe, Publish, PublishAsync, WaitAsync | everything that publishes | subscribers that publish, publishing during the drain | WaitAsync waits for all |
| Service container (`service/container.go`) | bindings, published instances, constructing flags, conditions | bind, Resolve, Make, Invoke | resolvers of the application | concurrent first use, circles, failing injection | one instance of a singleton; nobody waits for ever |
| Rate limiter (`http/middleware/rate_limit_*.go`) | token buckets by client, shared by middlewares | allow, sweep | HTTP | one sweep for several windows | a sweep is not noticed |
| Migrations, seeders (`command/db/migrate.go`, `seed.go`) | bookkeeping table, schema | up, down, seed | database | crashes between DDL and bookkeeping, two deployments, DDL that commits implicitly | a migration is applied once, in order |
| ORM (`db/orm`) | entities, the transaction of the caller | Find, Save, Delete, relations | database | a cascade of statements that stops halfway, lost answers, retries | a refusal writes nothing; a retry repeats nothing; rows agree with the entities |
| Token source (`db/sql/driver/sqlserver/azuread`, `db/sql/gorm/sqlserver/v2/connect.go`) | cached token, acquisition in flight, back-off, the record of a sign-in on disk | Token, renew, sign in, Connect, Close | Entra ID, connection pool | expiry, cancelled callers, close during renewal, restarts | one acquisition in flight; a person asked once; an outage not hammered |
| Query model, builder (`db/sql/core`, `db/sql/builder`) | a query, copied on write | one method per clause, Clone | ORM | sharing between copies | a builder never changes another one's query |
| Dialects (`db/sql/gorm/*/v2/dialect*.go`, `conditions.go`) | none | FormatQuery, FormatWhere, ... | builder, ORM, gorm | positional arguments, clauses an engine lacks | what is rendered is what was asked, and its arguments line up |
| Statement policies (`db/sql/core/readonly.go`, `db/sql/gorm/guard`) | the policy installed, the pools guarded | scan, refuse, Install | pools, gorm callbacks | text an engine reads in two ways, handles made before the installation | a read-only source executes no write, an external schema is not changed |
| Datasources (`provider/db_provider.go`, `db/sql/config`, `db/sql/driver/registry.go`, `data_source.go` of each engine) | the datasources by name | Parse, New, Register, Close | configuration, drivers, token source, guard | strictness across types, spellings and engines; failing halfway | a datasource is what its configuration says, or the boot stops |
| HTTP router and middlewares (`http/router`, `http/middleware`) | filters, routes | register, dispatch, recover | session store, limiter, access control | the order of filters, paths rewritten under way, panics | a handler runs behind every guard its path has |
| Request scope (`http/message.go`, `multipart_parser.go`, `model/file.go`) | the body's memo and caps, temp copies of uploads | Body, PostForm, FormFile, GetFiles, Parse, Write, Close | middlewares, handlers, the disk | several readers of one stream, failures between copies | the whole body or a refusal; no copy outlives its request |
| Access rules, row filters (`model/access_control.go`, `pagination.go`) | none | canReadField, GenerateDBFilters, ... | controllers, query builder | rules of several levels for one field, filters that fail | being known costs nothing; no restriction is lost |
| Identity memo (`http/context.go`, `model/access_control.go`) | one slot per request | resolve, memoise, drop | access rules, Login, Logout | goroutines of one request around a login | a decision is made on whom the request belongs to |
| Validation (`validator`) | none | rules, uniqueness | database | check before an unprotected write | |
| JWT, CSRF (`auth/jwt_*.go`, `auth/csrf_service.go`) | none; a token in the session | sign, parse, issue, verify | session store | | |
| Providers, console, mail, views, localisation, logging, utilities | read-only after boot | | | | |

Sessions come first: they are the only state that several processes share
through a database that may fail, and an error there is a session that outlives
its logout. Then shutdown, where four subsystems meet, and the container, which
every request enters. `PROJECT.json` says for each component what is modelled.

### How the modelled parts fit together

    browser --> AuthStrategy --> SessionMediator --> sessions table
                                  (SessionAuthority: what it promises)
                                 SessionRecord   --> one row of it
    signal  --> Shutdown (HTTP server, scheduler, event bus, datasources)
    request --> HttpDispatch (RateLimit, AuthStrategy) --> handler
                RequestScope (its body), IdentityMemo, AccessControl, RowFilters
                Container
    handler --> QueryBuilder --> SqlRendering --> SqlGuard (SqlScan, SqlPolicy) --> server
                OrmSave
    boot    --> DataSourceBoot (DataSourceConfig) --> TokenSource
    deploy  --> Migrate --> migrations table and schema

`AuthStrategy` uses the store through its promises only: an operation succeeds,
fails, or fails having had its effect. That a revoked identifier stays revoked,
which it relies on, is what `SessionMediator` shows. `SessionMediator` sees a row
as its expiry and is about which rows exist; `SessionRecord` sees one row as its
columns and is about who writes them. `MemorySession` is the other store an
application may choose. `HttpDispatch` asks the store, the limiter and the
strategy questions whose answers are choices there and the subject of their own
modules. `SqlGuard` sends texts by their class; which class a text is of is
`SqlPolicy`'s subject, and how it is split into tokens `SqlScan`'s. What a query
builder holds is rendered by `SqlRendering`.

## 2. Modules

**SessionAuthority** is the abstract specification of a session store: an
identifier is unborn, live or ended, `ended` is final, and once a revocation has
been reported as done the identifier has ended. Its actions are `Open`, `End`
and `Revoke`.

**SessionMediator** models replicas of `DbSessionMediator` with their caches,
tombstones and owed revocations over one table. `req[q].pc` is where a handler
is; an action is one critical section under the id lock, or one database call
with the memory update behind it. Every database call may succeed, fail, or
succeed and report a failure. `LockGet`, `CheckRevoked`, `Find*` are GetSession,
`LockCreate`/`Insert*` CreateSession, `LockUpdate`/`Update*` UpdateSession,
`LockDelete`/`Delete*` DeleteSession with `rememberTombstone`/`rememberPending`,
`StartSweep` to `EndSweep` ClearExpired, `Restart` the loss of a replica's
memory, `Tick` the clock. The `Authority` instance maps the table to
SessionAuthority. Decisions of the model: a heartbeat carries no value other
than the expiry; a caller whose AddSession of a fresh session failed drops it
(all callers do); `ClearCache` has no caller and is left out; a write that loses
against another version of the row is a failed or a repeated write here.

**SessionRecord** models `DbSessionEntity` on each replica: the user, the
attributes and the heartbeat (expiry and last activity: a mark without a value,
because they are written without a guard and decide nothing here) with their
dirty marks and the attribute log, `Snapshot`, the guarded UPDATE and the SELECT
that tells a conflict from a missing row, up to `Conflicts` re-reads with
`AdoptPersistedState` and replay of the log, and `AdoptPersistedMeta` after a
write. The branch `!hasPendingWrite -> return nil` of `persistReconciling`
cannot be reached (a pending write is set by every setter that leads there) and
is left out.

**AuthStrategy** models the requests of one browser, each at a storage call of
`CurrentSession`, `rotateSession`, `Login` or `Logout`. The browser's cookie
changes when a response arrives; responses arrive in any order. Whether a
rotation is due is a choice. An identity is named by the login that stored it.
`message.Context()` is memoised per request; when nothing was found it is looked
up again, as in the code. `Mint` can run out of identifiers: that is a bound.

**Shutdown** models the end of the server application: `serve`, `Shutdown` with
its first and later callers, the drain (`HttpDrained` to `Close`), the
scheduler's loops, dispatches and Stop, the bus's asynchronous subscribers and
WaitAsync. It begins when boot is done. Requests, jobs and subscribers may end,
panic (both look alike: the panic is recovered and the deferred calls run) or
never end. Hijacked connections and goroutines of the application are waited for
by nobody and are not in the model. `Signal` and `SecondSignal` are the first
and a later SIGTERM: the first restores the default action of the next.

**Container** models concurrent resolution. A goroutine's stack of calls of
`resolve` is explicit (`stack[t]`); a frame is in `getInstance` at the look
without the lock (`Find`, `Take`), in its critical section (`Lock`), waiting on
the condition, in `buildArgs` (`args`), in `fill`, or undoing a failure
(`Fail`). `wiring`, chosen initially, says what is bound and what needs what; it
does not change, because providers bind at boot. The reads of `concrete` without
the lock race with the writes under it: `Take` may find nil or half a value.
Make on a struct of the caller's, Init, and resolvers that panic are left out.

**Migrate** models processes of `db:migrate`. A migration is a number of
statements, of which `effect` counts how often each is in effect; `date` is the
table `migrations`. `PrepareUp` to `Commit` follow `up`, `applyPending` and
`applyMigration`, `PrepareDown`, `List` and `NextDown` follow `down`, which
shares the transaction. Where the engine rolls DDL back, statements and row wait
in the transaction (`open`, `written`) for the COMMIT, and the unique name makes
a second writer wait; otherwise both are there at once. Any database call may
fail (`Fail`), the process may die (`Crash`, and the server notices later), and a
COMMIT may be executed unheard. Each process has a list of its own: builds list
different migrations, and an upgrade of the framework inserts some ahead of the
application's. Two assumptions come from outside the code: ups overlap only with
ups of the same build and a down runs alone (`docs/DEPLOYMENT.md` has
`resource_group: production` for that), and the Dates increase. `db:seed` is an
up whose statements are rows, which every engine rolls back.

The modules from here on are checked together, by **MCSuite**: a behaviour picks
one of them, which runs by its own `Init` and `Next` while the others stay
parked. The state graph is the disjoint union of theirs; they share no variable
and no step.

**TokenSource** models `cachingTokenSource` with the connector above it. Times
are what is left of them, so `Tick` is the only clock. A caller is at the look
under the mutex, waiting for an acquisition, at the last resort or dialling; an
acquisition (`Slots` bounds how many are alive) is resuming, checking,
prompting, asking for a token, storing or publishing. `Restart` is a new process
with perhaps another configured username over the record file the last one left;
`Close` may come at any time; `GiveUp` is a caller's context. The credential may
fail at every call.

**OrmSave** models `Save` and `Delete`. A Save under way is a frame of `stack`;
the cascade pushes frames, and every statement is an action that may fail,
or succeed unheard. The relations of an entity are an acyclic graph given by
constants: `SaveRelations` has no protection against a cycle. The caller may
have a transaction, whose rollback restores the rows and not the entities in
memory, and may save again after a failure. What memory is then wrong about is
`unsure`, a ghost the properties excuse. A row holds the foreign keys that memory
had when it was written: `TakeUp` sets the key of a belongs-to relation in memory
after the row. A slice may hold its elements as values (`ByValue`), of which a Save
saves copies; what the slice's own element learns depends on whether the copies
share its metadata (`Sharing`).

**MemorySession** is one map under one mutex, so an operation is one action;
objects it has served stay shared with it, which is why `SetExpiry` is an action
of its own. **RateLimit** counts tokens in units of a window so that no
fraction is needed, and keeps beside each bucket what a store that never sweeps
would hold (`ideal`). **IdentityMemo** models the slot of one request with the
goroutines that resolve, memoise and decide, and the login or logout of another
goroutine: the key is taken, the slot read and the identity stored in separate
steps, because the code does them under separate locks or none.

**HttpDispatch** takes one request through the filters, in the order they were
registered, to chi's routing tree (external), the middlewares of the route and
its handler. `link` is the place in the chain, `written` the answers begun,
`holds` the session the request sees. Filters are asked about the decoded path as
it is when their turn comes, and `CaseSensitive` rewrites it; chi routes by the raw
path of a request that has one (`RoutePath`), and neither is the other. The failures
of the store, the limiter's answer and the handler's panic are choices.

**RequestScope** models the body of one request. The stream is what is left in
`R.Body` and the cap it stands under; `Body`, `PostForm`, `parseMultipart` and
whoever reads past the scope (`Bypass`) consume it by net/http's rules, which are
external. Sizes are small numbers around each limit. An upload's copy has a
temp file, a handle, a place where it is published; the disk may refuse at each
step (`Strikes`).

**SqlScan** splits a text into tokens with an engine's lexicon, where a unit is
a word, a quote, a bracket, a backslash or the mark of a comment, and compares
what the guard sees with a server that reads the same units one after the other,
under every setting it may have (`Settings`: by the quotes in which a backslash
escapes, three settings of MySQL). A unit means what the engines agree on: a
newline ends a line on each (at a form feed only the scan ends one, which
refuses more), and dashes are those that begin a comment. **SqlPolicy** applies
the read-only and external-schema rules to a sequence of tokens, with every word
the read-only rules refuse and one or two of each kind of the schema rules'. A
lock hint in a quoted spelling is left out: quoted names are names here.
Statements are built as trees that say what they do, and `Tokens` writes them
down: whether a refusal is right is known from the tree, and the rules see only
the tokens. **SqlGuard** is the same policy inside gorm: `Install` in three
steps (publish by compare-and-swap, guard the pool, register callbacks), handles
derived before or after it, and statements checked by the callbacks and by the
pool. A text is a class there.

**AccessControl** and **RowFilters** are functions of a configuration and a
caller, so their state is the question asked. Roles and fields are model values:
the code compares them without their case, and RowFilters' `spelled` keeps the
case where the lookup of a role depends on it. An entity that decides for itself
says of a user and of a visitor what it likes (`LevelOf`). A row filter is the set of rows
its predicate holds of, with what may be wrong about it; of a subquery, the rows it
leaves as it is written and those it would leave with the caller's attributes put in.

**QueryBuilder** holds the heap: a builder's query is a graph of cells, `cloneQuery`
copies all but what the code shares, and each clause method is what it does to
the clone. `WrittenAlone` makes the same calls on one query that nobody shares.
**SqlConditions** (conditions and the query value), **SqlPortable** (PostgreSQL
and MySQL) and **SqlServerDialect** render a query as a sequence of pieces with
arguments beside it; a placeholder remembers the value it was written for, which
the code does not, and that is what the arguments are compared with.
**SqlRendering** puts one query to all three; **MCSql** builds the queries. The
recursion of conditions and nested queries is by RECURSIVE operators.

**DataSourceConfig** decodes a `databases.<name>` map. A value keeps its type
(text, number, flag, list, nothing), because strictness is about types; spellings
of numbers are a table. **DataSourceBoot** takes each entry through what the
engine accepts, the sign-in method, opening, guarding, warming up, pinging and
registering; a panic ends the boot. A driver the application registered takes and
reports what it likes, or fails. **MCBoot** writes one to three keys over a
base of each engine.

The `*Proofs` modules hold the theorems: one each for SessionMediator,
SessionRecord, Container and Migrate; LifeCycleProofs, about DataSourceBoot and
Shutdown; AuthStrategyProofs, which has the
chain of HttpDispatch as well; RequestProofs, about AccessControl, RowFilters,
IdentityMemo, RequestScope and OrmSave, and what requests share: SqlGuard,
TokenSource, MemorySession and RateLimit; StatementProofs, about SqlScan and
SqlPolicy.

`MC*` modules name the model values, choose `Home` (which replica runs a
request), the symmetry sets, the wirings and the inputs. Definitions marked
`Fault` precede the action they distort; only the mutants use them.

## 3. Runs

| Run | Instance | Question |
|---|---|---|
| SessionMediator | 2 replicas, 3 requests, 1 id, time 0..1 | Does a revoked session stay revoked (`RevocationIsFinal`) and unserved to requests that came after the revocation was reported (`NotServedAfterRevocation`)? Do the replicas implement SessionAuthority (`ImplementsAuthority`)? |
| SessionMediatorLive | 1 replica, a request and the sweep, 2 ids, caps of 1 | Is a failed revocation discharged (`OwedIsDischarged`)? |
| SessionMediatorForgets | 2 replicas, time 0..3 | Violation: `FailedRevocationIsOwed` |
| SessionRecord | 2 replicas with one request each, 2 users, 2 keys, 5 operations | Do equal versions mean equal rows (`SameVersionSameState`), is an acknowledged change in the row (`AcknowledgedIsWritten`), and does a write keep what another replica wrote (`KeepsForeignChanges`)? |
| SessionRecordLost | two requests of one replica | Violation: `AcknowledgedIsWritten` |
| AuthStrategy | 2 requests, 3 identifiers, 2 faults | Is a login one row, and one the browser knows only when it succeeded (`LoginIsOneRow`), on an identifier nobody has seen (`LoginOnFreshId`), and does an ended identity stay ended (`EndedIdentityStaysEnded`)? |
| AuthStrategyLogout | 2 requests, no fault | Violation: `LogoutEndsIdentity` |
| AuthStrategyAbandon | 1 request, 1 fault | Violation: `AbandonedIsRevoked` |
| Shutdown | 1 request, 2 jobs (one overlapping), 2 runs, 2 subscribers, 1 application caller | Are the datasources closed only when nothing is at work (`ClosedMeansQuiet`), does exit 0 mean all was drained (`CleanExitDrained`), is every WaitGroup raised before it is waited for (`CountedBeforeWaited`), does the process end (`ExitsWithinDeadline`)? |
| Container | 3 goroutines, 3 bindings, 7 wirings, 1 failing resolver | Has a singleton one constructor at a time and one instance (`OneSingleton`); does nobody wait in a circle or for ever (`NoWaitCycle`, `ResolveReturns`)? |
| Migrate | 3 processes, 3 migrations of 2 statements, 1 failure, both kinds of engine | Do the table and the schema agree (`BooksMatchSchema`), or does a failure account for it (`TornOnlyByFailure`); are lists applied in order and to the end (`InListOrder`, `OkMeansDone`) and taken back newest first (`NewestFirst`)? |
| Suite | the parts below, each alone | The questions of the next table |

A run of MCSuite asks, part by part:

| Part | Instance | Property: question |
|---|---|---|
| token | 2 callers, 2 acquisitions, 2 accounts, tokens of two units | `AcquisitionsSound`: is a person asked once, and as the account configured, and is every waiter answered? `OutageNotHammered`: is an acquisition that brought nothing followed by a pause? |
| order, draft | an order with two tags and lines that belong to one of them; a draft that belongs to it too and holds its notes as values, outside any transaction; 2 saves, own and external schema | `RefusedWritesNothing`: has a refused Save written nothing? `SavedOnceAndWhole`: may a failed one be repeated, and do rows, join rows and the foreign keys in the rows end as the entities said when it began? |
| scan | every text of up to 4 units of each engine, 5 of words, quotes and backslashes | `GuardReadsAsServers`: is a text refused exactly when its server would run a refused word of it in some setting, or wait for more? |
| query, batch | every query of a WITH and a subquery over its kinds of query, every batch of 2 statements | `PoliciesHold`: is what writes (or changes the schema) refused however it is nested, separated or explained, and what only reads let through, unless it uses a name that is a refused word where words are refused? |
| guard | 2 installations, the opened handle and one derived at any time | `NothingRefusedIsSent`: does no statement reach the server that an installed policy refuses? |
| access | the rules of a type and a field over 3 roles, every caller and entity | `GrantsGrow`: are the unidentified granted nothing, and does logging in cost nothing that the entity does not decide itself? |
| rows | two filters per role out of 15 kinds, 3 rows, the spelling of roles | `RestrictionsApplied`: is no restriction lost between the configuration and the WHERE? |
| memo | 2 goroutines that decide, 2 users, 2 sessions | `DecidesOnCurrent`: is a decision made on whom the request belonged to while it was made? |
| memory | 3 ids, 2 tombstones, lifetime 2, retention 3 | `RevokedStaysOut`: does a revoked session stay out of the memory store for as long as the store promises? |
| limit | 2 clients with windows 3 and 7 on one store | `SweepUnseen`: is nobody let through for a sweep, or kept out? |
| http | a site of cookie sessions, one of cross-origin calls in each configuration, an empty one; every request over the signals they read, four escaped paths among them | `AnswersBehindGuards`: is a handler run only behind every guard its path has, and do 404, 405, credentials and tokens mean what they say? |
| request | a form, another body, a multipart form of up to 3 parts, sizes on both sides of each limit; 2 copies, 1 failure of the disk | `WholeOrRefused`: does whoever reads the body get all of it or a refusal? `UploadsReleased`: is an upload's temp copy there while it may be published and gone with the request, and what was published left alone? |
| builder | 8 prepared queries, up to 5 builders, every clause method | `BuildsWhatWasAsked`: does a builder go on saying what the calls that made it said? |
| render | the queries of MCSql | `RendersWhatWasAsked`: do arguments line up with placeholders, is nothing dropped on SQL Server, is a page the same rows on the three engines, and is a write rendered for no read-only datasource, at whatever depth of a query it stands? |
| boot | a base of each engine and one to three keys over it, in several types and spellings | `ConfiguredAsWritten`: is an accepted key in force, a refusal silent about secrets, a policy flag guarded, a token never in the clear, a datasource that is refused closed but in the two cases of section 5? |

Why the bounds suffice. *SessionMediator*: everything the code keys is keyed by
session id, and ids meet only at the caps, which the live run fills; three
requests allow a revocation, a writer and a reader, on two replicas. One tick of
the clock is much longer than the second between two retries and the minute
between two sweeps; `Lifetime = 0` makes a session expire within the bound.
*SessionRecord*: two writers, each with setters before and after its snapshot;
`MaxOps` bounds setters and writes together. With two requests on one replica the
bug of SessionRecordLost breaks all three properties, so the passing run has one
request per replica: it shows what holds between replicas.
*AuthStrategy*: three identifiers let a session be rotated and replaced while
another request still holds the first; two faults allow an operation and its
roll-back to fail. *Shutdown*: two dispatches of the same job and two
subscribers are what runs that may not overlap and publishing from a subscriber need; with
`Timed = {}`, an application that calls Shutdown without a deadline,
`ExitsWithinDeadline` does not hold (section 5 says why).
*Container*: three goroutines are a constructor that fails, a waiter that takes
over, and one that is woken behind it; the wirings cover every way in which two
bindings can need each other. *Migrate*: three processes are one that fails, one
that carries on beside or after it, and a down; three migrations let a build
insert one between two that are recorded, two statements let it fail halfway.

Bounds of the Suite. *token*: two callers and two acquisitions are one that is
cut off by `Close` or a caller's context and the one that takes over; a token of
two units passes through fresh, due and last resort. *order, draft*: one
relation of each kind, slices of pointers and of values, one entity whose key
the application sets and one without columns, `Limit = 2` so that two kept join
rows exceed it; a second Save is the retry. *scan*: four units hold a quote,
what escapes it, a word and its end; texts of any length are the theorem's.
*query*: a write nests in a CTE, in one of two CTEs, in a subquery or in both;
longer lists and batches are the theorem's. *guard*: two policies installed at
once, in any order around the derivation of a handle. *memory*: three
revocations over two tombstones fill and evict. *limit*: the sweep of the short
window meets the bucket of the long one in every phase of its refill. *request*:
three files on a limit of two, two copies published in two places. *builder*:
five builders let an origin, its clone and a query nested in both go on
independently. *render*: six bind parameters and two rows of a VALUES list stand
for 2098 and 1000, each reached and exceeded. *boot*: two keys that meet on one
engine are enough, as its cross-checks read at most three.

What the instances leave to the theorems or out: the run of SessionMediator does not
fill its caps (`RevocationFinal` holds for any), the token source has tokens of one
shape (`OneAcquisition` for any), the builder's property is about slices the builders
share among themselves and not about one that the caller keeps, and the rate limiter's
about middlewares that share a store.

TLC checks for deadlock except where the system may stop: SessionRecord has used
up its operations, the process of Shutdown has exited, and in Container every
goroutine has its answer (or, in the wiring `Knot`, waits for ever), and in
Migrate every process has ended. In the Suite a part may have nothing left to
do: a question has its answer, a request is over, a boot has stopped.

### Fairness

Safety runs use `Spec` without fairness, the Suite among them.
`SessionMediatorLive` assumes that the scheduled sweep runs and goes on (it is a
job of the application), that its turns at an id lock come (strong fairness of
`SweepRetry`/`SweepSkip`, whose guard another request's lock interrupts), and
that the database does not fail every retry (strong fairness of a succeeding
`Retry`); nothing is assumed of requests. `Shutdown` assumes that the
framework's own goroutines are scheduled and that deadlines pass, and nothing of
requests, jobs and subscribers. `Container` assumes that a goroutine that can go
on does: resolvers return.

## 4. What is proved

TLAPS checks these for every value of the constants, under the named ASSUMEs of
the modules: sentinels are not values, bounds are naturals, sets that are counted
are finite, and inputs have the shape the code gives them (the segments of a
route, the sizes of a part, the fields of a token). TLC evaluates each on the
run that uses the module. Three hypotheses ask more than that of whoever uses
the code, and stand before the theorems that need them: `OnePerReplica`,
`RewritesFirst` and `OneOwner`, below.

Every invariant named `...IInv` or `...Inv` here was given to TLC before it was
proved, and held on the instances of section 3.

**SessionMediatorProofs**: `TypeCorrect`, `RevocationFinal` (`[]RevocationIsFinal`)
and `Refinement` (`Spec => ImplementsAuthority`): any number of replicas,
requests, ids, any caps, including none. `RevocationIsFinal` is not inductive.
What makes it hold is who can create a row: `IInv` adds that a request can be on
its way to an INSERT only with an object it minted itself, that nobody else has
that identifier, that it never had a row, and that all other writes are UPDATEs
that find no row. Neither caches nor tombstones occur in the argument: they
make a revocation effective sooner, but a revoked row stays away without them.
In the refinement an INSERT is `Open`, the deletion of expired rows, a DELETE
whose answer is lost and a retried one are `End`, an acknowledged DELETE is
`Revoke`, and everything else is a stutter.

`NotServed` (`[]NotServedAfterRevocation`) is about caches, and there the
argument is the lock. `ServedIInv` adds that who works on an id holds the lock of
its replica (`HoldsItsLock`), so between a lookup's check for revocations and its
answer none is reported on that replica (`PassedTheCheck`); a revocation reported
elsewhere is remembered by what the table says, and a retry never starts from a
cached entity (`RetryIsUncached`). A tombstone that a capped map has evicted is
covered as well: the id is then not in the replica's cache.

**SessionRecordProofs**: `RecordTyped`, and under `OnePerReplica`
`VersionStandsForContents` (`[]SameVersionSameState`), `AcknowledgedIsInTheRow`
(`[]AcknowledgedIsWritten`) and `ForeignChangesKept` (`[][...]` of
`KeepsForeignChanges`), for any number of replicas, values, conflicts and
operations. The hypothesis is that the requests of one replica take turns on a
session object; without it the three are false, and SessionRecordLost shows why
(section 5). So what the version guard gives is exact: replicas are safe from one
another, requests of a replica are not. `RecordInv` relates each request's
snapshot, the copy of its replica and what that still owes the row (`Own`), and
says of every copy under the row's version that it agrees with the row but for
its own marks (`Fits`). A write gives the row a version nobody has yet, so
nothing is to be shown of the other replicas then (`StepKeeps`).

**AuthStrategyProofs**: `AuthTyped`, `LoginOneRow` (`[]LoginIsOneRow`),
`FreshIdIsAuthenticated` (`LoginOnFreshId`) and `EndedStaysEnded`
(`EndedIdentityStaysEnded`), for any number of requests, identifiers and faults.
An identity moves: it is in one row or in the hands of one request
(`OneCarrier`). That needs that the row a request will revoke holds what the
request read or nothing, which holds because a row is written only by the
request that creates it, before any response has shown its id (`NewIsOwn`).

`OnlyBehindGuards` (`[]AnswersBehindGuards`), for any registrations of filters,
middlewares and routes and any request, under `RewritesFirst`: the filter that
lowers a path's case is registered before every same-origin, CORS or CSRF filter
that does not cover all paths. Of a request that chi routes by a raw path it
says the same of every filter that covers the decoded one, and of one that
covers the raw path and not the decoded one nothing (section 5). The order of
filters is the application's, and a filter is asked about the path as it is when
its turn comes: one passed over for `/API/x` would cover the `/api/x` under
which the handler is found under. `HttpIInv` says that every filter behind the
request that covers its path has kept its promise, and a promise kept is kept
for good, because later filters only add to the session the request sees and its
CORS headers (`PromiseStays`). That a 405 is never said of a path the method has
needs that chi picks a route whenever one fits, the least of a set of numbers
(`NonePicked`).

**ContainerProofs**: `ContainerTyped` and `OneOfEach` (`[]OneSingleton`), for any
wiring, circles included, any number of goroutines and of failures. `ContInv`
says what the constructing flag stands for: exactly one call of one goroutine
that builds the binding (`Flagged`); while that call still resolves arguments
nothing is published (`Unpublished`), so what is published is never replaced.
`NobodyWaitsInACircle` (`[]NoWaitCycle`): an orderly wiring gives the bindings
levels, which do not rise along a stack of calls and fall past a call that takes
arguments (`Descends`). In a circle of waits those for a binding of the lowest
level would therefore be waits for somebody who fills its fields. But what is
filled is published, and `getInstance` looks for that before it goes for the
lock, so only goroutines that had gone for it before can wait, and the one that
fills goes for nothing: these waits alone make no circle (`Ahead`, `CallsInv`).

**LifeCycleProofs**. *Shutdown*: `TypeCorrect`, `ClosedQuiet`, `ExitDrained`,
`OverlapFree`, `WaitGroupsSound`. `IInv` adds `Counted` (each WaitGroup equals
the number of goroutines it stands for), `Flagged` (a running job that may not
overlap has its flag set) and `Ordered`: once the drain has begun no request
starts; unless an error was collected there is none left when the scheduler is
stopped, nothing left of the scheduler when the bus is waited for, and then only
subscribers can publish, each of which is counted while it runs. This order
(`app/app.go`, the comment on `shutdown`) is the whole reason why the
WaitGroup's zero can be trusted. *DataSourceBoot*: `BootedAsWritten`
(`[]ConfiguredAsWritten`), for any configuration files, drivers and sign-in
methods, under `EntriesAssumption`: what the constructor of a connection returns
that the application adds itself has passed the checks of its engine, as each
engine's `NewDataSourceWithConfig` does before it returns. The argument follows
a key. `ParseTook` says that what was accepted has every known key decoded and
no other; `PostgresFine`, `MysqlFine` and `ServerFine` read off the lists of
checks what an accepted configuration cannot contain (`Verdict` is the first
check that refuses, so "fine" is all of them); `KeyInForce` goes key by key from
the configuration to the connection string, the pool, the credential and the
guards. `BootIInv` carries this through the steps: whatever is being made or is
registered is what `opening` computes from a configuration that was accepted
(`Accepted`), with its guards added, logging and dialed as the steps behind it
say (`Finished`, `Begun`); a guard step that fails, a warm-up, SQL Server's ping
or a policy check closes it, and what is left behind otherwise is `LeftBehind`.
The attempt to prove it showed that a parameter of the connection string may be
set by a key and again by an option, where PostgreSQL and MySQL let the option
win: `SetByOption` in `Overlooked`, and configurations of the run that repeat a
key. `ParsedAlike` is the last conjunct by itself: the map Viper hands over
decodes like the map as written. `Overlay` replaces TLC's `@@`, of which the
prover has no definition.

**MigrateProofs**: `TypeCorrect`, `BooksMatch` (`[]BooksMatchSchema`),
`AppliedInListOrder` and `OkLeavesAllDone`, for any number of processes,
migrations, statements and failures. `IInv` adds who may have a transaction open
(`Transactions`), that of those which have written the row of one migration only
one is open and that an up found no row there (`Exclusive`), and that a down
works alone on rows that are there (`DownAlone`): so a COMMIT adds statements
where they were not in effect and takes them away where they were. `Passed` adds
that what an up has come past is recorded and stays so while any up is at work.

`TornByFailure` (`[]TornOnlyByFailure`) is about engines that commit DDL: table
and schema differ about a migration only where a run is in the middle of it, or
has ended there (`TornInv`). `TakenBackNewestFirst` (`NewestFirst`) rests on the
clock and on ups that work from one list: nothing is dated ahead of a row that is
there, so the row with the greatest date is the one applied last (`OrderInv`).

**RequestProofs**. *AccessControl*: `KnownIsNeverLess` (`GrantsGrow`), for every
policy and every entity: where one that decides for itself answers alike for a
visitor and for a user who is not a refused owner, the user keeps what the
visitor had; `SetsApart` is the exact list of what else an entity may say, and
TLC finds each of its parts needed. *RowFilters*: `RestrictionsKept`
(`RestrictionsApplied`), for every configuration, with `OutOfReach` for what a
filter with a subquery loses. Both are about operators; their state is the
question asked. *IdentityMemo*: `DecisionsCurrent` (`[]DecidesOnCurrent`), for
any goroutines: the ids of a request's sessions only grow, so what is stored
under the current key was found for it. *RequestScope*: `AllOrNothing`
(`[]WholeOrRefused`) and `CopiesReleased` (`[]UploadsReleased`), for any limits,
bodies and failures of the disk: `BodyIInv` says what the memo stands for until
somebody reads past the scope, `UploadIInv` that each temp copy has one owner.
*OrmSave*: `RefusedBeforeAnyWrite` (`[]RefusedWritesNothing`), for every graph
of entities, cyclic ones included: every Save of a cascade is of something its
first one reaches, what is reached from there is reached from the first, and the
first asked about all of it. `Reached` is the least set closed under relations,
not an iteration, so that this can be said without induction.
`RepeatableAndWhole` (`[]SavedOnceAndWhole`), under `OneOwner`: what one entity
has is nobody else's, since the child's row has one column for the key, and of
two that list it the one saved last takes it. `WholeIInv` keeps an account of
the cascade. For each Save under way it says what was written of the relations
it has left behind: the children that carry its key, the foreign key taken from
what it belongs to, the join rows that are linked; and that the rows it has
written carry the belongs-to keys memory had when the whole Save began
(`UpWritten`). It also says why each Save was begun, because a child's row
carries the key only when its own Save is past its write. `Keeps` is what no
step of a cascade may undo, and it lets the account of every outer Save stand
while an inner one works, so each action is a matter of the Save on top.

Of what requests share, *SqlGuard*: `NothingRefused` (`[]NothingRefusedIsSent`),
for any handles and installs: an install publishes, guards the pool and promises
last, so a pool that owes a policy checks it, also for handles made before it.
*TokenSource*: `OneAcquisition` (`[]AcquisitionsSound`) and `OutagesAreWaitedOut`
(`OutageNotHammered`), for any callers, accounts and tokens: an acquisition that
reaches the prompt is the first the source ever had, because whoever is signed in
is known to the source or was signed in by the one in flight. *MemorySession*:
`RevokedIsOut` (`[]RevokedStaysOut`), for any retention and cap: the most recent
revocations, as many as the cap allows, have a tombstone.
*RateLimit*:
`NobodyCanTell` (`[]SweepUnseen`), for any bursts and windows of which one is the
longest: a bucket nobody has used is refilled while it idles, and a sweep waits
for the longest window, so what it drops was full.

**StatementProofs**. *SqlScan*:
`ScanAsServers` (`[]GuardReadsAsServers`), for every set of texts, of any length:
the scan jumps from a unit to the end of what it opens and keeps a count of
conditional comments, while a server goes unit by unit. Where a literal, a comment or a
dollar quote ends is found from the end of the text backwards for what doubles its
quote (`LiteralEndsRight`) and forwards for what counts a depth (`CommentFrom`);
between the two places the server is inside and runs nothing (`Skipped`).
`ScanRight` carries this along the scan, so `ScanFindsWhatRuns` holds under either
setting. A guard that reads twice is right about both settings (`GuardsRight`),
and one that reads once too, because no unit escapes in a text without a
backslash (`NothingEscapes`). MySQL has a third setting, ANSI_QUOTES, under which a
backslash escapes in '...' and not in "...": a text with one kind of quotes is read
under it as under one of the other two, and a text with both is not asked about there
(`BothQuotes`). Induction is by sets of numbers without a least element,
one for each recursive function, and says of a function only that it goes on as
its definition does.
*SqlPolicy*: `PoliciesAreKept` (`[]PoliciesHold`), from `ReadsOnlyHolds` and
`SchemaKeptHolds`: for queries whose WITH lists and batches whose statements are of
any number, where the run enumerates lists and batches of two. `QueriesAssumption`
and `BatchesAssumption` only say of what the trees are made: plain common table
expressions, a query in parentheses that is no DELETE but behind a WITH of its own
(nothing else is SQL), and a batch that another engine than SQL Server gets with a
";" between its statements (no other runs it without).
What a query or a batch is written with is a flattened sequence: its parts lie one
behind the other (`Laid`, from the fold's recurrence by `ScanUp`) and each stands
where it was put (`Stands`). A query: an INTO, a FOR UPDATE or a call is seen
wherever it stands (`HarmSeen`); when there is none, each common table expression is
six words long, so the list is refused from the last one up exactly when one of them
or the query behind it is a DELETE (`CteRefused`, `ListVerdict`), and for a query in
parentheses the WITH behind the parenthesis asks again. What only reads has none of
the words, phrases and shapes that are refused (`Quiet`, `ReadPasses`), unless it names
a column as one of the words: that is refused in a raw text and, on SQL Server, in what
is rendered, and passes where only the shape is asked (`NamedAsKeyword`). A batch:
whether a place is refused depends on the statement it is in, because what is looked
at ahead of it or behind it is the statement's own, or goes on with no comma (`Sound`,
one lemma for each kind of statement); so statements in a row are refused for one of
them (`TsqlVerdict`), and a ";" cuts exactly between two (`ApartVerdict`).

Only model-checked:

* liveness (`OwedIsDischarged`, `ExitsWithinDeadline`, `ResolveReturns`) and
  anything with ENABLED, which this prover cannot do;
* `BuildsWhatWasAsked` and `RendersWhatWasAsked`: they are about operators that
  recurse over queries inside queries and conditions inside conditions (RECURSIVE).
  Induction over a text's positions or a list could be done by hand, as for SqlScan
  and SqlPolicy; over trees it is out of the prover's reach, so these are checked
  over the enumerated inputs.

## 5. What the code does otherwise than it says

Four runs end in a violation, each of something the repository says:

* **SessionMediatorForgets.** `rememberPendingLocked` keeps the deadline of an
  entry that is already there. If another replica has slid the session since,
  the second failed revocation is swept at once: neither refused nor owed.
* **SessionRecordLost.** `AdoptPersistedMeta` clears the mark of a change that
  another request of the replica made after the snapshot; the change is lost,
  and the request is told it was written.
* **AuthStrategyLogout.** A logout during a rotation finds no session, reports
  success, and the rotation stores the identity under a new identifier.
* **AuthStrategyAbandon.** A rotation whose last write fails leaves a stored,
  authenticated session that nobody revokes.

Three observations that contradict nothing written, kept under hazards: a
shutdown that the application begins without a deadline is not bounded by
`app.server.timeout.shutdown`, although a signal arrives (`docs/DEPLOYMENT.md`
describes the bound for the one a signal begins); the container hands out a
published singleton before its fields are injected to whoever comes second; and
singletons whose resolvers need each other make two goroutines wait for ever,
where one goroutine would be told of the circle.

A fourth is a comment that is too wide: `command/db/migrate.go:365` says of a
`down` that a failure cannot leave schema and row disagreeing. On an engine that
commits DDL by itself it can, as the comment on `applyMigration` says of `up`.
The Migrate run shows what does hold there, `TornOnlyByFailure`: the two disagree
only about a migration in the middle of which a run has ended.

Others were met in the new parts. Each is what the models do as well, so no
property contradicts it:

* **Access rules** (`model/access_control.go`). Field roles and type roles that
  have none in common leave the field open to everyone, where the comment says
  field roles can only restrict. `Deny` is not read by `canReadField`,
  `validateFieldAccess`, `validateDomainLevelAccess`, `canAccessEntityType` and
  `inheritedFieldPermissions`, where `evaluateOperationRule` is said to be what
  every decision surface goes through. `GetReadableFieldsForCollection` ignores
  owner rules. `field_filtered_dto.go` compares lower-cased keys with Go's names.
  An entity is asked about the caller (`GetOwnershipInfo`), so it may let a visitor
  in by its level and refuse the user who owns it, or is of another level:
  `SetsApart` in the property.
* **Row filters** (`access_control.go`, `pagination.go`). The joins of
  alternatives are lost; `in` and `not in` are dropped when the value is not a
  string; a lower-case `or` is valid and means AND. `model/rbac_sql_examples.md`
  and `model/complex_rbac_example.yml` name the caller's attributes in the
  `where` of a subquery, where `processFilterWithUserContext` neither puts them
  in nor refuses them; a raw predicate or a join beside a subquery is not put
  beside it in the query. The property holds such a filter to its subquery as
  written (`OutOfReach`) and every other to all of what it says.
* **Statement policies** (`readonly.go`). The comment at 77-82 says that the second
  reading covers MySQL's ANSI_QUOTES as well as NO_BACKSLASH_ESCAPES, and that either
  only makes the guards refuse more. Under ANSI_QUOTES a backslash escapes in one kind
  of quotes only, which is neither reading: of a text with both kinds the guard's answer
  is not that server's, and the property leaves those texts out under that setting.
* **A logout's memo** (`standard_auth_strategy.go`). A resolution begun before
  the logout may be memoised after it; `DecidesOnCurrent` excuses that.
* **Router.** Filters and their excludes, and `methodsForPath` behind 404 and
  405, are asked about `URL.Path` (`gorgany.go:134,396,401`), and the
  case-sensitive middleware rewrites only that; chi routes by `URL.RawPath` when
  a request has one. So for an escaped path a filter may be passed over that
  covers the path routed, and 404 and 405 are about another path than the one
  routed: `OutOfSight` in the property, and the condition on `RoutePath` in its
  second half. `Allow` names the methods of the first pattern that matches. A
  filter's `/a/**` does not cover `/a`, a route middleware's does. A panic after
  the answer began appends a second body.
* **Body and uploads** (`http/message.go`, `model/file.go`). The memo of `Body`
  makes the body survive other readers only if `Body` came first: after `FormFile`
  or a third party's `ParseForm` it is empty, without an error. A form that could
  not be parsed is refused once, and empty to who asks again. A `Write` that fails
  while it moves a published file leaves a path at which no later `Write` succeeds. A
  `Close` whose disk refuses forgets the temp copy.
* **Rendering.** PostgreSQL leaves `WHERE` standing when every condition renders
  empty, and panics on a nil condition in HAVING. PostgreSQL and MySQL drop CTEs,
  LIMIT and ORDER BY of an UPDATE or DELETE without a word, do not check JOIN ON
  conditions, and write a UNION after ORDER BY and LIMIT; `Query.Windows` is
  rendered by neither. MySQL's rewriting of ILIKE reaches literals. `SaidOrRefused`
  is therefore stated of SQL Server, whose dialect says it of itself.
* **Datasources.** The remedy `unknownKeyError` gives for an application's own
  key (move it under `properties`) is refused by `parsePool`. MySQL's DSN is
  said to escape its parts and writes them raw; it drops a password without a
  username and takes the last of two spellings of an option. An option that
  repeats a key of ours wins over it without a word on both, however the two
  disagree (`sslmode` beside `ssl`, `database` beside `db`). PostgreSQL and
  MySQL ignore negative lifetimes. The password of a sign-in method that the
  application registered is accepted and handed to nobody.
  `prefer_simple_protocol` and `allow_unfaithful_upsert` are taken and ignored
  by the engines they are not for (`config.go:75-83` says so of the second).
  `Overlooked` in DataSourceBoot lists all of these, and no other key is exempt.
  When gorm's own ping of PostgreSQL or MySQL fails, the constructor returns and
  the pool gorm had opened stays open (`data_source.go:84-86` of PostgreSQL,
  `:101-103` of MySQL; gorm closes it itself when MySQL does not say its
  version); a datasource whose name is taken stays open as well; and when a boot
  stops, so do the datasources it had registered before (`db_provider.go:147`).
* **ORM.** The foreign key of a belongs-to relation is learned after the entity's row
  has been written (`saver.go:277`, then `relation.go:110-136`), though
  `relation.go:114` says that the related domain is saved first: the row has the key
  only after the next Save, and an entity with no other reason to be saved again never
  gets it there. `SavedOnceAndWhole` therefore compares the row with the key memory had
  when the Save began. Elements that a many-to-many slice holds as values are inserted
  again by every Save unless they bring a key of their own, as what the copy learned is
  lost with it; one whose metadata is shared is taken for loaded without a key, and the
  next Save fails on it. `SaveRelations` does not end on a cycle of relations.
  Preloading a shared belongs-to target gives it to one of the entities only.
* **Container.** A pointer type bound only under a name is resolved without one:
  the lookup dereferences nil under the container's mutex.
* **Flash data** (`http/message.go`). Another request of the browser between a
  redirect and the page that shows its flash marks it used and clears it.

## 6. What is not modelled, and what could come next

Not modelled, because there is no state or decision in it that a model would
say more clearly than the code: signing and parsing of JWTs (a library's),
binding of values to structures and content negotiation (reflection and text),
the static, SPA and bulk controllers (files, or one query), count queries and
the verification of models (a rewriting of one query, a comparison with a
table), the schema diff (DDL in a transaction that is always rolled back), the
dispatch of console commands, rules of validation over one value, mail, views,
localisation, logging and utilities. Preloading is left out because it is a
sequence of reads whose result is assigned by reflection.

Left out of modelled parts: `ClearCache` of the mediator, which has no caller;
names, rebinding and panics in Container; flash data and cookies of the HTTP
message; a cycle of relations in OrmSave. What the database, chi, net/http and
azidentity do is modelled as far as the code relies on it and marked external in
`PROJECT.json`.

Next:

1. Rendering: what `SqlPortable` and `SqlServerDialect` say, restated over lists
   of pieces with bounded nesting, so that the prover can follow them.
2. Container with names and panics, flash data in a session shared by two
   requests, count queries beside the page they count.
