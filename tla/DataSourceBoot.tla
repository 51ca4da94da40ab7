--------------------------- MODULE DataSourceBoot ---------------------------
(***************************************************************************)
(* From the configuration to the open datasources: what each engine takes  *)
(* of a typed configuration and what it refuses, the sign-in method, the   *)
(* steps in which a connection is opened, guarded and registered, and the   *)
(* closing of all of them (provider/db_provider.go, db/sql/driver/registry.go,*)
(* the data_source.go of each engine).                                     *)
(***************************************************************************)
EXTENDS DataSourceConfig, FiniteSets

CONSTANTS Drivers,       \* the drivers whose packages the binary imports
          SignIns,          \* the token methods an authenticator is registered for
          BootConfigs       \* [file: <<entry, ...>> in name order, those the application adds last,
                            \*  world: whether servers answer, and where sessions are kept]
NoSource == [state |-> "none", tokens |-> "none"]
NoFault == [at |-> "none", shows |-> {}]

VARIABLES dbFile,           \* the entries of this boot
          surroundings,     \* whether servers answer, and where sessions are kept
          making,           \* the datasource being built, or NoSource
          connected,        \* DBContext.dbConnections: name -> datasource
          dbStage,          \* what happens next to it
          pings,            \* pings of this connection
          dbFault           \* what stopped the boot

bootVars == <<dbFile, surroundings, making, connected, dbStage, pings, dbFault>>

---------------------------------------------------------------------------
(* Hosts (config/azure.go).  A host is a list of names with what a          *)
(* connection string attaches to one: a protocol, a port, an instance.      *)

Zones == ".database.windows.net" :> "public" @@ ".database.usgovcloudapi.net" :> "usgov"
Named(label, zone) == [label |-> label, zone |-> zone]
HostAlone(names) == [names |-> names, attached |-> FALSE]
HostNames == "db.local" :> HostAlone(<<Named("db", ".local")>>)
          @@ "X.Database.Windows.Net." :> HostAlone(<<Named("x", ".database.windows.net")>>)
          @@ "x.database.usgovcloudapi.net" :> HostAlone(<<Named("x", ".database.usgovcloudapi.net")>>)
          @@ "database.windows.net" :> HostAlone(<<Named("", ".database.windows.net")>>)
          @@ "tcp:x.database.windows.net,1433" :> [names |-> <<Named("x", ".database.windows.net")>>, attached |-> TRUE]
HostOf(host) == IF host \in DOMAIN HostNames THEN HostNames[host] ELSE HostAlone(<<Named(host, "")>>)
AzureNames(host) == SelectSeq(HostOf(host).names, LAMBDA n : n.zone \in DOMAIN Zones /\ n.label # "")
IsAzureSQLHost(host) == AzureNames(host) # <<>>
AzureCloudOf(host) == IF IsAzureSQLHost(host) THEN Zones[AzureNames(host)[1].zone] ELSE "public"

---------------------------------------------------------------------------
(* Postgres and MySQL.                                                      *)

Sent(params) == [p \in {q \in DOMAIN params : params[q] # ""} |-> params[p]]
refuseUnsupported(c) == <<Reject(c.instance # "", "instance"), Reject(c.auth.method \notin {"", "sql"}, "auth"),
                          Reject(setAuthKeys(c.auth) # {}, "auth")>>
\* Names that cannot stand in a DSN.
Misnamed == {"", "a b", "app name", "user id", "change password"}
badNames(c) == Reject(DOMAIN c.options \cap Misnamed # {}, "options")

SetsReadOnlyItself == {"-c default-transaction-read-only=off"}
asksForReadOnlyTransactions(c) ==
    /\ c.read_only
    /\ \A o \in DOMAIN c.options :
          /\ Lowered(o) # "default_transaction_read_only"
          /\ ~(Lowered(o) = "options" /\ c.options[o] \in SetsReadOnlyItself)
          /\ ~(Lowered(o) = "target_session_attrs" /\ Folded(c.options[o]) \in {"read-write", "read-only"})
postgresDSN(c) ==
    Overlay(Sent(c.options),
         Overlay(IF asksForReadOnlyTransactions(c) THEN [default_transaction_read_only |-> "on"] ELSE NoEntries,
              Sent([host |-> c.host, dbname |-> c.db, sslmode |-> c.ssl, search_path |-> c.search_path])))

Canonical == [charset |-> "charset", readtimeout |-> "readTimeout", parsetime |-> "parseTime", tls |-> "tls"]
canonicalDSNParam(o) == IF Lowered(o) \in DOMAIN Canonical THEN Canonical[Lowered(o)] ELSE o
\* Of two spellings of a parameter the last in lexical order is kept: the lower-case one.
mysqlDSN(c) ==
    LET named == {canonicalDSNParam(o) : o \in DOMAIN c.options}
        spelling(p) == LET all == {o \in DOMAIN c.options : canonicalDSNParam(o) = p}
                       IN  IF all \ DOMAIN Capitals # {} THEN CHOOSE o \in all \ DOMAIN Capitals : TRUE
                           ELSE CHOOSE o \in all : TRUE
    IN  Overlay([p \in named |-> c.options[spelling(p)]],
             Overlay(Sent([tls |-> c.ssl]),
                  [parseTime |-> "true", charset |-> "utf8mb4", collation |-> "utf8mb4_unicode_ci"]))

\* A pool setting is applied when it is positive; zero leaves the driver's default.
applied(p) == [s \in DOMAIN p |-> IF p[s] > 0 THEN p[s] ELSE 0]
\* SQL Server has defaults of its own, and never lets more idle than may be open.
effectivePool(p) ==
    LET open == IF p.maxopenconnections = 0 THEN 10 ELSE p.maxopenconnections
        idle == IF p.maxidleconnections = 0 THEN 5 ELSE p.maxidleconnections
    IN  [p EXCEPT !.maxopenconnections = open, !.maxidleconnections = IF idle > open THEN open ELSE idle,
                  !.connectionmaxlifetime = IF @ = 0 THEN 1800 ELSE @,
                  !.connectionmaxidlelifetime = IF @ = 0 THEN 300 ELSE @]

---------------------------------------------------------------------------
(* SQL Server: how it signs in (auth.go).                                   *)

AnyToken == {"scope", "login_timeout"}
Person == {"tenant_id", "client_id", "token_cache", "authentication_record_path"}
tokenMethodRules ==
    [interactive |-> Person \cup {"redirect_url"}, device_code |-> Person,
     azure_cli |-> {"tenant_id"}, azure_default |-> {"tenant_id"},
     service_principal |-> {"tenant_id", "client_id", "client_secret", "certificate_path",
                            "certificate_password", "send_certificate_chain"},
     managed_identity |-> {"client_id", "resource_id", "object_id"},
     workload_identity |-> {"tenant_id", "client_id", "token_file_path"}]

checkServicePrincipal(a) == \/ "" \in {a.tenant_id, a.client_id}
                            \/ (a.client_secret = "") = (a.certificate_path = "")
                            \/ a.certificate_path = "" /\ (a.certificate_password # "" \/ a.send_certificate_chain)
checkTokenCache(a) == a.authentication_record_path # "" /\ a.token_cache # "persistent"
checkManagedIdentity(a) == Cardinality({f \in {"client_id", "resource_id", "object_id"} : a[f] # ""}) > 1
extra(method, a) == CASE method = "service_principal" -> checkServicePrincipal(a)
                      [] method \in {"interactive", "device_code"} -> checkTokenCache(a)
                      [] method = "managed_identity" -> checkManagedIdentity(a)
                      [] OTHER -> FALSE

authMethodOf(c) == IF c.auth.method = "" THEN "sql" ELSE c.auth.method
checkSQLLogin(c) == <<Reject(setAuthKeys(c.auth) # {}, "auth"), Reject(c.username = "", "username"),
                      Reject(c.password = "", "password")>>
checkToken(c, method) ==
    <<Reject(c.password # "", "password"),
      Reject(setAuthKeys(c.auth) \ (tokenMethodRules[method] \cup AnyToken) # {}, "auth"),
      Reject(extra(method, c.auth), "auth")>>
resolveAuth(c) == IF authMethodOf(c) = "sql" THEN checkSQLLogin(c)
                  ELSE (IF authMethodOf(c) \in DOMAIN tokenMethodRules THEN checkToken(c, authMethodOf(c)) ELSE <<>>)
                       \o <<Reject(authMethodOf(c) \notin SignIns, "auth")>>

\* What a credential is built from (azuread/credentials.go; the token source takes the rest).
CredentialReads(method, a) ==
    AnyToken \cup
    CASE method = "interactive" -> {"tenant_id", "client_id", "redirect_url", "token_cache"} \cup
              (IF a.token_cache = "persistent" THEN {"authentication_record_path"} ELSE {})
      [] method = "device_code" -> {"tenant_id", "client_id", "token_cache"} \cup
              (IF a.token_cache = "persistent" THEN {"authentication_record_path"} ELSE {})
      [] method \in {"azure_cli", "azure_default"} -> {"tenant_id"}
      [] method = "service_principal" -> {"tenant_id", "client_id"} \cup
              (IF a.certificate_path = "" THEN {"client_secret"}
               ELSE {"certificate_path", "certificate_password", "send_certificate_chain"})
      [] method = "managed_identity" -> {"client_id", "resource_id", "object_id"}
      [] method = "workload_identity" -> {"tenant_id", "client_id", "token_file_path"}
      [] OTHER -> DOMAIN KnownAuth          \* an authenticator of the application's

---------------------------------------------------------------------------
(* SQL Server: where it connects and how (dsn.go, options.go, azure.go).    *)

InstanceNames == {"SQLEXPRESS"}
endpoint(c) == [instance |-> IF c.instance # "" /\ ~IsAzureSQLHost(c.host) /\ c.port = 0 THEN c.instance ELSE "",
                port |-> IF c.port # 0 THEN c.port
                         ELSE IF c.instance # "" /\ ~IsAzureSQLHost(c.host) THEN 0 ELSE 1433]
warned(c) == IF c.instance # "" /\ endpoint(c).instance = "" THEN {"instance"} ELSE {}
resolveEndpoint(c) == <<Reject(HostOf(c.host).attached \/ Len(HostOf(c.host).names) > 1, "host"),
                        Reject(c.instance \notin InstanceNames \cup {""}, "instance")>>

OptionSpecs == [app_name |-> "text", certificate |-> "text", packet_size |-> "number",
                trust_server_certificate |-> "flag", application_intent |-> "intent"]
OptionSpellings == "app name" :> "app_name" @@ "applicationintent" :> "application_intent"
canonicalOption(o) == IF Lowered(o) \in DOMAIN OptionSpellings THEN OptionSpellings[Lowered(o)] ELSE Lowered(o)
ownedOptions == {"encrypt", "user id"}
unsupportedOptions == {"change password"}
Intents == "readonly" :> "ReadOnly" @@ "ReadOnly" :> "ReadOnly" @@ "ReadWrite" :> "ReadWrite"
optionValue(kind, t) ==
    CASE kind = "text" -> t
      [] kind = "number" -> IF t \in DOMAIN Numeral /\ Numeral[t] \in 0..65535 THEN t ELSE ""
      [] kind = "flag" -> IF Folded(t) \in Yes \cup {"yes"} THEN "true" ELSE IF Folded(t) \in No \cup {"no"} THEN "false" ELSE ""
      [] OTHER -> IF t \in DOMAIN Intents THEN Intents[t] ELSE ""
\* Every option is one of the listed, written once, with a value of its kind.
badOptions(c) == \E o \in DOMAIN c.options :
    \/ Lowered(o) \in ownedOptions \cup unsupportedOptions
    \/ canonicalOption(o) \notin DOMAIN OptionSpecs
    \/ canonicalOption(o) \in DOMAIN OptionSpecs /\ optionValue(OptionSpecs[canonicalOption(o)], c.options[o]) = ""
    \/ \E p \in DOMAIN c.options \ {o} : canonicalOption(p) = canonicalOption(o)
canonicalOptions(c) == [n \in {canonicalOption(o) : o \in DOMAIN c.options} \cap DOMAIN OptionSpecs |->
                          optionValue(OptionSpecs[n], c.options[CHOOSE o \in DOMAIN c.options : canonicalOption(o) = n])]

SslOff == {"false", "optional", "no", "0", "disable"}
sslToEncrypt(t) == CASE t \in {"", "true", "mandatory", "yes", "1"} -> "true" [] t \in {"strict", "disable"} -> t
                     [] t \in SslOff \ {"disable"} -> "false" [] OTHER -> "unknown"
encrypt(c) == sslToEncrypt(Folded(c.ssl))
Weak == {"false", "disable"}
encryptFor(c, token) == <<Reject(encrypt(c) = "unknown", "ssl"),
                          Reject((token \/ IsAzureSQLHost(c.host)) /\ encrypt(c) \in Weak, "ssl")>>
serverDSN(c) ==
    Overlay(canonicalOptions(c),
         Overlay(IF c.read_only THEN [application_intent |-> "ReadOnly"] ELSE NoEntries,
              [encrypt |-> encrypt(c), app_name |-> "gorgany", trust_server_certificate |-> "false"]))
crossChecks(c, token) ==
    <<Reject(/\ serverDSN(c).trust_server_certificate = "true"
             /\ token \/ IsAzureSQLHost(c.host) \/ serverDSN(c).encrypt = "strict", "options"),
      Reject(/\ "application_intent" \in DOMAIN serverDSN(c)
             /\ serverDSN(c).application_intent = "ReadOnly" /\ ~c.read_only, "options")>>

\* The token's audience and the authority that issues it belong to one cloud.
Audiences == "https://database.windows.net" :> "public" @@ "https://database.usgovcloudapi.net" :> "usgov"
Schemed == DOMAIN Audiences \cup {"https://other"}
scopeCloud(c) == IF c.auth.scope \in DOMAIN Audiences THEN Audiences[c.auth.scope] ELSE AzureCloudOf(c.host)
resolveScope(c) == <<Reject(c.auth.scope \notin Schemed \cup {""}, "auth"),
                     Reject(IsAzureSQLHost(c.host) /\ scopeCloud(c) # AzureCloudOf(c.host), "auth")>>
planConnection(c) ==
    LET token == authMethodOf(c) # "sql" IN
    <<Reject(c.search_path # "", "search_path")>> \o resolveAuth(c) \o resolveEndpoint(c)
        \o <<Reject(badOptions(c), "options")>> \o encryptFor(c, token) \o crossChecks(c, token)
        \o (IF token THEN resolveScope(c) ELSE <<>>)

---------------------------------------------------------------------------
(* Booting (db_provider.go, registry.go).                                   *)

Engines3 == {"postgres_gorm", "mysql_gorm", "sqlserver_gorm"}
\* Each constructor of the framework validates first; a driver the application registered does
\* what it likes.
refusals(c) == IF c.driver \in Engines3 /\ Validate(c) # "fine" THEN Validate(c)
               ELSE CASE c.driver = "postgres_gorm" -> Verdict(refuseUnsupported(c) \o <<badNames(c)>>)
                      [] c.driver = "mysql_gorm" ->
                            Verdict(refuseUnsupported(c) \o <<Reject(c.search_path # "", "search_path"), badNames(c)>>)
                      [] c.driver = "sqlserver_gorm" -> Verdict(planConnection(c))
                      [] OTHER -> "fine"

\* The datasource a constructor begins with: nothing is guarded, logged or dialed yet.
opening(entry, c) ==
    LET server == c.driver = "sqlserver_gorm"
        token == server /\ authMethodOf(c) # "sql"
    IN  [state |-> "open", name |-> entry.name, raw |-> entry.raw, c |-> c, guards |-> {}, reports |-> {},
         sent |-> CASE server -> serverDSN(c)
                    [] c.driver = "postgres_gorm" -> postgresDSN(c)
                    [] c.driver = "mysql_gorm" -> mysqlDSN(c)
                    [] OTHER -> NoEntries,
         host |-> c.host, db |-> c.db,
         port |-> IF server THEN endpoint(c).port ELSE IF c.port = 0 /\ c.driver = "mysql_gorm" THEN 3306 ELSE c.port,
         instance |-> IF server THEN endpoint(c).instance ELSE "",
         user |-> IF token THEN "" ELSE c.username,
         password |-> IF token \/ (c.username = "" /\ c.driver = "mysql_gorm") THEN "" ELSE c.password,
         pool |-> IF server THEN effectivePool(c.properties) ELSE applied(c.properties),
         tokens |-> IF token THEN "live" ELSE "none",
         warned |-> IF server THEN warned(c) ELSE {},
         simple |-> c.driver = "postgres_gorm" /\ c.prefer_simple_protocol,
         unfaithful |-> c.driver = "mysql_gorm" /\ c.allow_unfaithful_upsert,
         logs |-> FALSE, dialed |-> FALSE]

\* An entry is read from the file, or added by the application: what the constructor of an added
\* one returns has passed the checks of its engine.
ASSUME EntriesAssumption ==
    \A b \in BootConfigs :
        /\ b.file \in Seq({b.file[i] : i \in DOMAIN b.file})
        /\ \A i \in DOMAIN b.file :
              b.file[i].added => /\ b.file[i].raw = Unset
                                 /\ b.file[i].typed.driver \in Engines3 => refusals(b.file[i].typed) = "fine"

PolicyFlags == {"read_only", "external_schema"}
flagsOf(c) == {f \in PolicyFlags : c[f]}
\* The datasource enforces these flags, and reports that it does.
Guarding(s, flags) == [s EXCEPT !.guards = flags, !.reports = flags]
\* What a datasource reports when its constructor begins: the engines of the framework nothing,
\* the one of an application's driver whatever that driver enforces.
FirstReports(c) == IF c.driver \in Engines3 THEN {{}} ELSE SUBSET PolicyFlags
Closed(s) == [s EXCEPT !.state = "closed", !.tokens = IF @ = "live" THEN "cancelled" ELSE @]

BootInit == /\ \E b \in BootConfigs : dbFile = b.file /\ surroundings = b.world
            /\ making = NoSource /\ connected = [n \in {} |-> NoSource]
            /\ dbStage = "next" /\ pings = 0 /\ dbFault = NoFault

Entry == Head(dbFile)
Stops(at, shows) == dbFault' = [at |-> at, shows |-> shows] /\ dbStage' = "panicked"
Unbuilt(at, shows) == Stops(at, shows) /\ UNCHANGED <<making, pings>>

\* Parse, the registry's lookup, Validate and what the engine decides without the network.
Configure ==
    /\ dbStage = "next" /\ dbFile # <<>> /\ ~Entry.added
    /\ IF Entry.raw.type # "map" THEN Unbuilt("databases", {})
       ELSE LET read == Parse(Entry.raw.entries) IN
            IF ~read.ok THEN Unbuilt(read.at, read.shows)
            ELSE IF read.value.driver \notin Drivers THEN Unbuilt("driver", {})
            ELSE IF refusals(read.value) # "fine" THEN Unbuilt(refusals(read.value), {})
            ELSE \/ /\ \E f \in FirstReports(read.value) : making' = Guarding(opening(Entry, read.value), f)
                    /\ pings' = 0 /\ UNCHANGED dbFault
                    /\ dbStage' = CASE read.value.driver = "sqlserver_gorm" -> "guard"
                                     [] read.value.driver \notin Engines3 -> "policy"
                                     [] read.value.driver # "sqlserver_gorm" /\ read.value.driver \in Engines3
                                           /\ read.value.lazy_connect -> "guard"
                                     [] OTHER -> "ping"
                 \* newTokens: the authenticator has no token source to give.
                 \/ opening(Entry, read.value).tokens = "live" /\ Unbuilt("sign-in", {})
                 \* The constructor of an application's driver fails, or returns nothing.
                 \/ read.value.driver \notin Engines3 /\ Unbuilt("connection", {})
    /\ UNCHANGED <<dbFile, surroundings, connected>>

\* A connection the application adds: its constructor makes one, or fails.
AddConnection ==
    /\ dbStage = "next" /\ dbFile # <<>> /\ Entry.added
    /\ \/ /\ \E f \in SUBSET PolicyFlags : making' = Guarding(opening(Entry, Entry.typed), f)
          /\ dbStage' = "register" /\ UNCHANGED <<pings, dbFault>>
       \/ Unbuilt("connection", {})
    /\ UNCHANGED <<dbFile, surroundings, connected>>

\* gorm.Open talks to Postgres and MySQL itself.  When its ping fails it hands over an error, the
\* constructor returns, and the pool it had opened stays open with nobody to close it.  MySQL is
\* asked for its version before that, and gorm closes the pool when this fails.
OpenPing ==
    /\ dbStage = "ping" /\ making.c.driver \in {"postgres_gorm", "mysql_gorm"}
    /\ \/ /\ surroundings.reach = "up" /\ dbStage' = "guard"
          /\ making' = [making EXCEPT !.dialed = TRUE] /\ UNCHANGED dbFault
       \/ /\ surroundings.reach # "up" /\ Stops("connect", {})
          /\ \/ making' = [making EXCEPT !.state = "lost"]
             \/ making.c.driver = "mysql_gorm" /\ making' = Closed(making)
    /\ UNCHANGED <<dbFile, surroundings, connected, pings>>

\* The guards stand before anything can be sent, and before a logging handle is derived;
\* installing them may fail.
Guard ==
    /\ dbStage = "guard"
    /\ \/ LET guarded == Guarding(making, flagsOf(making.c)) IN
          /\ IF making.c.driver # "sqlserver_gorm" \/ making.c.lazy_connect
             THEN dbStage' = "policy" /\ making' = [guarded EXCEPT !.logs = making.c.log]
             ELSE dbStage' = "warmup" /\ making' = guarded
          /\ UNCHANGED dbFault
       \/ making' = Closed(making) /\ Stops("guard", {})
    /\ UNCHANGED <<dbFile, surroundings, connected, pings>>

\* warmUp: the first token, at boot; a SQL login has nothing to warm up.
WarmUp ==
    /\ dbStage = "warmup"
    /\ \/ dbStage' = "ping" /\ UNCHANGED <<making, dbFault>>
       \/ making.tokens = "live" /\ making' = Closed(making) /\ Stops("sign-in", {})
    /\ UNCHANGED <<dbFile, surroundings, connected, pings>>

\* pingWithRetry: five attempts at a server that says it is briefly away, one at any other.
Attempts == 5
Ping ==
    /\ dbStage = "ping" /\ making.c.driver = "sqlserver_gorm"
    /\ pings' = pings + 1
    /\ \/ /\ surroundings.reach # "down" /\ dbStage' = "policy"
          /\ making' = [making EXCEPT !.dialed = TRUE, !.logs = making.c.log] /\ UNCHANGED dbFault
       \/ surroundings.reach = "resuming" /\ pings + 1 < Attempts /\ UNCHANGED <<making, dbStage, dbFault>>
       \/ /\ surroundings.reach = "down" \/ (surroundings.reach = "resuming" /\ pings + 1 = Attempts)
          /\ making' = Closed(making) /\ Stops("connect", {})
    /\ UNCHANGED <<dbFile, surroundings, connected>>

\* requireEnforcedPolicy: a flag the datasource does not report stops the boot.
Enforced(s) == flagsOf(s.c) \subseteq s.reports
RequirePolicy ==
    /\ dbStage = "policy"
    /\ IF Enforced(making) THEN dbStage' = "register" /\ UNCHANGED <<making, dbFault>>
       ELSE making' = Closed(making) /\ Stops("policy", {})
    /\ UNCHANGED <<dbFile, surroundings, connected, pings>>

Register ==
    /\ dbStage = "register"
    /\ IF making.name \in DOMAIN connected THEN Stops("twice", {}) /\ UNCHANGED <<connected, making, dbFile>>
       ELSE /\ connected' = Overlay([n \in {making.name} |-> making], connected)
            /\ making' = NoSource /\ dbFile' = Tail(dbFile) /\ dbStage' = "next" /\ UNCHANGED dbFault
    /\ UNCHANGED <<surroundings, pings>>

\* Sessions kept in the default database need one the application may write to.
Booted ==
    /\ dbStage = "next" /\ dbFile = <<>>
    /\ IF surroundings.storage = "database" /\ "default" \in DOMAIN connected /\ connected["default"].reports # {}
       THEN Stops("auth.session.storage", {})
       ELSE dbStage' = "up" /\ UNCHANGED dbFault
    /\ UNCHANGED <<dbFile, surroundings, making, connected, pings>>

\* DBContext.Close closes every one, whatever another's close returns.
CloseAll ==
    /\ dbStage = "up" /\ dbStage' = "closed"
    /\ connected' = [n \in DOMAIN connected |-> Closed(connected[n])]
    /\ UNCHANGED <<dbFile, surroundings, making, pings, dbFault>>

BootNext == \/ Configure \/ AddConnection \/ OpenPing \/ Guard \/ WarmUp \/ Ping
            \/ RequirePolicy \/ Register \/ Booted \/ CloseAll

BootSpec == BootInit /\ [][BootNext]_bootVars

---------------------------------------------------------------------------
(* Properties.                                                              *)

Entries(s) == IF s.raw.type = "map" THEN foldKeys(s.raw.entries) ELSE NoEntries
Number(v) == Numeral[Folded(v.text)]
Flag(v) == Folded(v.text) \in Yes

OptionKept(s, o, t) ==
    CASE s.c.driver = "sqlserver_gorm" -> s.sent[canonicalOption(o)] = optionValue(OptionSpecs[canonicalOption(o)], t)
      [] s.c.driver = "mysql_gorm" -> s.sent[canonicalDSNParam(o)] = t
      [] OTHER -> t # "" => s.sent[o] = t
PoolKept(s, f, v) == \/ Number(v) = 0 \/ s.pool[f] = Number(v)
                     \/ f = "maxidleconnections" /\ s.pool[f] = s.pool["maxopenconnections"]
AuthKept(s, f, v) ==
    CASE f = "method" -> authMethodOf(s.c) = "sql" <=> s.tokens = "none"
      [] KnownAuth[f] = "bool" -> Flag(v) => f \in CredentialReads(s.c.auth.method, s.c.auth) /\ s.tokens # "none"
      [] KnownAuth[f] = "count" -> Number(v) # 0 => f \in CredentialReads(s.c.auth.method, s.c.auth) /\ s.tokens # "none"
      [] OTHER -> v.text # "" => f \in CredentialReads(s.c.auth.method, s.c.auth) /\ s.tokens # "none"
Within(s, k) == foldKeys(Entries(s)[k].entries)

\* Key k of the file has its effect on the connection.
InForce(s, k) ==
    LET v == Entries(s)[k] IN
    CASE k = "driver" -> s.c.driver = v.text
      [] k = "host" -> v.text = IF s.c.driver = "postgres_gorm" THEN s.sent.host ELSE s.host
      [] k = "db" -> v.text = IF s.c.driver = "postgres_gorm" THEN s.sent.dbname ELSE s.db
      [] k = "port" -> Number(v) \in {0, s.port}
      [] k = "instance" -> v.text = "" \/ s.instance = v.text \/ "instance" \in s.warned
      [] k = "username" -> s.user = v.text \/ s.tokens # "none"
      [] k = "password" -> s.password = v.text
      [] k = "ssl" /\ s.c.driver = "sqlserver_gorm" -> Folded(v.text) \in SslOff <=> s.sent.encrypt \in Weak
      [] k = "ssl" /\ s.c.driver = "postgres_gorm" -> v.text # "" => s.sent.sslmode = v.text
      [] k = "ssl" /\ s.c.driver = "mysql_gorm" -> v.text # "" => s.sent.tls = v.text
      [] k = "search_path" -> v.text # "" => s.c.driver = "postgres_gorm" /\ s.sent.search_path = v.text
      [] k = "options" -> \A o \in DOMAIN v.entries : v.entries[o] # Unset => OptionKept(s, o, v.entries[o].text)
      [] k = "properties" -> \A f \in DOMAIN Within(s, k) : Wrote(Within(s, k), f) => PoolKept(s, f, Within(s, k)[f])
      [] k = "auth" -> \A f \in DOMAIN Within(s, k) : Wrote(Within(s, k), f) => AuthKept(s, f, Within(s, k)[f])
      [] k \in {"read_only", "external_schema"} -> Flag(v) => k \in s.guards
      [] k = "prefer_simple_protocol" -> Flag(v) => s.simple
      [] k = "allow_unfaithful_upsert" -> Flag(v) => s.unfaithful
      [] k = "lazy_connect" -> Flag(v) <=> ~s.dialed
      [] OTHER -> k = "log" /\ (Flag(v) <=> s.logs)
\* The parameters of a connection string that a key of ours sets and an option may set again.
DSNKeys == [postgres_gorm |-> [host |-> {"host"}, db |-> {"dbname", "database"}, port |-> {"port"},
                               username |-> {"user"}, password |-> {"password"},
                               ssl |-> {"sslmode"}, search_path |-> {"search_path"}],
            mysql_gorm |-> [ssl |-> {"tls"}], sqlserver_gorm |-> NoEntries]
\* An option wins over the key of ours it repeats; Postgres is not sent an empty one.
SetByOption(s, k) ==
    /\ s.c.driver \in Engines3 /\ k \in DOMAIN DSNKeys[s.c.driver]
    /\ IF s.c.driver = "mysql_gorm"
       THEN \E o \in DOMAIN s.c.options : canonicalDSNParam(o) \in DSNKeys[s.c.driver][k]
       ELSE DSNKeys[s.c.driver][k] \cap DOMAIN Sent(s.c.options) # {}
\* The flags of one engine, which the others take and ignore.
OnlyOn == [prefer_simple_protocol |-> "postgres_gorm", allow_unfaithful_upsert |-> "mysql_gorm"]
\* What the code drops without a word: a key that an option sets again, a flag of another engine,
\* on Postgres and MySQL a negative lifetime, on MySQL a password without a username and one of
\* two spellings of an option, on SQL Server the password under a sign-in method of the
\* application's, whose authenticator is not handed one.
Overlooked(s, k) ==
    \/ SetByOption(s, k)
    \/ k \in DOMAIN OnlyOn /\ s.c.driver # OnlyOn[k]
    \/ /\ k = "properties" /\ s.c.driver \in {"postgres_gorm", "mysql_gorm"}
       /\ \E f \in {"connectionmaxlifetime", "connectionmaxidlelifetime"} : s.c.properties[f] < 0
    \/ k = "password" /\ s.c.driver = "mysql_gorm" /\ s.c.username = ""
    \/ /\ k = "options" /\ s.c.driver = "mysql_gorm"
       /\ \E o \in DOMAIN s.c.options, p \in DOMAIN s.c.options :
             o # p /\ canonicalDSNParam(o) = canonicalDSNParam(p)
    \/ k = "password" /\ s.tokens # "none" /\ s.c.auth.method \notin DOMAIN tokenMethodRules

\* A key that was accepted is in force on the connection, unless Overlooked names it.  (What a
\* driver the application registered makes of its keys is its own affair.)
TakenOrRefused ==
    dbStage = "up" =>
        \A n \in DOMAIN connected : \A k \in DOMAIN Entries(connected[n]) :
            \/ connected[n].c.driver \notin Engines3
            \/ ~Wrote(Entries(connected[n]), k) \/ Overlooked(connected[n], k) \/ InForce(connected[n], k)

\* What stops the boot never quotes a secret.
SecretKeys == {"password", "options", "client_secret", "certificate_password"}
SecretsUnshown == dbFault.at \in SecretKeys => dbFault.shows = {}

\* A token travels only over an encrypted connection to a server whose certificate is verified,
\* and is issued by the cloud the server is in.
TokenNeverInClear ==
    \A n \in DOMAIN connected :
        LET s == connected[n] IN
        s.tokens = "live" => /\ s.sent.encrypt \notin Weak /\ s.sent.trust_server_certificate # "true"
                             /\ IsAzureSQLHost(s.c.host) => scopeCloud(s.c) = AzureCloudOf(s.c.host)

\* Every flag set is guarded, or nothing was registered.
PolicyEnforced == \A n \in DOMAIN connected : connected[n].raw.type = "map" => flagsOf(connected[n].c) \subseteq connected[n].guards
\* A datasource refused after it was opened is closed, and its sign-in with it, unless gorm's own
\* ping of Postgres or MySQL failed or its name was taken.  A closed context leaves none open.
\* (When a boot stops, those it had registered before stay open.)
ClosedWhenRefused ==
    /\ dbStage = "panicked" =>
          \/ making.state \in {"none", "closed"} /\ making.tokens # "live"
          \/ dbFault.at = "twice"
          \/ dbFault.at = "connect" /\ making.c.driver \in {"postgres_gorm", "mysql_gorm"}
    /\ dbStage = "closed" => \A n \in DOMAIN connected : connected[n].state = "closed" /\ connected[n].tokens # "live"

\* Viper lowers every key it reads: the file and the map written by hand decode alike.
LowerKeys(m) == [k \in {Lowered(w) : w \in DOMAIN m} |-> m[CHOOSE w \in DOMAIN m : Lowered(w) = k]]
AsViper(raw) == LET top == LowerKeys(raw) IN
                [k \in DOMAIN top |-> IF top[k].type = "map" THEN Map(LowerKeys(top[k].entries)) ELSE top[k]]
Collides(m) == \E v \in DOMAIN m, w \in DOMAIN m : v # w /\ Lowered(v) = Lowered(w)
Clashing(raw) == Collides(raw) \/ \E k \in DOMAIN raw : raw[k].type = "map" /\ Collides(raw[k].entries)
SameButOptions(c, d) == [c EXCEPT !.options = d.options] = d
ViperAlike ==
    dbStage \in {"panicked", "register"} /\ dbFile # <<>> /\ ~Entry.added /\ Entry.raw.type = "map"
        /\ ~Clashing(Entry.raw.entries) =>
        LET byHand == Parse(Entry.raw.entries)
            byViper == Parse(AsViper(Entry.raw.entries))
        IN  /\ byHand.ok = byViper.ok
            /\ byHand.ok => SameButOptions(byHand.value, byViper.value)

\* A datasource is what its configuration says: every accepted key is in force or is one of those
\* known to be dropped, the policy flags are guarded, a token is never in the clear, a refusal
\* quotes no secret and closes the datasource it refuses, but in the two cases named, and the
\* spelling of a key's case does not matter (config.go's Parse; the NewDataSourceWithConfig of
\* each engine; registry.go's requireEnforcedPolicy).
ConfiguredAsWritten == /\ TakenOrRefused /\ SecretsUnshown /\ TokenNeverInClear
                       /\ PolicyEnforced /\ ClosedWhenRefused /\ ViperAlike
=============================================================================
