------------------------------- MODULE MCBoot -------------------------------
(* The configurations the boot is checked with: a base of each engine, and *)
(* one to three keys written over it, in several types and spellings.      *)
EXTENDS DataSourceBoot

DbBase(engine) == [driver |-> Txt(engine), host |-> Txt("db.local"), db |-> Txt("app"),
                   username |-> Txt("app"), password |-> Txt("pw")]
One(k, values) == {k :> v : v \in values}
Two(a, b) == {x @@ y : x \in a, y \in b}
Texts1 == {Txt("x"), Txt(""), Num("5"), Bool("true"), Unset, List}
Flags1 == {Bool("true"), Txt("TRUE "), Txt("0"), Txt("maybe"), Num("1"), Unset}

Typed == One("port", {Num("5432"), Txt(" 5432 "), Float("1433"), Float("1.5"), Txt("abc"), Num("70000"), Num("-1"), Bool("true")})
         \cup One("Port", {Num("1433")}) \cup Two(One("Port", {Num("1433")}), One("port", {Num("5432")}))
         \cup UNION {One(k, Texts1) : k \in {"username", "password", "Password", "ssl", "search_path", "instance", "db", "host"}}
         \cup UNION {One(k, Flags1) : k \in {"prefer_simple_protocol", "allow_unfaithful_upsert", "lazy_connect", "log"}}
         \cup One("hots", {Txt("x")}) \cup One("driver", {Txt("oracle"), Txt("")})
         \cup One("properties", {Unset, List, Map("maxopenconnections" :> Num("5")), Map("maxOpenConnections" :> Txt("5")),
                                 Map("maxIdleConnections" :> Num("5") @@ "maxOpenConnections" :> Num("1")),
                                 Map("maxIdleConnections" :> Num("-1")), Map("connectionMaxLifetime" :> Num("-1")),
                                 Map("connectionMaxLifetime" :> Float("5")), Map("minConnections" :> Num("1"))})
Policies2 == Two(Two(One("read_only", Flags1) \cup One("Read_Only", {Bool("true")}), One("external_schema", {Bool("true"), Unset})),
                 One("lazy_connect", {Bool("true"), Unset}))
Options1 == {Map(m) : m \in One("default_transaction_read_only", {Txt(""), Txt("off")})
                 \cup One("options", {Txt("-c default-transaction-read-only=off"), Txt("")})
                 \cup One("target_session_attrs", {Txt("read-write"), Txt("standby")})
                 \cup One("a b", {Txt("x")}) \cup One("readTimeout", {Txt("5")}) \cup One("charset", {List, Unset, Txt("utf8")})
                 \cup Two(One("readTimeout", {Txt("5")}), One("readtimeout", {Txt("1")}))
                 \cup One("packet_size", {Txt("5432"), Txt("70000"), Num("5")}) \cup One("app name", {Txt("x"), Txt("")})
                 \cup Two(One("app name", {Txt("x")}), One("app_name", {Txt("y")}))
                 \cup One("encrypt", {Txt("false")}) \cup One("change password", {Txt("x")})
                 \cup One("trust_server_certificate", {Txt("yes"), Bool("true"), Txt("no"), Txt("perhaps")})
                 \cup One("applicationintent", {Txt("readonly"), Txt("ReadWrite"), Txt("any")})}
WithOptions == Two(One("options", Options1), One("read_only", {Bool("true"), Unset}))
\* Keys that an option of the same connection string repeats.
Repeated == Two(One("options", {Map(o :> t) : o \in {"sslmode", "tls", "search_path", "port", "host", "database"}, t \in {Txt("disable"), Txt("")}}),
                One("ssl", {Txt("require")}) \cup One("search_path", {Txt("x")}) \cup One("port", {Num("5432")}))

\* SQL Server: where it connects, how it is encrypted, and as whom it signs in.
Hosts5 == {Txt(h) : h \in DOMAIN HostNames}
Ssl == {Txt(""), Txt("true"), Txt("Strict"), Txt("false"), Txt("disable"), Txt("optional"), Txt("mandatory"), Txt("verify-full")}
Entra == "password" :> Unset @@ "auth" :> Map("method" :> Txt("azure_cli"))
Addresses == Two(Two(One("host", Hosts5), One("port", {Unset, Num("1433")})), One("instance", {Txt("SQLEXPRESS"), Txt("")}))
Secured == Two(Two(Two(One("host", {Txt("db.local"), Txt("X.Database.Windows.Net.")}), One("ssl", Ssl)),
                   One("options", {Unset, Map("trust_server_certificate" :> Bool("true"))})),
               {Entra, NoEntries})
Cloudy == Two(One("host", Hosts5), {"password" :> Unset @@ "auth" :> Map("method" :> Txt("azure_cli") @@ "scope" :> Txt(t)) :
                                       t \in {"", "https://database.windows.net", "https://database.usgovcloudapi.net",
                                              "https://other", "nonsense"}})
SettingOf(f) == CASE KnownAuth[f] = "bool" -> Bool("true") [] KnownAuth[f] = "count" -> Num("5")
                [] f = "token_cache" -> Txt("Persistent") [] f = "scope" -> Txt("https://other") [] OTHER -> Txt("x")
SignInMethods == DOMAIN tokenMethodRules \cup {"sql", "", "custom", "kerberos"}
AuthBlock(method, fields) == Map("method" :> Txt(method) @@ [f \in fields |-> SettingOf(f)])
AuthFields == DOMAIN KnownAuth \ {"method"}
\* Every pair of fields under every method, and what a service principal needs with any two more.
AuthPairs == {AuthBlock(m, {f, g}) : m \in SignInMethods, f \in AuthFields, g \in AuthFields}
             \cup {AuthBlock(m, {"tenant_id", "client_id", f, g}) : m \in {"service_principal", "Service_Principal "},
                                                                    f \in AuthFields, g \in AuthFields}
             \cup {Map("method" :> Txt(m) @@ f :> v) : m \in {"sql", "interactive", "service_principal"}, f \in AuthFields,
                                                      v \in {Num("-1"), Unset, List, Txt("memory")}}
             \cup {Map("Client_Secret" :> Txt("x")), Map("tenant" :> Txt("x")), List, Unset, Map(NoEntries)}
Signing == {"auth" :> a @@ "password" :> p : a \in AuthPairs, p \in {Unset, Txt("pw")}}

FromFile(name, raw) == [name |-> name, raw |-> raw, added |-> FALSE]
OnEngines(engines, overs) == {<<FromFile("default", Map(o @@ DbBase(e)))>> : e \in engines, o \in overs}
TypedByHand(c) == [name |-> "default", raw |-> Unset, added |-> TRUE, typed |-> c]
ByHand == TypedByHand(Parse(DbBase("custom")).value)
Server1 == {"sqlserver_gorm"}
MCFiles == OnEngines(Engines3 \cup {"custom"}, Typed \cup WithOptions \cup Repeated)
           \cup OnEngines(Server1, Addresses \cup Secured \cup Cloudy \cup Signing)
           \cup OnEngines({"postgres_gorm", "mysql_gorm"}, {"auth" :> AuthBlock(m, f) : m \in {"sql", "", "interactive"},
                                                               f \in {{}, {"scope"}, {"login_timeout"}}})
           \cup OnEngines({"mysql_gorm"}, {"username" :> Txt("")})
           \cup {<<FromFile("default", List)>>}
\* The surroundings matter to what is opened, not to what is decoded.
WorldFiles == OnEngines(Engines3 \cup {"custom"}, Policies2)
              \cup {<<ByHand>>, <<FromFile("default", Map(DbBase("postgres_gorm"))), ByHand>>,
                    <<FromFile("audit", Map("read_only" :> Bool("true") @@ DbBase("mysql_gorm"))),
                      FromFile("default", Map(Entra @@ DbBase("sqlserver_gorm")))>>}
MCBootConfigs == [file : MCFiles, world : {[reach |-> "up", storage |-> "memory"]}]
                 \cup [file : WorldFiles, world : [reach : {"up", "down", "resuming"}, storage : {"memory", "database"}]]
=============================================================================
