-------------------------- MODULE DataSourceConfig --------------------------
(***************************************************************************)
(* db/sql/config/config.go: a `databases.<name>` map is decoded into a typed *)
(* configuration, strictly.  A map is a function from keys, as written, to *)
(* typed values; a decoded key has a value, or a refusal that names the key *)
(* and shows the values it quotes.                                         *)
(***************************************************************************)
EXTENDS Integers, Sequences, TLC

\* Values as YAML, an environment variable or a literal map hands them over.
Txt(t) == [type |-> "string", text |-> t]
Num(t) == [type |-> "int", text |-> t]
Bool(t) == [type |-> "bool", text |-> t]
Float(t) == [type |-> "float", text |-> t]
Unset == [type |-> "nil"]
List == [type |-> "list"]
Map(entries) == [type |-> "map", entries |-> entries]
NoEntries == [k \in {} |-> Unset]
\* f, and g where f says nothing.
Overlay(f, g) == [x \in DOMAIN f \cup DOMAIN g |-> IF x \in DOMAIN f THEN f[x] ELSE g[x]]

Known == [driver |-> "text", host |-> "text", port |-> "int", username |-> "text", password |-> "password",
          db |-> "text", ssl |-> "text", search_path |-> "text", instance |-> "text",
          prefer_simple_protocol |-> "bool", allow_unfaithful_upsert |-> "bool", external_schema |-> "bool",
          read_only |-> "bool", lazy_connect |-> "bool", log |-> "bool", options |-> "options",
          properties |-> "properties", auth |-> "auth"]
\* The order in which Parse reads them: the first that cannot be read is the one it names.
Order == <<"driver", "host", "port", "username", "password", "db", "ssl", "search_path", "instance",
           "prefer_simple_protocol", "allow_unfaithful_upsert", "external_schema", "read_only",
           "lazy_connect", "log", "options", "properties", "auth">>
KnownPool == [maxopenconnections |-> "int", maxidleconnections |-> "int",
              connectionmaxlifetime |-> "int", connectionmaxidlelifetime |-> "int"]
PoolOrder == <<"maxopenconnections", "maxidleconnections", "connectionmaxlifetime", "connectionmaxidlelifetime">>
KnownAuth == [method |-> "folded", tenant_id |-> "text", client_id |-> "text", certificate_path |-> "text",
              resource_id |-> "text", object_id |-> "text", token_file_path |-> "text", redirect_url |-> "text",
              scope |-> "text", token_cache |-> "folded", authentication_record_path |-> "text",
              client_secret |-> "secret", certificate_password |-> "secret",
              send_certificate_chain |-> "bool", login_timeout |-> "count"]
AuthOrder == <<"method", "tenant_id", "client_id", "certificate_path", "resource_id", "object_id",
               "token_file_path", "redirect_url", "scope", "token_cache", "authentication_record_path",
               "client_secret", "certificate_password", "send_certificate_chain", "login_timeout">>

\* Spelling: the keys written with capitals, and the texts that are not lowercase and trimmed.
Capitals == [Port |-> "port", Password |-> "password", ReadOnly |-> "readonly", Read_Only |-> "read_only",
             Client_Secret |-> "client_secret", maxOpenConnections |-> "maxopenconnections",
             maxIdleConnections |-> "maxidleconnections", connectionMaxLifetime |-> "connectionmaxlifetime",
             readTimeout |-> "readtimeout"]
Lowered(k) == IF k \in DOMAIN Capitals THEN Capitals[k] ELSE k
Folded(t) == CASE t = "Service_Principal " -> "service_principal" [] t = " 5432 " -> "5432"
               [] t = "TRUE " -> "true" [] t = "Persistent" -> "persistent" [] t = "Strict" -> "strict"
               [] OTHER -> t
Numeral == [t \in {"0", "1", "5", "-1", "1433", "5432", "70000"} |->
               CASE t = "0" -> 0 [] t = "1" -> 1 [] t = "5" -> 5 [] t = "-1" -> -1 [] t = "1433" -> 1433
                 [] t = "5432" -> 5432 [] OTHER -> 70000]
Yes == {"1", "t", "true"}
No == {"0", "f", "false"}

---------------------------------------------------------------------------
(* Reading one key.                                                         *)

Took(v) == [ok |-> TRUE, value |-> v]
Bad(key, quoted) == [ok |-> FALSE, at |-> key, shows |-> quoted]
Wrote(m, k) == k \in DOMAIN m /\ m[k] # Unset
Scalar(v) == v.type \in {"string", "int", "bool"}

optString(m, k) == IF ~Wrote(m, k) THEN Took("")
                   ELSE IF Scalar(m[k]) THEN Took(m[k].text) ELSE Bad(k, {m[k]})
\* Fault: the password is read like any other text, and quoted like one.
PasswordAsText(m) == optString(m, "password")
optPassword(m) == IF ~Wrote(m, "password") THEN Took("")
                  ELSE IF Scalar(m["password"]) THEN Took(m["password"].text) ELSE Bad("password", {})
optSecretString(m, k) == IF ~Wrote(m, k) THEN Took("")
                         ELSE IF m[k].type = "string" THEN Took(m[k].text) ELSE Bad(k, {})
optInt(m, k) ==
    IF ~Wrote(m, k) THEN Took(0)
    ELSE IF m[k].type \in {"string", "int", "float"} /\ Folded(m[k].text) \in DOMAIN Numeral
         THEN Took(Numeral[Folded(m[k].text)]) ELSE Bad(k, {m[k]})
optBool(m, k) ==
    IF ~Wrote(m, k) THEN Took(FALSE)
    ELSE IF m[k].type \in {"string", "bool"} /\ Folded(m[k].text) \in Yes \cup No
         THEN Took(Folded(m[k].text) \in Yes) ELSE Bad(k, {m[k]})

\* options: the keys are not folded, null is the empty text, and no value is ever quoted.
optStringMap(m, k) ==
    IF ~Wrote(m, k) THEN Took([o \in {} |-> ""])
    ELSE IF m[k].type # "map" \/ \E o \in DOMAIN m[k].entries : m[k].entries[o] # Unset /\ ~Scalar(m[k].entries[o])
         THEN Bad(k, {})
         ELSE Took([o \in DOMAIN m[k].entries |-> IF m[k].entries[o] = Unset THEN "" ELSE m[k].entries[o].text])

---------------------------------------------------------------------------
(* Decoding a map.                                                          *)

\* Of one key in two cases the first in sorted order is kept, and capitals sort first.
foldKeys(m) == [k \in {Lowered(w) : w \in DOMAIN m} |->
                    LET written == {w \in DOMAIN m : Lowered(w) = k}
                        capital == written \ {k}
                    IN  IF capital # {} THEN m[CHOOSE w \in capital : TRUE] ELSE m[k]]
unknownKeys(m, known) == {w \in DOMAIN m : Lowered(w) \notin DOMAIN known}

\* The keys of one map in turn: the first refusal, or all of their values.
Earliest(places) == CHOOSE i \in places : \A j \in places : i <= j
InOrder(order, reads) ==
    LET refused == {i \in DOMAIN order : ~reads[order[i]].ok}
    IN  IF refused # {} THEN reads[order[Earliest(refused)]] ELSE Took([k \in DOMAIN reads |-> reads[k].value])

\* A nested block: absent or null is the zero block, anything but a map is refused.
Block(m, k, known, order, Read(_, _)) ==
    LET entries == IF Wrote(m, k) THEN m[k].entries ELSE NoEntries
        folded == foldKeys(entries)
    IN  IF Wrote(m, k) /\ m[k].type # "map" THEN Bad(k, {})
        ELSE IF unknownKeys(entries, known) # {} THEN Bad(k, {})
        ELSE InOrder(order, [f \in DOMAIN known |-> Read(folded, f)])
parsePool(m) == Block(m, "properties", KnownPool, PoolOrder, optInt)
authField(m, f) ==
    CASE KnownAuth[f] = "text" -> optString(m, f)
      [] KnownAuth[f] = "folded" -> LET read == optString(m, f) IN IF read.ok THEN Took(Folded(read.value)) ELSE read
      [] KnownAuth[f] = "secret" -> optSecretString(m, f)
      [] KnownAuth[f] = "bool" -> optBool(m, f)
      [] OTHER -> LET read == optInt(m, f) IN IF read.ok /\ read.value < 0 THEN Bad(f, {m[f]}) ELSE read
parseAuth(m) == Block(m, "auth", KnownAuth, AuthOrder, authField)

topLevel(m, k) ==
    CASE Known[k] = "text" -> optString(m, k)
      [] Known[k] = "int" -> optInt(m, k)
      [] Known[k] = "bool" -> optBool(m, k)
      [] Known[k] = "password" -> optPassword(m)
      [] Known[k] = "options" -> optStringMap(m, k)
      [] Known[k] = "properties" -> parsePool(m)
      [] OTHER -> parseAuth(m)

\* Parse: what is not one of our keys is refused before anything is read.
Parse(raw) ==
    IF unknownKeys(raw, Known) # {} THEN Bad("unknown", {})
    ELSE LET folded == foldKeys(raw) IN InOrder(Order, [k \in DOMAIN Known |-> topLevel(folded, k)])

\* A list of checks, each the key it refuses or "fine": the first that refuses decides.
Reject(bad, key) == IF bad THEN key ELSE "fine"
Verdict(checks) == LET broken == {i \in DOMAIN checks : checks[i] # "fine"}
                   IN  IF broken = {} THEN "fine" ELSE checks[Earliest(broken)]

ownChecks(c) ==
    <<Reject(c.host = "", "host"), Reject(c.db = "", "db"), Reject(c.port \notin 0..65535, "port"),
      Reject(c.properties.maxopenconnections < 0, "properties"),
      Reject(c.properties.maxidleconnections < 0, "properties"),
      Reject(c.auth.login_timeout < 0, "auth"),
      Reject(c.auth.token_cache \notin {"", "memory", "persistent"}, "auth")>>
Validate(c) == Verdict(ownChecks(c))

setAuthKeys(a) == {f \in DOMAIN KnownAuth \ {"method"} :
                      CASE KnownAuth[f] = "bool" -> a[f]
                        [] KnownAuth[f] = "count" -> a[f] # 0
                        [] OTHER -> a[f] # ""}
=============================================================================
