----------------------------- MODULE SqlPolicy -----------------------------
(***************************************************************************)
(* What the statement guards refuse, over the tokens of a text: on a       *)
(* read_only datasource everything but a read, on an external_schema one   *)
(* every change of the schema.  Statements are built here as trees, which  *)
(* say what they do; Tokens writes them down as the guards find them.      *)
(*                                                                         *)
(* A token is a word and the parentheses open around it; the words that    *)
(* are names rather than keywords are "name", "#temp" and "@var".          *)
(***************************************************************************)
EXTENDS Integers, Sequences, SequencesExt

CONSTANTS
    Queries,        \* the queries asked about
    Batches         \* [engine, separated, statements]: the batches
VARIABLES
    queries,        \* those asked about: [engine, tree]
    batches

Tok(word, depth) == [w |-> word, d |-> depth]
Words(ws, d) == [i \in DOMAIN ws |-> Tok(ws[i], d)]
W(t, i) == IF i \in DOMAIN t THEN t[i].w ELSE "end"

\* The separators of a list and of a batch, objectName.
Comma == ","
Semicolon == ";"
Names == {"name", "#temp"}
IsName(t, i) == W(t, i) \in Names

\* closingParen
Closing(t, open) ==
    LET ends == {i \in (open + 1)..Len(t) : t[i].w = ")" /\ t[i].d = t[open].d}
    IN  IF ends = {} THEN Len(t) + 1 ELSE CHOOSE i \in ends : \A j \in ends : i <= j

---------------------------------------------------------------------------
(* The read-only guards.                                                    *)

Writing == {"INSERT", "UPDATE", "DELETE", "MERGE", "UPSERT", "INTO", "EXEC", "EXECUTE", "CALL", "CREATE",
            "ALTER", "DROP", "TRUNCATE", "RENAME", "GRANT", "REVOKE", "DENY", "BACKUP", "RESTORE", "DBCC",
            "BULK", "OPENROWSET", "OPENDATASOURCE", "OPENQUERY", "WRITETEXT", "UPDATETEXT", "SHUTDOWN",
            "KILL", "RECONFIGURE", "USE", "SET", "DECLARE", "LOCK", "COPY", "VACUUM", "LOAD", "HANDLER",
            "CHECKPOINT"}
TsqlOnly == {"BEGIN", "COMMIT", "ROLLBACK", "SAVE", "IF", "WHILE", "BREAK", "CONTINUE", "GOTO", "RETURN",
             "WAITFOR", "PRINT", "RAISERROR", "OPEN", "CLOSE", "DEALLOCATE", "READTEXT", "SETUSER", "REVERT",
             "UPDLOCK", "XLOCK", "TABLOCK", "TABLOCKX", "HOLDLOCK", "SERIALIZABLE", "REPEATABLEREAD"}

\* lockingClause, isNextValueFor, settingCall
Phrase(t, i) ==
    \/ /\ W(t, i) = "FOR"
       /\ \/ W(t, i + 1) \in {"UPDATE", "SHARE"}
          \/ W(t, i + 1) = "NO" /\ W(t, i + 2) = "KEY" /\ W(t, i + 3) = "UPDATE"
          \/ W(t, i + 1) = "KEY" /\ W(t, i + 2) = "SHARE"
    \/ W(t, i) = "LOCK" /\ W(t, i + 1) = "IN" /\ W(t, i + 2) = "SHARE" /\ W(t, i + 3) = "MODE"
    \/ W(t, i) = "NEXT" /\ W(t, i + 1) = "VALUE" /\ W(t, i + 2) = "FOR"
    \/ W(t, i) = "set_config" /\ W(t, i + 1) = "("

\* skipLeading
First(t) == SelectInSeq(t, LAMBDA tok : tok.w \notin {"(", Semicolon})

\* A ";" of the statement that another statement follows.
Second(t) == LET first == First(t)
             IN  \E i \in DOMAIN t : i > first /\ t[i].w = Semicolon /\ \E j \in (i + 1)..Len(t) : t[j].w # Semicolon

\* readOnlyRefusal: the words are refused wherever they stand.
RawRefused(t, engine) ==
    /\ First(t) # 0
    /\ \/ W(t, First(t)) \notin {"SELECT", "WITH"}
       \/ Second(t)
       \/ \E i \in (First(t) + 1)..Len(t) : \/ t[i].w \in Writing \/ Phrase(t, i)
                                            \/ engine = "tsql" /\ t[i].w \in TsqlOnly

\* queryRefusal: a query that begins at i, past the parentheses that open it. refusals has what is
\* refused further on.
QueryRefused(t, i, refusals) ==
    CASE t[i].w = "(" -> "query" \in refusals[i + 1]
      [] t[i].w \in {"SELECT", "VALUES"} -> FALSE
      [] t[i].w = "WITH" -> "list" \in refusals[i + 1]
      [] OTHER -> TRUE

\* withRefusal: the list of a WITH from the common table expression at i on, and what follows it.
ListRefused(t, i, refusals) ==
    LET columns == IF W(t, i + 1) = "(" THEN Closing(t, i + 1) + 1 ELSE i + 1
        body == IF W(t, columns + 1) = "MATERIALIZED" THEN columns + 2 ELSE columns + 1
        after == Closing(t, body) + 1
    IN  \/ ~IsName(t, i)
        \/ /\ columns <= Len(t)
           /\ \/ W(t, columns) # "AS"
              \/ /\ body <= Len(t)
                 /\ \/ W(t, body) # "("
                    \/ "query" \in refusals[body + 1]
                    \/ /\ after <= Len(t)
                       /\ IF W(t, after) = Comma THEN "list" \in refusals[after + 1] ELSE "query" \in refusals[after]

Refusals(t) ==
    LET R[i \in 1..Len(t) + 1] ==
            {what \in {"query", "list"} : /\ i <= Len(t)
                                          /\ what = "query" => QueryRefused(t, i, R)
                                          /\ what = "list" => ListRefused(t, i, R)}
    IN  R

\* Fault: what a WITH introduces is looked at, and not the WITH of a subquery.
ShapeRefusedTopOnly(t, engine) ==
    IF engine = "tsql" THEN RawRefused(t, engine)
    ELSE /\ First(t) # 0
         /\ \/ W(t, First(t)) \notin {"SELECT", "WITH"}
            \/ Second(t)
            \/ \E i \in First(t)..Len(t) : t[i].w = "INTO" \/ Phrase(t, i)
            \/ "query" \in Refusals(t)[First(t)]

\* readOnlyShapeRefusal: what a dialect rendered is refused for its structure only, but on
\* SQL Server, whose statements need nothing between them.
ShapeRefused(t, engine) ==
    IF engine = "tsql" THEN RawRefused(t, engine)
    ELSE /\ First(t) # 0
         /\ \/ W(t, First(t)) \notin {"SELECT", "WITH"}
            \/ Second(t)
            \/ \E i \in First(t)..Len(t) : t[i].w = "INTO" \/ Phrase(t, i)
            \/ "query" \in Refusals(t)[First(t)]
            \/ \E i \in (First(t) + 1)..Len(t) :
                  t[i].w = "WITH" /\ t[i - 1].w = "(" /\ "list" \in Refusals(t)[i + 1]

---------------------------------------------------------------------------
(* The external-schema guard.                                               *)

SchemaWords == {"CREATE", "ALTER", "DROP", "GRANT", "COMMENT", "REFRESH"}
TsqlSchemaWords == {"CREATE", "ALTER", "DROP", "GRANT"}
SchemaProcedures == {"sp_rename", "sp_executesql"}

\* onlyTemporaryObjects, where the verb stands at i: a DROP has a name after each comma.
Temporary(t, i) ==
    /\ W(t, i + 1) = "TABLE"
    /\ W(t, i + 2) = "#temp"
    /\ t[i].w = "DROP" =>
           \A n \in 1..Len(t) : (\A k \in 1..n : W(t, i + 1 + 2 * k) = Comma) => W(t, i + 2 + 2 * n) = "#temp"

\* execRefusal
Dynamic(t, i) == W(t, i) \in {"(", "@var", "literal"} \cup SchemaProcedures

\* The verb an INTO at i belongs to: the last at its own depth, an OUTPUT of a write included.
Verbs == {"SELECT", "INSERT", "UPDATE", "DELETE", "MERGE"}
LastVerb(t, i) ==
    LET V[j \in 0..Len(t)] ==
            IF j = 0 THEN "none"
            ELSE IF t[j].d # t[i].d THEN V[j - 1]
            ELSE IF t[j].w \in Verbs THEN t[j].w
            ELSE IF t[j].w = "OUTPUT" /\ V[j - 1] \in Verbs \ {"SELECT"} THEN "OUTPUT" ELSE V[j - 1]
    IN  V[i - 1]

CreatesInto(t, engine) ==
    \E i \in DOMAIN t : /\ t[i].w = "INTO" /\ LastVerb(t, i) = "SELECT" /\ W(t, i + 1) # "#temp"
                        /\ ~(engine = "mysql" /\ W(t, i + 1) = "@var")

\* SQL Server's rules: a statement may begin anywhere outside parentheses.
TsqlRefused(t) ==
    \/ W(t, 1) \in SchemaProcedures
    \/ \E i \in DOMAIN t :
          \/ t[i].w = "EXEC" /\ Dynamic(t, i + 1)
          \/ t[i].w = "OPENQUERY"
          \/ /\ i > 1 /\ t[i].d = 0 /\ t[i].w \in TsqlSchemaWords
             /\ W(t, i + 1) # "COLUMN" /\ ~Temporary(t, i)
          \/ t[i].d = 0 /\ t[i].w = "DISABLE" /\ W(t, i + 1) = "TRIGGER"
          \/ t[i].d = 0 /\ t[i].w = "DBCC"

\* explainedStatement: past the options of an EXPLAIN.
Explained(t) ==
    LET from == IF W(t, 2) = "(" THEN Closing(t, 2) + 1 ELSE 2
        rest == {i \in from..Len(t) : t[i].w \notin {"ANALYZE", "VERBOSE"}}
    IN  IF W(t, 1) # "EXPLAIN" \/ rest = {} THEN <<>>
        ELSE SubSeq(t, CHOOSE i \in rest : \A j \in rest : i <= j, Len(t))

\* schemaStatementRefusal of a statement, but for what an EXPLAIN explains ...
OneRefused(t, engine) ==
    /\ t # <<>>
    /\ \/ t[1].w \in SchemaWords /\ ~Temporary(t, 1)
       \/ t[1].w = "VACUUM" /\ W(t, 2) = "FULL"
       \/ t[1].w = "SET" /\ \E i \in DOMAIN t : t[i].w = "FOREIGN_KEY_CHECKS"
       \/ t[1].w = "PREPARE" /\ ~(IsName(t, 2) /\ W(t, 3) = "AS")
       \/ t[1].w = "DO" /\ engine # "mysql"
       \/ engine = "tsql" /\ TsqlRefused(t)
       \/ CreatesInto(t, engine)

\* ... and with it.
StatementRefused(t, engine) == OneRefused(t, engine) \/ OneRefused(Explained(t), engine)

\* externalSchemaRefusal: one statement at a time.
SchemaRefused(t, engine) ==
    LET ends == {0, Len(t) + 1} \cup {i \in DOMAIN t : t[i].w = Semicolon}
    IN  \E a, b \in ends : /\ a < b /\ \A c \in ends : c <= a \/ b <= c
                           /\ StatementRefused(SubSeq(t, a + 1, b - 1), engine)

---------------------------------------------------------------------------
(* What a statement does, and how it is written down.                       *)

\* A query: WITH ctes, and a verb with what follows it; sub is a query in parentheses in it.
PlainQuery(verb, tail) == [ctes |-> <<>>, verb |-> verb, tail |-> tail, sub |-> <<>>]

Tails == [none |-> <<"name">>, into |-> <<"INTO", "name">>, lock |-> <<"FOR", "UPDATE">>,
          call |-> <<"set_config", "(", ")">>, column |-> <<"COPY">>]

Flat(q, d) == Words(<<q.verb>> \o Tails[q.tail], d)
Nested(q, d) ==
    LET cte(k) == Words(<<"name", "AS", "(">>, d) \o Flat(q.ctes[k], d + 1) \o Words(<<")">>, d)
        list == FlattenSeq([k \in DOMAIN q.ctes |-> IF k = 1 THEN cte(k) ELSE Words(<<Comma>>, d) \o cte(k)])
    IN  (IF q.ctes = <<>> THEN <<>> ELSE Words(<<"WITH">>, d) \o list) \o Flat(q, d)
Tokens(q) ==
    Nested(q, 0) \o (IF q.sub = <<>> THEN <<>>
                     ELSE Words(<<"FROM", "(">>, 0) \o Nested(q.sub[1], 1) \o Words(<<")">>, 0))

\* It writes, locks or changes a setting, itself or through a part of it.
Harmful(q) == q.verb = "DELETE" \/ q.tail \in {"into", "lock", "call"}
QueryHarms(q) ==
    LET own(x) == Harmful(x) \/ \E k \in DOMAIN x.ctes : Harmful(x.ctes[k])
    IN  own(q) \/ \E k \in DOMAIN q.sub : own(q.sub[k])

\* What a query may be: its list is of plain ones, and one in parentheses is no DELETE but behind
\* a WITH of its own, which is all that SQL has.
Plains == {PlainQuery(verb, tail) : verb \in {"SELECT", "DELETE"}, tail \in DOMAIN Tails}
Formed(x) == x.verb \in {"SELECT", "DELETE"} /\ x.tail \in DOMAIN Tails /\ x.ctes \in Seq(Plains)
Nestable(x) == Formed(x) /\ (x.ctes = <<>> => x.verb = "SELECT")

ASSUME QueriesAssumption ==
    \A q \in Queries : Formed(q) /\ (q.sub = <<>> \/ (q.sub = <<q.sub[1]>> /\ Nestable(q.sub[1])))

\* It uses a name that is one of Writing, in itself or in a part of it.
NamedAsKeyword(q) ==
    LET own(x) == x.tail = "column" \/ \E k \in DOMAIN x.ctes : x.ctes[k].tail = "column"
    IN  own(q) \/ \E k \in DOMAIN q.sub : own(q.sub[k])

\* What is refused is exactly a query that writes, at whatever depth of it; and, in a raw text and
\* in whatever is rendered for SQL Server, one that uses a name that is a keyword, which what is
\* rendered for the other engines may (readonly.go:96-203, 636-779).
GuardedAsRead(q, engine) ==
    /\ RawRefused(Tokens(q), engine) <=> QueryHarms(q) \/ NamedAsKeyword(q)
    /\ ShapeRefused(Tokens(q), engine) <=> QueryHarms(q) \/ (engine = "tsql" /\ NamedAsKeyword(q))
ReadsOnly == \A query \in queries : GuardedAsRead(query.tree, query.engine)

\* A statement of a batch, by what it is and what it is about.
Spelled == [select |-> <<"SELECT", "name", "FROM", "name">>,
            intoNew |-> <<"SELECT", "name", "INTO", "name">>,
            intoTemp |-> <<"SELECT", "name", "INTO", "#temp">>,
            insert |-> <<"INSERT", "INTO", "name", "SELECT", "name">>,
            create |-> <<"CREATE", "TABLE", "name">>,
            createTemp |-> <<"CREATE", "TABLE", "#temp">>,
            dropTemp |-> <<"DROP", "TABLE", "#temp", Comma, "#temp">>,
            dropBoth |-> <<"DROP", "TABLE", "#temp", Comma, "name">>,
            alterTemp |-> <<"ALTER", "TABLE", "#temp", "DROP", "COLUMN", "name">>,
            call |-> <<"EXEC", "name">>,
            dynamic |-> <<"EXEC", "@var">>,
            rename |-> <<"EXEC", "sp_rename", "literal">>,
            vacuum |-> <<"VACUUM", "name">>,
            vacuumFull |-> <<"VACUUM", "FULL", "name">>,
            prepared |-> <<"PREPARE", "name", "AS", "SELECT", "name">>]
OutputWrite == Words(<<"UPDATE", "name", "SET", "name", "=", "(">>, 0) \o Words(<<"SELECT", "name">>, 1)
              \o Words(<<")", "OUTPUT", "name", "INTO", "name">>, 0)

Written(s) == (IF s.explain THEN Words(<<"EXPLAIN", "ANALYZE">>, 0) ELSE <<>>)
                  \o (IF s.kind = "output" THEN OutputWrite ELSE Words(Spelled[s.kind], 0))

Changing == {"intoNew", "create", "dropBoth", "vacuumFull", "rename", "dynamic"}
TsqlKinds == (DOMAIN Spelled \ {"vacuum", "vacuumFull", "prepared"}) \cup {"output"}
OtherKinds == {"select", "intoNew", "insert", "create", "vacuum", "vacuumFull", "prepared"}

\* A batch: its statements one after the other, which SQL Server runs without a ";" too.
Batch(ss, separated) ==
    FlattenSeq([k \in DOMAIN ss |-> IF k > 1 /\ separated THEN Words(<<Semicolon>>, 0) \o Written(ss[k])
                                    ELSE Written(ss[k])])

\* A batch is refused exactly when a statement of it changes the schema, or runs what cannot be
\* read: however it follows another, or is explained; a session's temporary tables are its own,
\* and an INTO that names a target of a write creates none (readonly.go:205-302, 804-888).
SchemaKept ==
    \A batch \in batches :
        (\E k \in DOMAIN batch.statements : batch.statements[k].kind \in Changing)
        <=> SchemaRefused(Batch(batch.statements, batch.separated), batch.engine)

ASSUME BatchesAssumption ==
    \A b \in Batches :
        IF b.engine = "tsql"
        THEN b.statements \in Seq([kind : TsqlKinds, explain : {FALSE}])
        ELSE b.separated /\ b.statements \in Seq([kind : OtherKinds, explain : BOOLEAN])

\* Neither guard lets through what it is there for, or stops what is not.
PoliciesHold == ReadsOnly /\ SchemaKept

PolicyInit == /\ queries \subseteq [engine : {"tsql", "postgres"}, tree : Queries]
              /\ batches \subseteq Batches
PolicyNext == UNCHANGED <<queries, batches>>
PolicySpec == PolicyInit /\ [][PolicyNext]_<<queries, batches>>
=============================================================================
