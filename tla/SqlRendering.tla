----------------------------- MODULE SqlRendering -----------------------------
(***************************************************************************)
(* One query, rendered by every dialect: what the three promise together.  *)
(***************************************************************************)
EXTENDS Sequences, Naturals, SequencesExt

CONSTANTS MaxBindParameters, MaxInsertRows

Ansi == INSTANCE SqlPortable
TSQL == INSTANCE SqlServerDialect

\* The questions put to the dialects: a query and whether its caller kept to what the portable
\* dialects check nothing of: as many arguments as placeholders, no mark inside a name, no "?"
\* as an escape.
VARIABLE asked

SqlEngines == {"postgres", "mysql", "sqlserver"}
PortableEngines == SqlEngines \ {"sqlserver"}
Answer(engine, readOnly, a) ==
    IF engine = "sqlserver" THEN TSQL!FormatQuery([readOnly |-> readOnly], a.query)
    ELSE Ansi!FormatQuery([name |-> engine, readOnly |-> readOnly, unfaithful |-> FALSE], a.query, FALSE)

---------------------------------------------------------------------------
Holes(text) == LET holes == SelectSeq(text, LAMBDA p : p.is = "hole")
               IN  [i \in DOMAIN holes |-> holes[i].of]

\* An argument reaches the placeholder it was given for.  gorm counts placeholders from the
\* left and knows no names: a SET rendered after the filter it is bound before, a name that
\* holds a "?", or an escape that is one, moves every argument after it.  SQL Server refuses
\* the last two; the portable dialects are only asked about queries without them.
HolesMatchArgs(a, e, r) == r.err = "" /\ (e = "sqlserver" \/ a.tidy) => Holes(r.text) = r.args

---------------------------------------------------------------------------
(* What a query carries: the names and values its author put into it.      *)
Marks(names) == {names[i] : i \in DOMAIN names}
RECURSIVE Carries(_), Wants(_)
Operand(o) == IF o.t = "Query" THEN (IF o.query = <<>> THEN {} ELSE Carries(o.query[1])) ELSE {o.of}
Wants(c) ==
    CASE c.t \in {"binary", "like"} -> Operand(c.field) \cup Operand(c.value)
      [] c.t \in {"unary", "null"} -> Operand(c.field)
      [] c.t = "in" -> IF c.sub THEN Operand(c.field) \cup Carries(c.query[1])
                       ELSE IF c.values = <<>> THEN {} ELSE Operand(c.field) \cup Marks(c.values)
      [] c.t = "between" -> Operand(c.field) \cup Operand(c.lower) \cup Operand(c.upper)
      [] c.t = "exists" -> Carries(c.query[1])
      [] c.t = "raw" -> {c.args[i].of : i \in DOMAIN c.args} \cup (IF "'ILIKE'" \in Marks(c.sql) THEN {"ILIKE"} ELSE {})
      [] c.t = "composite" -> UNION {Wants(c.parts[i]) : i \in DOMAIN c.parts}
      [] c.t = "where" -> UNION {Wants(c.conds[i]) : i \in DOMAIN c.conds}
      [] c.t = "app" -> Wants(c.inner) \cup {c.extra}
      [] OTHER -> {}
\* An item over a named window is rewritten to the window itself.
Of(items) == {items[i].of : i \in {k \in DOMAIN items : items[k].kind # "over"}} \ {"DISTINCT"}
Carries(q) ==
    LET Write == q.update # <<>> \/ q.delete # <<>>
        Reads(j) == IF ~j.sub THEN {j.table.of} \cup ({j.alias} \ {""})
                    ELSE {j.alias} \cup (IF j.query = <<>> THEN {} ELSE Carries(j.query[1]))
        Trivial(j) == j.lateral /\ j.on # <<>> /\ j.on[1].t \in {"raw", "none"}
    IN  UNION {IF q.sel = <<>> THEN {} ELSE Of(q.sel[1].fields) \cup Marks(q.sel[1].on),
               IF q.from = <<>> THEN {} ELSE Reads(q.from[1]),
               UNION {Reads(q.joins[i]) \cup (IF q.joins[i].on = <<>> \/ Trivial(q.joins[i]) THEN {}
                                              ELSE Wants(q.joins[i].on[1])) : i \in DOMAIN q.joins},
               IF q.where = <<>> THEN {}
               ELSE Wants([t |-> "where", conds |-> q.where[1].conds])
                      \cup (IF Write /\ q.where[1].conds # <<>> THEN {"WHERE"} ELSE {}),
               IF q.group = <<>> THEN {} ELSE Of(q.group[1].fields \o q.group[1].rollup \o q.group[1].cube),
               IF q.having = <<>> \/ q.having[1] = <<>> THEN {} ELSE Wants(q.having[1][1]),
               IF q.order = <<>> THEN {} ELSE {q.order[1][i].of : i \in DOMAIN q.order[1]},
               UNION {{q.ctes[i].name} \cup Carries(q.ctes[i].query) : i \in DOMAIN q.ctes},
               UNION {Carries(q.unions[i].query) : i \in DOMAIN q.unions},
               Marks(q.returning),
               IF q.insert = <<>> THEN {}
               ELSE LET i == q.insert[1] IN
                    {i.table} \cup Marks(i.columns) \cup UNION {Marks(i.values[k]) : k \in DOMAIN i.values}
                      \cup (IF i.from = <<>> THEN {} ELSE Carries(i.from[1]))
                      \cup (IF i.conflict = <<>> \/ i.conflict[1].action # "DO UPDATE" THEN {}
                                 ELSE {i.conflict[1].set[k].value : k \in DOMAIN i.conflict[1].set}),
               IF q.update = <<>> THEN {}
               ELSE {q.update[1].table} \cup {q.update[1].set[k].value : k \in DOMAIN q.update[1].set},
               IF q.delete = <<>> THEN {} ELSE {q.delete[1].table}}

Counted == {"TOP", "OFFSET", "FETCH", "LIMIT", "ALL", "rows"}
Mentioned(text) == {text[i].of : i \in {k \in DOMAIN text : text[k].is \notin Counted}}

\* On SQL Server what a query carries is in its statement, or the query is refused: no clause,
\* no condition an application added and no part of a filter is dropped on the way, so a write
\* never reaches more rows than its author asked for.
SaidOrRefused(a, e, r) ==
    e = "sqlserver" /\ r.err = "" =>
        /\ Carries(a.query) \subseteq Mentioned(r.text)
        /\ a.query.limit # <<>> => \E i \in DOMAIN r.text : r.text[i].is \in {"TOP", "FETCH"}

SaysAndBinds(a, e, r) == HolesMatchArgs(a, e, r) /\ SaidOrRefused(a, e, r)

---------------------------------------------------------------------------
\* The text outside every parenthesis.
Depth(text, i) == LET opened == Len(SelectSeq(SubSeq(text, 1, i), LAMBDA p : p.is = "word" /\ p.of = "("))
                      closed == Len(SelectSeq(SubSeq(text, 1, i), LAMBDA p : p.is = "word" /\ p.of = ")"))
                  IN  opened - closed
Paged(text, word) == LET at == {i \in DOMAIN text : text[i].is = word /\ Depth(text, i) = 0}
                     IN  IF at = {} THEN <<>> ELSE <<text[CHOOSE i \in at : \A j \in at : i <= j].of>>
Pages(text) == Paged(text, "TOP") \o Paged(text, "FETCH") \o Paged(text, "LIMIT")
\* Which of n rows a statement returns.
RowsKept(text, n) == LET skip == IF Paged(text, "OFFSET") = <<>> THEN 0 ELSE Paged(text, "OFFSET")[1]
                 IN  {k \in 1..n : k > skip /\ (Pages(text) = <<>> \/ k <= skip + Pages(text)[1])}

\* One page is the same page on every engine: TOP, OFFSET and FETCH return the rows LIMIT and
\* OFFSET do, the page of no rows and the offset without an order or a limit included.
Comparable(q) == q.update = <<>> /\ q.delete = <<>> /\ (q.insert # <<>> => q.insert[1].conflict = <<>>)
SamePage(answers) ==
    \A e \in PortableEngines :
        answers["sqlserver"].err = "" /\ answers[e].err = "" =>
            \A n \in 0..3 : RowsKept(answers["sqlserver"].text, n) = RowsKept(answers[e].text, n)

---------------------------------------------------------------------------
WriteWords == {"INSERT INTO", "UPDATE", "DELETE", "DELETE FROM", "MERGE INTO"}

\* A dialect of a read-only datasource renders no write, at the top or inside a WITH, a UNION
\* arm, a derived table or a subquery of a condition; and it renders what it may as it would
\* have done without the policy.
ReadsOrRefused(readOnly, open) ==
    readOnly.err = "" =>
        /\ \A i \in DOMAIN readOnly.text : readOnly.text[i].is = "word" => readOnly.text[i].of \notin WriteWords
        /\ readOnly = open

\* A statement says what its query says, binds every value where the query has it, returns the
\* page it asks for on whatever engine, and writes nothing on a read-only datasource.
RendersWhatWasAsked ==
    \A a \in asked :
        LET answers == [e \in SqlEngines |-> Answer(e, FALSE, a)]
        IN  /\ \A e \in SqlEngines : /\ SaysAndBinds(a, e, answers[e])
                                     /\ ReadsOrRefused(Answer(e, TRUE, a), answers[e])
            /\ Comparable(a.query) => SamePage(answers)
=============================================================================
