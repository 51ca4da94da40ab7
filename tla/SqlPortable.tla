----------------------------- MODULE SqlPortable -----------------------------
(***************************************************************************)
(* The PostgreSQL and MySQL dialects (gorm/postgres/v2/dialect.go,         *)
(* gorm/mysql/v2/dialect.go): what FormatQuery renders or refuses.  Where  *)
(* the two files say the same, one operator stands for both.               *)
(***************************************************************************)
EXTENDS SqlConditions

\* Which of the two renders, and how its datasource set it up.
Dialect == [name : {"postgres", "mysql"}, readOnly : BOOLEAN, unfaithful : BOOLEAN]
MySQL(d) == d.name = "mysql"

\* MySQL has no ILIKE: the word goes wherever it stands in a condition's text.
Portable(d, r) ==
    IF r.err # "" \/ ~MySQL(d) THEN r
    ELSE Said([i \in DOMAIN r.text |->
                 IF r.text[i].is \in {"word", "literal"} /\ r.text[i].of = "ILIKE"
                 THEN [r.text[i] EXCEPT !.of = "LIKE"] ELSE r.text[i]], r.args)

Items(items) == Between([i \in DOMAIN items |-> Verbatim(items[i])], ",")

FormatSelect(d, s) ==
    IF MySQL(d) /\ s.on # <<>> THEN Refuse("DISTINCT ON")
    ELSE InTurn(<<Keyword("SELECT"), IF s.distinct THEN Keyword("DISTINCT") ELSE Silence,
                  IF s.distinct /\ s.on # <<>> THEN Then(Keyword("ON"), Parens(List(s.on))) ELSE Silence,
                  Items(s.fields)>>)

\* The conditions that render empty are left out; on PostgreSQL the keyword stays without them.
WhereOf(d, kept, w) ==
    IF w.conds = <<>> \/ (kept = <<>> /\ MySQL(d)) THEN Silence
    ELSE Then(Keyword("WHERE"), Portable(d, Between(kept, w.op)))
FormatWhere(d, w) ==
    WhereOf(d, SelectSeq([i \in DOMAIN w.conds |-> IF Validates(w.conds[i]) THEN ToSQL(w.conds[i])
                                                   ELSE Refuse("not an identifier")],
                         LAMBDA r : r.err # "" \/ r.text # <<>>), w)

FormatHaving(d, h) ==
    IF h = <<>> THEN IF MySQL(d) THEN Silence ELSE Refuse("panic")
    ELSE IF ~Validates(h[1]) THEN Refuse("not an identifier")
    ELSE Then(Keyword("HAVING"), Portable(d, ToSQL(h[1])))

\* MySQL rolls the whole list up, and has neither CUBE nor GROUPING SETS.
FormatGroupBy(d, g) ==
    LET Term(word, items) == IF items = <<>> THEN <<>> ELSE <<Then(Keyword(word), Parens(Items(items)))>>
        sets == [i \in DOMAIN g.sets |-> Parens(Items(g.sets[i]))]
        terms == (IF g.fields = <<>> THEN <<>> ELSE <<Items(g.fields)>>)
                   \o Term("ROLLUP", g.rollup) \o Term("CUBE", g.cube)
                   \o (IF sets = <<>> THEN <<>>
                       ELSE <<Then(Keyword("GROUPING SETS"), Parens(Between(sets, ",")))>>)
    IN  IF ~MySQL(d) THEN Headed("GROUP BY", Between(terms, ","))
        ELSE IF g.cube # <<>> \/ g.sets # <<>> THEN Refuse("GROUPING SETS")
        ELSE Headed("GROUP BY", Then(Items(g.fields \o g.rollup),
                                     IF g.rollup # <<>> THEN Keyword("WITH ROLLUP") ELSE Silence))

OrderByField(o) ==
    InTurn(<<CASE o.raw -> Said(Piece("raw", o.of), <<>>)
               [] ~o.raw /\ IsSimpleIdentifier(o.of) -> Named(o.of)
               [] OTHER -> Hole(o.of), Keyword(IF o.dir = "DESC" THEN "DESC" ELSE "ASC")>>)

\* MySQL takes no OFFSET without a LIMIT: the largest there is stands in for it.
Paging(d, q) ==
    InTurn(<<CASE q.limit # <<>> -> Count("LIMIT", q.limit[1])
               [] q.limit = <<>> /\ q.offset # <<>> /\ MySQL(d) -> Count("ALL", 0)
               [] OTHER -> Silence,
             IF q.offset # <<>> THEN Count("OFFSET", q.offset[1]) ELSE Silence>>)

Returning(d, q) ==
    IF q.returning = <<>> THEN Silence
    ELSE IF MySQL(d) THEN Refuse("RETURNING") ELSE Then(Keyword("RETURNING"), List(q.returning))

(***************************************************************************)
(* The writes.  A SET list is held in the order of dbCore.SortedKeys.      *)
(***************************************************************************)
Assignments(set) == Between([i \in DOMAIN set |-> InTurn(<<Named(set[i].column), Keyword("="),
                                                          Hole(set[i].value)>>)], ",")

\* Fault: what is nested in a statement is rendered without asking.
RefuseWriteAtTop(d, q, nested) ==
    ~nested /\ d.readOnly /\ (q.insert # <<>> \/ q.update # <<>> \/ q.delete # <<>>)

\* A write is refused wherever it is rendered.
RefuseWrite(d, q, nested) == d.readOnly /\ (q.insert # <<>> \/ q.update # <<>> \/ q.delete # <<>>)

OnConflictClause(c) ==
    InTurn(<<Keyword("ON CONFLICT"), IF c.columns = <<>> THEN Silence ELSE Parens(List(c.columns)),
             CASE c.action = "DO NOTHING" -> Keyword("DO NOTHING")
               [] c.action = "DO UPDATE" -> Then(Keyword("DO UPDATE SET"), Assignments(c.set))
               [] OTHER -> Silence>>)
noopUpdateColumn(i, c) == IF i.columns \o c.columns = <<>> THEN Refuse("DO NOTHING") ELSE Named(Head(i.columns \o c.columns))
\* MySQL's own clause fires on any unique index, so it is written only when asked for.
OnDuplicateKey(d, i, c) ==
    CASE c.action = "DO NOTHING" ->
           InTurn(<<Keyword("ON DUPLICATE KEY UPDATE"), noopUpdateColumn(i, c), Keyword("="), noopUpdateColumn(i, c)>>)
      [] c.action = "DO UPDATE" ->
           IF ~d.unfaithful \/ c.set = <<>> THEN Refuse("DO UPDATE")
           ELSE Then(Keyword("ON DUPLICATE KEY UPDATE"), Assignments(c.set))
      [] OTHER -> Refuse("ON CONFLICT")

\* The WHERE of an UPDATE or a DELETE is not validated, and is left out when it renders empty.
Filter(d, q) == IF q.where = <<>> THEN Silence
                ELSE Headed("WHERE", Portable(d, WhereToSQL(q.where[1])))

FormatUpdate(d, q, where) ==
    LET sets == Assignments(q.update[1].set)
        back == Returning(d, q)
        text == Assembled(<<Keyword("UPDATE"), Named(q.update[1].table), Keyword("SET"), sets, where, back>>,
                          sets.args \o where.args)
    IN  IF MySQL(d) /\ (back.err # "" \/ q.update[1].set = <<>>) THEN Refuse("UPDATE") ELSE text

FormatDelete(d, q, where) ==
    InTurn(<<Keyword("DELETE FROM"), Named(q.delete[1].table), where, Returning(d, q)>>)

(***************************************************************************)
(* FormatQuery, and what it nests: a WITH entry, a UNION arm and a derived *)
(* table are queries of their own.                                         *)
(***************************************************************************)
RECURSIVE FormatQuery(_, _, _), FormatSelectQuery(_, _)

FormatSubquery(d, q, alias) ==
    IF q = <<>> THEN Refuse("panic")
    ELSE Then(Parens(FormatQuery(d, q[1], TRUE)), IF alias = "" THEN Silence ELSE Named(alias))

FormatFromClause(d, f) ==
    IF ~f.sub THEN InTurn(<<Keyword("FROM"), Verbatim(f.table),
                            IF f.alias = "" THEN Silence ELSE Named(f.alias)>>)
    ELSE IF f.query = <<>> \/ (MySQL(d) /\ f.alias = "") THEN Refuse("derived table")
    ELSE Then(Keyword("FROM"), FormatSubquery(d, f.query, f.alias))

FormatJoin(d, j) ==
    IF MySQL(d) /\ j.type = "FULL" THEN Refuse("FULL OUTER JOIN")
    ELSE InTurn(<<Keyword(j.type), Keyword("JOIN"),
                  IF j.sub THEN FormatSubquery(d, j.query, j.alias)
                  ELSE Then(Verbatim(j.table), IF j.alias = "" THEN Silence ELSE Named(j.alias)),
                  IF j.on = <<>> THEN Silence ELSE Then(Keyword("ON"), ToSQL(j.on[1]))>>)

FormatCTE(d, c) == Then(Named(c.name), Parens(FormatQuery(d, c.query, TRUE)))
FormatUnion(d, u) == InTurn(<<Keyword("UNION"), IF u.all THEN Keyword("ALL") ELSE Silence, FormatQuery(d, u.query, TRUE)>>)
OrderByClause(q) == IF q.order = <<>> THEN Silence
                    ELSE Headed("ORDER BY", Between([i \in DOMAIN q.order[1] |-> OrderByField(q.order[1][i])], ","))

\* From the WITH to the HAVING.
SelectCore(d, q) ==
    InTurn(<<Headed("WITH", Between([i \in DOMAIN q.ctes |-> FormatCTE(d, q.ctes[i])], ",")),
             IF q.sel = <<>> THEN Keyword("SELECT *") ELSE FormatSelect(d, q.sel[1]),
             IF q.from = <<>> THEN Silence ELSE FormatFromClause(d, q.from[1]),
             InTurn([i \in DOMAIN q.joins |-> FormatJoin(d, q.joins[i])]),
             IF q.where = <<>> THEN Silence ELSE FormatWhere(d, q.where[1]),
             IF q.group = <<>> THEN Silence ELSE FormatGroupBy(d, q.group[1]),
             IF q.having = <<>> THEN Silence ELSE FormatHaving(d, q.having[1])>>)
FormatSelectQuery(d, q) ==
    IF MySQL(d) /\ q.returning # <<>> THEN Refuse("RETURNING")
    ELSE InTurn(<<SelectCore(d, q), OrderByClause(q), Paging(d, q),
                  InTurn([i \in DOMAIN q.unions |-> FormatUnion(d, q.unions[i])]), Returning(d, q)>>)

FormatInsert(d, q, selected) ==
    LET i == q.insert[1]
        Row(r) == Parens(InList(r))
    IN  InTurn(<<Keyword("INSERT INTO"), Named(i.table),
                 IF i.columns = <<>> THEN Silence ELSE Parens(List(i.columns)),
                 CASE i.from # <<>> -> selected
                   [] i.from = <<>> /\ i.values # <<>> ->
                        Then(Keyword("VALUES"), Between([k \in DOMAIN i.values |-> Row(i.values[k])], ","))
                   [] OTHER -> Silence,
                 CASE i.conflict = <<>> -> Silence
                   [] i.conflict # <<>> /\ MySQL(d) -> OnDuplicateKey(d, i, i.conflict[1])
                   [] OTHER -> OnConflictClause(i.conflict[1]),
                 Returning(d, q)>>)

\* The SELECT of a statement: its own, or the one an INSERT takes its rows from.
Selected(q) == IF q.insert # <<>> /\ q.insert[1].from # <<>> THEN q.insert[1].from[1] ELSE q
Statement(d, q, selected, where) ==
    CASE q.insert # <<>> -> FormatInsert(d, q, selected)
      [] q.insert = <<>> /\ q.update # <<>> -> FormatUpdate(d, q, where)
      [] q.insert = <<>> /\ q.update = <<>> /\ q.delete # <<>> -> FormatDelete(d, q, where)
      [] OTHER -> selected
FormatQuery(d, q, nested) ==
    IF RefuseWrite(d, q, nested) THEN Refuse("read-only")
    ELSE Statement(d, q, FormatSelectQuery(d, Selected(q)), Filter(d, q))
=============================================================================
