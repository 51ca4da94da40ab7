--------------------------- MODULE SqlServerDialect ---------------------------
(***************************************************************************)
(* The SQL Server dialect (gorm/sqlserver/v2: dialect.go, dialect_dml.go,  *)
(* conditions.go, identifier.go) over the strict rendering context of      *)
(* core/render.go: every name is delimited, what T-SQL cannot say is       *)
(* refused, and nothing a query carries is left out without a word.        *)
(***************************************************************************)
EXTENDS SqlConditions

CONSTANTS MaxBindParameters,    \* the parameters one statement may carry (2098)
          MaxInsertRows         \* the rows of one VALUES list (1000)

\* A dialect is how its datasource set it up: d.readOnly.

(***************************************************************************)
(* Names.  WithAlias is a table written together with its alias.           *)
(***************************************************************************)
WithAlias == {"Orders o"}
Dotted == {"o.id"}
isIdentifier(n) == n \notin Text \cup Marked \cup WithAlias
isColumnName(n) == isIdentifier(n) /\ n \notin Dotted
quoteIdentifier(n) == Said(Piece("bracketed", n), <<>>)
Quoted(n) == IF isIdentifier(n) THEN quoteIdentifier(n) ELSE Refuse("not a column")
aliasName(n) == IF isColumnName(n) THEN quoteIdentifier(n) ELSE Refuse("not a name")
columnNames(names) == Between([i \in DOMAIN names |-> aliasName(names[i])], ",")
\* Two spellings of one column.
Folded(n) == IF n = "KEY" THEN "key" ELSE n

tableRef(item) == CASE item.kind \in {"name", "aliased"} -> quoteIdentifier(item.of)
                    [] item.kind = "marked" -> Refuse("marked name")
                    [] OTHER -> Verbatim(item)
aliasedTableRef(item, alias) ==
    IF alias = "" THEN tableRef(item)
    ELSE IF item.kind = "aliased" THEN Refuse("two aliases") ELSE Then(tableRef(item), aliasName(alias))

selectItem(item) == CASE item.kind \in {"name", "aliased", "star"} -> quoteIdentifier(item.of)
                      [] item.kind = "marked" -> Refuse("marked name")
                      [] item.kind = "filter" -> Refuse("FILTER")
                      [] item.kind = "said" -> item.said
                      [] OTHER -> Verbatim(item)
groupItem(item) == CASE item.kind = "name" -> quoteIdentifier(item.of)
                     [] item.kind \in {"marked", "position"} -> Refuse("GROUP BY item")
                     [] OTHER -> Verbatim(item)
groupList(items) == Between([i \in DOMAIN items |-> groupItem(items[i])], ",")

\* A DISTINCT written into the first item is taken out of it.
startsWithDistinct(fields) == fields # <<>> /\ fields[1].kind \in {"distinct", "distinct on"}
liftDistinct(fields) == IF startsWithDistinct(fields) THEN fields[1].rest \o Tail(fields) ELSE fields

selectHead(fields, distinct, on, top) ==
    IF on # <<>> \/ (startsWithDistinct(fields) /\ fields[1].kind = "distinct on") THEN Refuse("DISTINCT ON")
    ELSE InTurn(<<Keyword("SELECT"),
                  IF distinct \/ startsWithDistinct(fields) THEN Keyword("DISTINCT") ELSE Silence, top,
                  LET items == liftDistinct(fields) IN
                  IF items = <<>> THEN Keyword("*")
                  ELSE Between([i \in DOMAIN items |-> selectItem(items[i])], ",")>>)

(***************************************************************************)
(* ORDER BY and windows.                                                   *)
(***************************************************************************)
orderByField(o) == Then(IF o.raw THEN Said(Piece("raw", o.of), <<>>) ELSE Quoted(o.of),
                        Keyword(IF o.dir \in {"desc", "DESC"} THEN "DESC" ELSE "ASC"))
orderByList(fields) == Between([i \in DOMAIN fields |-> orderByField(fields[i])], ",")

frameBound(b, kind) ==
    IF b.type \in {"UNBOUNDED PRECEDING", "CURRENT ROW", "UNBOUNDED FOLLOWING"}
    THEN IF b.value = <<>> THEN Keyword(b.type) ELSE Refuse("bound value")
    ELSE IF b.type \notin {"PRECEDING", "FOLLOWING"} THEN Refuse("bound")
    ELSE IF kind = "RANGE" \/ b.value = <<>> \/ b.value[1] < 0 THEN Refuse("frame offset")
    ELSE Then(Count("rows", b.value[1]), Keyword(b.type))

windowFrame(f) ==
    IF f.kind \notin {"ROWS", "RANGE"} \/ f.exclude \/ f.start = <<>> THEN Refuse("frame")
    ELSE IF f.end = <<>> THEN Then(Keyword(f.kind), frameBound(f.start[1], f.kind))
    ELSE InTurn(<<Keyword(f.kind), Keyword("BETWEEN"), frameBound(f.start[1], f.kind), Keyword("AND"),
                  frameBound(f.end[1], f.kind)>>)

windowDefinition(w) ==
    InTurn(<<Headed("PARTITION BY", Between([i \in DOMAIN w.partition |-> Quoted(w.partition[i])], ",")),
             Headed("ORDER BY", orderByList(w.order)),
             IF w.frame = <<>> THEN Silence ELSE windowFrame(w.frame[1])>>)

\* The builder's text for a window gives way to T-SQL's; one no item uses is checked all the same.
overWindows(fields, windows) ==
    LET of(item) == SelectSeq(windows, LAMBDA w : item.kind = "over" /\ w.name = item.of)
        checked == InTurn([i \in DOMAIN windows |-> windowDefinition(windows[i])])
    IN  IF checked.err # "" THEN <<[kind |-> "said", said |-> checked]>>
        ELSE [i \in DOMAIN fields |->
                IF of(fields[i]) = <<>> THEN fields[i]
                ELSE [kind |-> "said", said |-> Then(Keyword("OVER"),
                                                     Parens(windowDefinition(of(fields[i])[1])))]]

(***************************************************************************)
(* Pagination: TOP where it says the same, else OFFSET and FETCH.          *)
(***************************************************************************)
Scopes == {"top", "cte", "sub", "arm", "source"}
hasOrderBy(q) == q.order # <<>> /\ q.order[1] # <<>>
Negative(n) == n # <<>> /\ n[1] < 0
TopSays(q) == q.limit # <<>> /\ (q.offset = <<>> \/ q.offset[1] = 0 \/ q.limit[1] = 0)
\* Fault: an offset without an order is taken for nothing to skip.
OffsetNeedsOrder(q) == ~TopSays(q) /\ q.offset # <<>> /\ hasOrderBy(q)
OffsetSays(q) == ~TopSays(q) /\ q.offset # <<>> /\ (q.offset[1] > 0 \/ hasOrderBy(q))

NoPage == [top |-> Silence, offset |-> Silence, synthetic |-> FALSE]
paginate(q, scope) ==
    CASE Negative(q.limit) \/ Negative(q.offset) -> [NoPage EXCEPT !.top = Refuse("negative")]
      [] scope = "arm" -> IF q.limit # <<>> \/ q.offset # <<>> \/ hasOrderBy(q)
                          THEN [NoPage EXCEPT !.top = Refuse("paged arm")] ELSE NoPage
      [] TopSays(q) -> [NoPage EXCEPT !.top = Count("TOP", q.limit[1])]
      [] OffsetSays(q) ->
           LET synthetic == ~hasOrderBy(q) IN
           IF synthetic /\ q.sel # <<>> /\ (q.sel[1].distinct \/ startsWithDistinct(q.sel[1].fields))
           THEN [NoPage EXCEPT !.top = Refuse("DISTINCT with an offset")]
           ELSE [top |-> Silence, synthetic |-> synthetic,
                 offset |-> Then(Count("OFFSET", q.offset[1]),
                                 IF q.limit = <<>> THEN Silence ELSE Count("FETCH", q.limit[1]))]
      [] OTHER -> IF hasOrderBy(q) /\ scope \in {"cte", "sub"}
                  THEN [NoPage EXCEPT !.top = Refuse("ordered subquery")] ELSE NoPage

(***************************************************************************)
(* Conditions under the strict context.                                    *)
(***************************************************************************)
tsqlOperators == [o \in {"=", "<>", "!=", "<", "<=", ">", ">=", "LIKE", "NOT LIKE", "NOT", "EXISTS",
                         "NOT EXISTS", "IS DISTINCT FROM", "IS NOT DISTINCT FROM"} |-> o]
tsqlOperator(op) == CASE op = "ILIKE" -> Keyword("LIKE")
                      [] op = "NOT ILIKE" -> Keyword("NOT LIKE")
                      [] op \in DOMAIN tsqlOperators -> Keyword(tsqlOperators[op])
                      [] OTHER -> Refuse("operator")
booleanOperator(op) == IF op = "" THEN "AND" ELSE op
emptyIn(not) == Keyword(IF not THEN "1=1" ELSE "1=0")
isLikeEscape(e) == e \notin {"?", "@", "'", "!!"}
\* The operator goes, a word inside a literal or a delimited name stays.
rewriteILIKE(sql) == [i \in DOMAIN sql |-> IF sql[i] = "ILIKE" THEN "LIKE" ELSE sql[i]]

RECURSIVE RenderCondition(_, _), formatSelect(_, _, _)

\* *Query operands: nil is refused, the rest render as subqueries.
subquery(d, q) == IF q = <<>> THEN Refuse("nil subquery") ELSE formatSelect(d, q[1], "sub")
identifierOperand(o, nested) == CASE o.t = "Raw" -> Said(Piece("raw", o.of), <<>>)
                                  [] o.t = "Query" -> Parens(nested)
                                  [] o.t \in {"Identifier", "string"} -> Quoted(o.of)
                                  [] OTHER -> Refuse("a value for a column")
valueOperand(o, nested) == IF o.t = "Query" THEN Parens(nested) ELSE Hole(o.of)
rightOperand(o, nested) == IF o.t \in {"Raw", "Identifier"} THEN identifierOperand(o, nested)
                           ELSE valueOperand(o, nested)

\* The parts that render empty go, and the parentheses follow those that are left.
renderConditionParts(said) == SelectSeq(said, LAMBDA r : r.err # "" \/ r.text # <<>>)
RenderWhere(parts, op) ==
    IF op \notin {"", "AND", "OR"} THEN Refuse("joining operator") ELSE Between(parts, booleanOperator(op))
Composite(parts, op) ==
    LET joined == RenderWhere(parts, op) IN
    IF joined.err # "" \/ Len(parts) <= 1 THEN joined ELSE Parens(joined)

\* Fault: the rendering Go promotes from what is embedded.
PromotedRendering(c, inner) == IF Validates(c) THEN inner ELSE Refuse("not an identifier")
\* An application's condition is validated and renders itself, with what it adds: what it
\* embeds is never rendered in its place.
OwnRendering(c, inner) == IF Validates(c) THEN ToSQL(c) ELSE Refuse("not an identifier")

Binary(c, field, nested) == InTurn(<<field, tsqlOperator(c.op), rightOperand(c.value, nested["value"])>>)
Unary(c, field) == Then(tsqlOperator(c.op), field)
In(c, field, nested) ==
    IF field.err = "" /\ ~c.sub /\ c.values = <<>> THEN emptyIn(c.not)
    ELSE InTurn(<<field, Keyword(Not(c, "IN")), Parens(IF c.sub THEN nested["query"] ELSE InList(c.values))>>)
BetweenBounds(c, field, nested) ==
    InTurn(<<field, Keyword(Not(c, "BETWEEN")), valueOperand(c.lower, nested["lower"]), Keyword("AND"),
             valueOperand(c.upper, nested["upper"])>>)
Exists(c, nested) == Then(Keyword(Not(c, "EXISTS")), Parens(nested["query"]))
Like(c, field, nested) ==
    IF c.escape # "" /\ ~isLikeEscape(c.escape) THEN Refuse("escape")
    ELSE InTurn(<<field, Keyword(Not(c, "LIKE")), valueOperand(c.value, nested["value"]),
                  IF c.escape = "" THEN Silence ELSE Said(Piece("escape", c.escape), <<>>)>>)
IsNull(c, field) == Then(field, Keyword(Not(c, "NULL")))
RawCondition(c) == Expand(rewriteILIKE(c.sql), c.args, TRUE)

\* contextSQL: a condition from the renderings of what it nests.
contextSQL(c, field, nested, said) ==
    CASE c.t = "nil" -> Refuse("nil condition")
      [] c.t = "none" -> Silence
      [] c.t = "binary" -> Binary(c, field, nested)
      [] c.t = "unary" -> Unary(c, field)
      [] c.t = "in" -> In(c, field, nested)
      [] c.t = "between" -> BetweenBounds(c, field, nested)
      [] c.t = "exists" -> Exists(c, nested)
      [] c.t = "like" -> Like(c, field, nested)
      [] c.t = "null" -> IsNull(c, field)
      [] c.t = "raw" -> RawCondition(c)
      [] c.t \in {"composite", "where"} -> Composite(renderConditionParts(said), c.op)
      [] c.t = "app" -> OwnRendering(c, said[1])
inContext(c, nested, said) == contextSQL(c, identifierOperand(c.field, nested["field"]), nested, said)
RenderCondition(d, c) == inContext(c, [slot \in OperandSlots \cap DOMAIN c |-> subquery(d, QueryIn(c, slot))],
                                   [i \in DOMAIN Nests(c) |-> RenderCondition(d, Nests(c)[i])])

renderWhere(d, w) ==
    IF w = <<>> THEN Silence
    ELSE RenderWhere(renderConditionParts([i \in DOMAIN w[1].conds |-> RenderCondition(d, w[1].conds[i])]), w[1].op)
FormatWhere(d, w) == Headed("WHERE", renderWhere(d, w))
\* The filter of a write may not come to nothing.
renderFilter(w, said) ==
    IF said = Silence /\ w # <<>> /\ w[1].conds # <<>> THEN Refuse("unfiltered") ELSE Headed("WHERE", said)
FormatHaving(d, h) == IF h = <<>> \/ h[1] = <<>> THEN Silence
                      ELSE Headed("HAVING", RenderCondition(d, h[1][1]))

(***************************************************************************)
(* The clauses of a SELECT.                                                *)
(***************************************************************************)
FormatGroupBy(g) ==
    LET Term(word, items) == IF items = <<>> THEN <<>> ELSE <<Then(Keyword(word), Parens(groupList(items)))>>
        sets == Between([i \in DOMAIN g.sets |-> Parens(groupList(g.sets[i]))], ",")
        terms == (IF g.fields = <<>> THEN <<>> ELSE <<groupList(g.fields)>>)
                   \o Term("ROLLUP", g.rollup) \o Term("CUBE", g.cube)
                   \o (IF g.sets = <<>> THEN <<>> ELSE <<Then(Keyword("GROUPING SETS"), Parens(sets))>>)
    IN  Headed("GROUP BY", Between(terms, ","))

FormatSubquery(d, q, alias) ==
    IF q = <<>> THEN Refuse("no query")
    ELSE Then(Parens(formatSelect(d, q[1], "sub")), IF alias = "" THEN Silence ELSE aliasName(alias))

\* What FROM, JOIN and APPLY read.
joinTarget(d, j) == IF ~j.sub THEN aliasedTableRef(j.table, j.alias)
                    ELSE IF j.alias = "" THEN Refuse("unaliased derived table")
                    ELSE FormatSubquery(d, j.query, j.alias)

joinKinds == {"", "INNER", "LEFT", "LEFT OUTER", "RIGHT", "RIGHT OUTER", "FULL", "FULL OUTER", "CROSS"}
applyKinds == [k \in {"", "INNER", "CROSS", "CROSS APPLY", "LEFT", "LEFT OUTER", "OUTER APPLY"} |->
                 IF k \in {"LEFT", "LEFT OUTER", "OUTER APPLY"} THEN "OUTER APPLY" ELSE "CROSS APPLY"]
isTrivialOn(on) == on = <<>> \/ on[1].t = "none" \/ (on[1].t = "raw" /\ on[1].args = <<>> /\ on[1].sql = <<"true">>)

renderJoinOn(said) == IF said = Silence THEN Refuse("empty ON") ELSE said

formatApply(d, j) ==
    IF j.type \notin DOMAIN applyKinds \/ ~isTrivialOn(j.on) THEN Refuse("LATERAL")
    ELSE Then(Keyword(applyKinds[j.type]), joinTarget(d, j))

FormatJoin(d, j) ==
    IF j.type = "NATURAL" THEN Refuse("NATURAL JOIN")
    ELSE IF j.lateral \/ j.type \in {"CROSS APPLY", "OUTER APPLY"} THEN formatApply(d, j)
    ELSE IF j.type \notin joinKinds \/ ((j.type = "CROSS") # (j.on = <<>>)) THEN Refuse("JOIN")
    ELSE InTurn(<<Keyword(j.type), Keyword("JOIN"), joinTarget(d, j),
                  IF j.on = <<>> THEN Silence ELSE Then(Keyword("ON"), renderJoinOn(RenderCondition(d, j.on[1])))>>)

FormatCTE(d, c) == Then(aliasName(c.name), Parens(formatSelect(d, c.query, "cte")))
formatWith(d, ctes) == Headed("WITH", Between([i \in DOMAIN ctes |-> FormatCTE(d, ctes[i])], ","))
FormatUnion(d, u) == InTurn(<<Keyword("UNION"), IF u.all THEN Keyword("ALL") ELSE Silence,
                              formatSelect(d, u.query, "arm")>>)

statementKind(q) == (IF q.insert # <<>> THEN {"INSERT"} ELSE {}) \cup
                    (IF q.update # <<>> THEN {"UPDATE"} ELSE {}) \cup
                    (IF q.delete # <<>> THEN {"DELETE"} ELSE {})

\* What a SELECT may not carry where it stands.
selectRefusal(d, q, scope) ==
    CASE statementKind(q) # {} -> IF d.readOnly THEN "read-only" ELSE "nested write"
      [] statementKind(q) = {} /\ q.returning # <<>> -> "RETURNING"
      [] q.unions # <<>> /\ (scope = "arm" \/ hasOrderBy(q) \/ q.limit # <<>> \/ q.offset # <<>>) -> "UNION"
      [] q.ctes # <<>> /\ scope \notin {"top", "source"} -> "nested WITH"
      [] OTHER -> ""
formatFromClause(d, f) == Then(Keyword("FROM"), joinTarget(d, f))
selectTail(q, page) ==
    Then(CASE hasOrderBy(q) -> Then(Keyword("ORDER BY"), orderByList(q.order[1]))
           [] page.synthetic -> Keyword("ORDER BY (SELECT NULL)")
           [] OTHER -> Silence, page.offset)

formatSelect(d, q, scope) ==
    LET page == paginate(q, scope)
        s == IF q.sel = <<>> THEN [fields |-> <<>>, distinct |-> FALSE, on |-> <<>>] ELSE q.sel[1]
        why == selectRefusal(d, q, scope)
    IN  IF why # "" THEN Refuse(why)
        ELSE InTurn(<<IF scope = "top" THEN formatWith(d, q.ctes) ELSE Silence,
                      selectHead(overWindows(s.fields, q.windows), s.distinct, s.on, page.top),
                      IF q.from = <<>> THEN Silence ELSE formatFromClause(d, q.from[1]),
                      InTurn([i \in DOMAIN q.joins |-> FormatJoin(d, q.joins[i])]),
                      FormatWhere(d, q.where),
                      IF q.group = <<>> THEN Silence ELSE FormatGroupBy(q.group[1]),
                      FormatHaving(d, q.having),
                      InTurn([i \in DOMAIN q.unions |-> FormatUnion(d, q.unions[i])]),
                      selectTail(q, page)>>)

(***************************************************************************)
(* The writes.  A clause a write does not take is refused, not ignored.    *)
(***************************************************************************)
hasSelectList(q) == q.sel # <<>> /\ (q.sel[1].fields # <<>> \/ q.sel[1].distinct \/ q.sel[1].on # <<>>)
hasWhere(q) == q.where # <<>> /\ q.where[1].conds # <<>>
hasGroupBy(q) == q.group # <<>> /\ (q.group[1].fields \o q.group[1].rollup \o q.group[1].cube # <<>>
                                    \/ q.group[1].sets # <<>>)
hasHaving(q) == q.having # <<>> /\ q.having[1] # <<>>
Ignorable(q) == hasSelectList(q) \/ q.from # <<>> \/ q.joins # <<>> \/ hasGroupBy(q) \/ hasHaving(q)
                \/ hasOrderBy(q) \/ q.offset # <<>> \/ q.unions # <<>>
insertRefusals(q) == Ignorable(q) \/ hasWhere(q) \/ q.limit # <<>>
dmlRefusals(q) == Ignorable(q)

dmlTarget(table) == IF table = "" \/ table \in WithAlias \cup Marked THEN Refuse("target")
                    ELSE IF isIdentifier(table) THEN quoteIdentifier(table) ELSE Verbatim([of |-> table])
dmlTop(q) == CASE q.limit = <<>> -> Silence
               [] Negative(q.limit) -> Refuse("negative")
               [] OTHER -> Count("TOP", q.limit[1])
outputItem(f) == IF isColumnName(f) THEN quoteIdentifier(f) ELSE Refuse("RETURNING")
formatOutput(fields) == Headed("OUTPUT", Between([i \in DOMAIN fields |-> outputItem(fields[i])], ","))
SetList(sets, targets) ==
    Between([i \in DOMAIN sets |-> InTurn(<<targets[i], Keyword("="), Hole(sets[i].value)>>)], ",")

isDefaultValues(i) == i.values \in {<<>>, <<<<>>>>}
valuesList(rows, columns) ==
    LET width == IF columns = <<>> THEN Len(rows[1]) ELSE Len(columns) IN
    IF width = 0 \/ \E k \in DOMAIN rows : Len(rows[k]) # width THEN Refuse("row width")
    ELSE Then(Keyword("VALUES"), Between([k \in DOMAIN rows |-> Parens(InList(rows[k]))], ","))
SourceCTEs(i) == IF i.from = <<>> THEN <<>> ELSE i.from[1].ctes

\* The rows an upsert reads, as a derived table; a SELECT's WITH moves to the front.
upsertSource(i, selected) ==
    IF i.from = <<>>
    THEN IF isDefaultValues(i) THEN Refuse("no rows") ELSE Parens(valuesList(i.values, i.columns))
    ELSE IF i.values # <<>> THEN Refuse("two sources") ELSE Parens(selected)

\* The match names a column as the INSERT spells it.
Matches(i, c) ==
    LET at(n) == {k \in DOMAIN i.columns : Folded(i.columns[k]) = Folded(n)}
        match(n) == IF ~isColumnName(n) \/ at(n) = {} THEN Refuse("conflict column")
                    ELSE LET k == CHOOSE x \in at(n) : \A y \in at(n) : x <= y
                         IN  InTurn(<<quoteIdentifier(i.columns[k]), Keyword("="), quoteIdentifier(i.columns[k])>>)
    IN  IF c.columns = <<>> THEN Refuse("ON CONFLICT")
        ELSE Between([k \in DOMAIN c.columns |-> match(c.columns[k])], "AND")

\* DO NOTHING is an INSERT of the rows no match exists for, under a lock that keeps it so.
formatDoNothing(q, with, table, columns, source) ==
    InTurn(<<with, Keyword("INSERT INTO"), table, Parens(columns), formatOutput(q.returning),
             Keyword("SELECT"), columns, Keyword("FROM"), source, Parens(columns), Keyword("WHERE NOT EXISTS"),
             Keyword("UPDLOCK"), Keyword("HOLDLOCK"), Matches(q.insert[1], q.insert[1].conflict[1])>>)
\* DO UPDATE is a MERGE.
formatMerge(q, with, table, columns, source) ==
    LET i == q.insert[1]
        set == i.conflict[1].set
        sets == SetList(set, [k \in DOMAIN set |-> aliasName(set[k].column)])
    IN  IF i.conflict[1].set = <<>> THEN Refuse("DO UPDATE")
        ELSE Assembled(<<with, Keyword("MERGE INTO"), table, Keyword("HOLDLOCK"), Keyword("USING"), source,
                         Parens(columns), Keyword("ON"), Matches(i, i.conflict[1]), Keyword("UPDATE SET"), sets,
                         Keyword("INSERT"), Parens(columns), Keyword("VALUES"), Parens(columns),
                         formatOutput(q.returning), Keyword(";")>>,
                       with.args \o source.args \o sets.args)
formatUpsert(q, with, table, columns, source) ==
    CASE q.insert[1].conflict[1].action = "DO NOTHING" -> formatDoNothing(q, with, table, columns, source)
      [] q.insert[1].conflict[1].action = "DO UPDATE" -> formatMerge(q, with, table, columns, source)
      [] OTHER -> Refuse("ON CONFLICT")

InsertedRows(i, selected) ==
    CASE i.from # <<>> -> IF i.values # <<>> THEN Refuse("two sources") ELSE selected
      [] i.from = <<>> /\ isDefaultValues(i) -> IF i.columns # <<>> THEN Refuse("no values")
                                                ELSE Keyword("DEFAULT VALUES")
      [] OTHER -> IF Len(i.values) > MaxInsertRows THEN Refuse("too many rows")
                  ELSE valuesList(i.values, i.columns)
formatInsert(q, with, selected) ==
    LET i == q.insert[1] IN
    IF insertRefusals(q) THEN Refuse("clause of an INSERT")
    ELSE IF i.conflict # <<>>
    THEN formatUpsert(q, with, dmlTarget(i.table), columnNames(i.columns), upsertSource(i, selected))
    ELSE InTurn(<<with, Keyword("INSERT INTO"), dmlTarget(i.table),
                  IF i.columns = <<>> THEN Silence ELSE Parens(columnNames(i.columns)),
                  formatOutput(q.returning), InsertedRows(i, selected)>>)

\* The SET of an UPDATE stands before its WHERE, and so do its arguments.
UpdateArgs(with, sets, where) == with.args \o sets.args \o where.args

formatUpdate(q, with, where) ==
    LET set == q.update[1].set
        sets == SetList(set, [k \in DOMAIN set |-> Quoted(set[k].column)])
    IN  IF dmlRefusals(q) \/ q.update[1].set = <<>> THEN Refuse("clause of an UPDATE")
        ELSE Assembled(<<with, Keyword("UPDATE"), dmlTop(q), dmlTarget(q.update[1].table), Keyword("SET"), sets,
                         formatOutput(q.returning), where>>, UpdateArgs(with, sets, where))

formatDelete(q, with, where) ==
    IF dmlRefusals(q) THEN Refuse("clause of a DELETE")
    ELSE InTurn(<<with, Keyword("DELETE"), dmlTop(q), Keyword("FROM"), dmlTarget(q.delete[1].table),
                  formatOutput(q.returning), where>>)

(***************************************************************************)
(* FormatQuery.  The SELECT of a statement is its own, or the one its rows *)
(* come from; an upsert's source leaves its WITH to the statement.         *)
(***************************************************************************)
SelectOf(q) ==
    IF q.insert = <<>> \/ q.insert[1].from = <<>> THEN [query |-> q, scope |-> "top"]
    ELSE IF q.insert[1].conflict = <<>> THEN [query |-> q.insert[1].from[1], scope |-> "source"]
    ELSE [query |-> [q.insert[1].from[1] EXCEPT !.ctes = <<>>], scope |-> "sub"]
WithOf(q) == IF q.insert = <<>> THEN q.ctes ELSE q.ctes \o SourceCTEs(q.insert[1])

Statement(q, with, selected, where) ==
    CASE statementKind(q) = {} -> selected
      [] statementKind(q) = {"INSERT"} -> formatInsert(q, with, selected)
      [] statementKind(q) = {"UPDATE"} -> formatUpdate(q, with, where)
      [] statementKind(q) = {"DELETE"} -> formatDelete(q, with, where)
      [] OTHER -> Refuse("two writes")
Allowed(d, q, said) ==
    IF statementKind(q) # {} /\ d.readOnly /\ said.err # "two writes" THEN Refuse("read-only")
    ELSE IF Len(said.args) > MaxBindParameters THEN Refuse("too many parameters") ELSE said
FormatQuery(d, q) ==
    Allowed(d, q, Statement(q, formatWith(d, WithOf(q)), formatSelect(d, SelectOf(q).query, SelectOf(q).scope),
                            renderFilter(q.where, renderWhere(d, q.where))))
=============================================================================
