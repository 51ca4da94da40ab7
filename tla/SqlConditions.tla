---------------------------- MODULE SqlConditions ----------------------------
(***************************************************************************)
(* The query value of db/sql/core and the way a condition renders without  *)
(* a dialect (sql_conditions.go, identifier.go, sql_types.go): what        *)
(* Postgres and MySQL emit for it.                                         *)
(*                                                                         *)
(* A rendering is the text and, beside it, the arguments.  The text is a   *)
(* sequence of pieces; a hole is a "?" and remembers the value its author  *)
(* wrote it for, which the code does not: whether the arguments still line *)
(* up with the holes is then a question about the two sequences.           *)
(***************************************************************************)
EXTENDS Sequences, Naturals, SequencesExt

(***************************************************************************)
(* Renderings.                                                             *)
(***************************************************************************)
Piece(is, of) == <<[is |-> is, of |-> of]>>
Said(text, args) == [err |-> "", text |-> text, args |-> args]
Keyword(w) == Said(Piece("word", w), <<>>)
Named(n) == Said(Piece("name", n), <<>>)
Hole(v) == Said(Piece("hole", v), <<v>>)
Refuse(why) == [err |-> why, text |-> <<>>, args |-> <<>>]
Silence == Said(<<>>, <<>>)

\* One rendering after another; the first refusal is the answer.
Then(a, b) == IF a.err # "" THEN a ELSE IF b.err # "" THEN b
              ELSE Said(a.text \o b.text, a.args \o b.args)
InTurn(renderings) ==
    LET upTo[i \in 0..Len(renderings)] ==
            IF i = 0 THEN Silence ELSE Then(upTo[i - 1], renderings[i])
    IN  upTo[Len(renderings)]
\* strings.Join: an empty part keeps its separator.
Between(renderings, word) ==
    InTurn([i \in DOMAIN renderings |->
              IF i = 1 THEN renderings[i] ELSE Then(Keyword(word), renderings[i])])
Parens(a) == InTurn(<<Keyword("("), a, Keyword(")")>>)
\* The keyword goes with a text and not without one.
Headed(word, a) == IF a.err # "" \/ a.text = <<>> THEN a ELSE Then(Keyword(word), a)
List(names) == Between([i \in DOMAIN names |-> Named(names[i])], ",")
Count(is, n) == Said(<<[is |-> is, of |-> n]>>, <<>>)
\* The parts in the order they are written, with the arguments in the order they were collected.
Assembled(parts, args) == LET r == InTurn(parts) IN IF r.err # "" THEN r ELSE Said(r.text, args)

(***************************************************************************)
(* Queries: <<>> is a clause the query does not have, <<c>> the clause c.  *)
(***************************************************************************)
Query0 == [sel |-> <<>>, from |-> <<>>, where |-> <<>>, joins |-> <<>>, order |-> <<>>,
           group |-> <<>>, having |-> <<>>, limit |-> <<>>, offset |-> <<>>, ctes |-> <<>>,
           unions |-> <<>>, windows |-> <<>>, returning |-> <<>>,
           insert |-> <<>>, update |-> <<>>, delete |-> <<>>]

(***************************************************************************)
(* Operands.  A name is one every engine takes for a column, one only a    *)
(* delimiting engine does (2024Orders), one that holds a mark gorm reads   *)
(* as a placeholder whatever delimits it, or text that names nothing.      *)
(***************************************************************************)
Text == {"a=1 OR 1=1"}
Undelimited == {"2024Orders"}
Marked == {"[a?b]"}
IsSimpleIdentifier(n) == n \notin Text \cup Undelimited \cup Marked

\* A select item, a table or an expression, as the caller wrote it.
Verbatim(item) == IF item.of \in Marked THEN Said(Piece("hole", "nothing"), <<>>)
                  ELSE Said(Piece("item", item.of), <<>>)

IsIdentifierOperand(o, accepted, strict) ==
    \/ o.t \in {"Raw", "Query"}
    \/ o.t \in {"Identifier", "string"} /\ accepted
    \/ o.t = "other" /\ ~strict

\* Validate: the identifier slot of a condition, all the way down a composite.
RECURSIVE Validates(_)
Validates(c) ==
    CASE c.t = "composite" -> \A i \in DOMAIN c.parts : Validates(c.parts[i])
      [] c.t \in {"binary", "unary", "in", "between", "like", "null"} ->
             IsIdentifierOperand(c.field, IsSimpleIdentifier(c.field.of), FALSE)
      [] c.t = "app" -> c.valid
      [] OTHER -> TRUE

(***************************************************************************)
(* RawCondition: a text of words, values "?" and identifiers "?.column"    *)
(* and "?.?", whose arguments are taken in turn.                           *)
(***************************************************************************)
\* An identifier the text takes from its arguments: whatever it is on the portable path, a
\* name the strict context accepts, or what the caller vouches for.
Substituted(a, strict) ==
    IF strict /\ a.t # "Raw" /\ a.of \in Text \cup Marked THEN Refuse("not an identifier") ELSE Named(a.of)

RECURSIVE Expand(_, _, _)
Expand(sql, rest, strict) ==
    LET after(n, a) == Then(a, Expand(Tail(sql), SubSeq(rest, n + 1, Len(rest)), strict)) IN
    IF sql = <<>> THEN Said(<<>>, [i \in DOMAIN rest |-> rest[i].of])
    ELSE CASE Head(sql) = "?.?" ->
                IF Len(rest) < 2 THEN Refuse("short")
                ELSE after(2, Then(Substituted(rest[1], strict), Substituted(rest[2], strict)))
           [] Head(sql) \in {"?.column", "?.1e5"} ->
                IF rest = <<>> THEN Refuse("short")
                ELSE after(1, Then(Substituted(rest[1], strict),
                                   IF strict /\ Head(sql) = "?.1e5" THEN Refuse("not an identifier")
                                   ELSE Named("column")))
           [] Head(sql) = "?" ->
                IF rest = <<>> THEN after(0, Said(Piece("hole", "nothing"), <<>>))
                ELSE after(1, Hole(rest[1].of))
           [] Head(sql) = "'ILIKE'" -> after(0, Said(Piece("literal", "ILIKE"), <<>>))
           [] OTHER -> after(0, Keyword(Head(sql)))

\* The text as written, with every argument: each "?" of it is a hole.
AsWritten(c) ==
    LET holes(unit) == CASE unit = "?.?" -> 2 [] unit \in {"?", "?.column", "?.1e5"} -> 1 [] OTHER -> 0
        of(i) == IF i <= Len(c.args) THEN c.args[i].of ELSE "nothing"
        before(i) == FoldLeft(LAMBDA n, unit : n + holes(unit), 0, SubSeq(c.sql, 1, i - 1))
        pieces(i) == IF holes(c.sql[i]) = 0 THEN Piece("word", c.sql[i])
                     ELSE [k \in 1..holes(c.sql[i]) |-> [is |-> "hole", of |-> of(before(i) + k)]]
    IN  Said(FlattenSeq([i \in DOMAIN c.sql |-> pieces(i)]), [i \in DOMAIN c.args |-> c.args[i].of])

RawToSQL(c) ==
    LET said == Expand(c.sql, c.args, FALSE) IN
    IF said.err = "short" THEN AsWritten(c) ELSE said

(***************************************************************************)
(* ToSQL, which is ToSQLContext(nil): it can refuse nothing, so a name in  *)
(* doubt is bound as a value, and a query that is not there is a panic.    *)
(* An application's condition ("app") embeds a condition and adds to it.   *)
(***************************************************************************)
Not(c, word) == IF c.not THEN "NOT " \o word ELSE word
InList(values) == Between([i \in DOMAIN values |-> Hole(values[i])], ",")

RECURSIVE ToSQL(_), BuildSubquerySQL(_)

\* What a condition nests, each rendered where it stands: the conditions it joins, and the
\* query of each of its slots.
Nests(c) == CASE c.t = "composite" -> c.parts
              [] c.t = "where" -> c.conds
              [] c.t = "app" -> <<c.inner>>
              [] OTHER -> <<>>
OperandSlots == {"field", "value", "lower", "upper", "query"}
QueryIn(c, slot) == IF slot = "query" THEN c.query ELSE IF c[slot].t = "Query" THEN c[slot].query ELSE <<>>

IdentifierOperandSQL(o, nested) ==
    CASE o.t = "Raw" -> Said(Piece("raw", o.of), <<>>)
      [] o.t = "Query" -> Parens(nested)
      [] o.t \in {"Identifier", "string"} /\ IsSimpleIdentifier(o.of) -> Named(o.of)
      [] OTHER -> Hole(o.of)
\* A value position: a bare string is a value there.
ValueSQL(o, nested) == IF o.t = "Query" THEN Parens(nested) ELSE Hole(o.of)
RightSQL(o, nested) == IF o.t \in {"Raw", "Identifier"} THEN IdentifierOperandSQL(o, nested) ELSE ValueSQL(o, nested)

BinarySQL(c, field, nested) == InTurn(<<field, Keyword(c.op), RightSQL(c.value, nested["value"])>>)
UnarySQL(c, field) == Then(Keyword(c.op), field)
InSQL(c, field, nested) == InTurn(<<field, Keyword(Not(c, "IN")),
                                    Parens(IF c.sub THEN nested["query"] ELSE InList(c.values))>>)
BetweenSQL(c, field, nested) ==
    InTurn(<<field, Keyword(Not(c, "BETWEEN")), ValueSQL(c.lower, nested["lower"]), Keyword("AND"),
             ValueSQL(c.upper, nested["upper"])>>)
ExistsSQL(c, nested) == Then(Keyword(Not(c, "EXISTS")), Parens(nested["query"]))
LikeSQL(c, field, nested) ==
    InTurn(<<field, Keyword(Not(c, "LIKE")), ValueSQL(c.value, nested["value"]),
             CASE c.escape = "" -> Silence
               [] c.escape = "?" -> Said(Piece("hole", "nothing"), <<>>)
               [] OTHER -> Said(Piece("escape", c.escape), <<>>)>>)
NullSQL(c, field) == Then(field, Keyword(Not(c, "NULL")))
CompositeSQL(c, parts) == IF Len(parts) <= 1 THEN Between(parts, c.op) ELSE Parens(Between(parts, c.op))

ConditionSQL(c, field, nested, parts) ==
    CASE c.t = "binary" -> BinarySQL(c, field, nested)
      [] c.t = "unary" -> UnarySQL(c, field)
      [] c.t = "in" -> InSQL(c, field, nested)
      [] c.t = "between" -> BetweenSQL(c, field, nested)
      [] c.t = "exists" -> ExistsSQL(c, nested)
      [] c.t = "like" -> LikeSQL(c, field, nested)
      [] c.t = "null" -> NullSQL(c, field)
      [] c.t = "raw" -> RawToSQL(c)
      [] c.t = "composite" -> CompositeSQL(c, parts)
      [] c.t = "where" -> Between(parts, c.op)
      [] c.t = "app" -> InTurn(<<parts[1], Keyword("AND"), Named(c.extra), Hole(c.extra)>>)
      [] c.t = "none" -> Silence
      [] c.t = "nil" -> Refuse("panic")
\* The rendering of a condition from the renderings of what it nests.
Joined(c, nested, parts) ==
    ConditionSQL(c, IdentifierOperandSQL(c.field, nested["field"]), nested, parts)
ToSQL(c) == Joined(c, [slot \in OperandSlots \cap DOMAIN c |-> BuildSubquerySQL(QueryIn(c, slot))],
                   [i \in DOMAIN Nests(c) |-> ToSQL(Nests(c)[i])])

WhereToSQL(w) == ToSQL([t |-> "where", conds |-> w.conds, op |-> w.op])

\* A subquery of a condition: the clauses of a SELECT, and nothing else the query holds.
BuildSubquerySQL(q) ==
    IF q = <<>> THEN Refuse("panic") ELSE
    LET s == q[1]
        Selected == IF s.sel = <<>> THEN Silence
                    ELSE InTurn(<<Keyword("SELECT"),
                                  IF s.sel[1].distinct THEN Keyword("DISTINCT") ELSE Silence,
                                  IF s.sel[1].distinct /\ s.sel[1].on # <<>>
                                  THEN Then(Keyword("ON"), Parens(List(s.sel[1].on))) ELSE Silence,
                                  Between([i \in DOMAIN s.sel[1].fields |-> Verbatim(s.sel[1].fields[i])], ",")>>)
        Source(f) == IF f.sub THEN Then(Parens(BuildSubquerySQL(f.query)), Named(f.alias)) ELSE Verbatim(f.table)
        From == IF s.from = <<>> THEN Silence ELSE Then(Keyword("FROM"), Source(s.from[1]))
        Join(j) == InTurn(<<Keyword(j.type), Keyword("JOIN"), Source(j),
                            IF j.on = <<>> THEN Silence ELSE Then(Keyword("ON"), ToSQL(j.on[1]))>>)
        Order(o) == InTurn(<<Said(Piece("raw", o.of), <<>>), Keyword(o.dir)>>)
    IN  InTurn(<<Selected, From, InTurn([i \in DOMAIN s.joins |-> Join(s.joins[i])]),
                 IF s.where = <<>> THEN Silence ELSE Headed("WHERE", WhereToSQL(s.where[1])),
                 IF s.group = <<>> THEN Silence
                 ELSE Then(Keyword("GROUP BY"),
                           Between([i \in DOMAIN s.group[1].fields |-> Verbatim(s.group[1].fields[i])], ",")),
                 IF s.having = <<>> \/ s.having[1] = <<>> THEN Silence
                 ELSE Headed("HAVING", ToSQL(s.having[1][1])),
                 IF s.order = <<>> THEN Silence
                 ELSE Then(Keyword("ORDER BY"), Between([i \in DOMAIN s.order[1] |-> Order(s.order[1][i])], ",")),
                 IF s.limit = <<>> THEN Silence ELSE Count("LIMIT", s.limit[1]),
                 IF s.offset = <<>> THEN Silence ELSE Count("OFFSET", s.offset[1])>>)

=============================================================================
