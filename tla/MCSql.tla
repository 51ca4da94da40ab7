-------------------------------- MODULE MCSql --------------------------------
(***************************************************************************)
(* The queries SqlRendering is asked to render: every condition in every   *)
(* place one can stand, every page in every scope, every clause a write    *)
(* does not take, and every write nested in a read.                        *)
(***************************************************************************)
EXTENDS SqlRendering

Tidy(q) == [query |-> q, tidy |-> TRUE]
Untidy(q) == [query |-> q, tidy |-> FALSE]
Query0 == Ansi!Query0

Item(kind, name) == [kind |-> kind, of |-> name]
Plain(name) == Item("name", name)
Selecting(items) == [fields |-> items, distinct |-> FALSE, on |-> <<>>]
Reading(item) == [sub |-> FALSE, table |-> item, alias |-> "", query |-> <<>>]
DerivedFrom(q, alias) == [sub |-> TRUE, table |-> Plain(""), alias |-> alias, query |-> q]
Joining(type, source, lateral, on) ==
    [type |-> type, lateral |-> lateral, on |-> on, sub |-> source.sub, table |-> source.table,
     alias |-> source.alias, query |-> source.query]
OrderedBy(name, raw) == [of |-> name, dir |-> "DESC", raw |-> raw]

Orders == [Query0 EXCEPT !.sel = <<Selecting(<<Plain("id")>>)>>, !.from = <<Reading(Plain("orders"))>>]
Where(q, conds, op) == [q EXCEPT !.where = <<[conds |-> conds, op |-> op]>>]

---------------------------------------------------------------------------
(* Operands and conditions.                                                *)
Operand0(t, v) == [t |-> t, of |-> v, query |-> <<>>]
Str(v) == Operand0("string", v)
Val(v) == Operand0("other", v)
Sub(q) == [t |-> "Query", of |-> "query", query |-> q]
Lines == [Query0 EXCEPT !.sel = <<Selecting(<<Plain("order_id")>>)>>, !.from = <<Reading(Plain("lines"))>>,
                        !.where = <<[op |-> "AND", conds |-> <<[t |-> "binary", field |-> Str("qty"), op |-> ">",
                                                               value |-> Val("3")]>>]>>]

SqlFields == {Str("state"), Str("2024Orders"), Str("a=1 OR 1=1"), Str("[a?b]"), Operand0("Raw", "lower(x)"),
              Val("5"), Sub(<<Lines>>), Sub(<<>>)}
FewFields == {Str("state"), Str("2024Orders"), Str("a=1 OR 1=1"), Val("5"), Sub(<<Lines>>)}
SqlValues == {Val("v"), Operand0("Raw", "total"), Operand0("Identifier", "2024Orders"),
              Operand0("Identifier", "a=1 OR 1=1"), Sub(<<Lines>>)}
Binary(f, op, v) == [t |-> "binary", field |-> f, op |-> op, value |-> v]
Like(f, escape) == [t |-> "like", field |-> f, value |-> Val("p%"), escape |-> escape, not |-> FALSE]
In(f, values, not) == [t |-> "in", field |-> f, sub |-> FALSE, values |-> values, not |-> not, query |-> <<>>]
InSub(f, q, not) == [t |-> "in", field |-> f, sub |-> TRUE, values |-> <<>>, not |-> not, query |-> q]
RawCondition(sql, args) == [t |-> "raw", sql |-> sql, args |-> args]
NoCondition == [t |-> "none"]
Nil == [t |-> "nil"]
Open == Binary(Str("state"), "=", Val("open"))
Tenant(valid) == [t |-> "app", inner |-> Open, extra |-> "tenant", valid |-> valid]
Composite(op, parts) == [t |-> "composite", op |-> op, parts |-> parts]
NestedWhere(op, conds) == [t |-> "where", op |-> op, conds |-> conds]

Simple == UNION {
    {Binary(f, "=", v) : f \in SqlFields, v \in SqlValues},
    {Binary(Str("state"), op, Val("v")) : op \in {"ILIKE", "NOT ILIKE", "IS DISTINCT FROM", "->", "<=>"}},
    {[t |-> "unary", op |-> op, field |-> f] : op \in {"NOT", "EXISTS", "~"}, f \in FewFields},
    {In(f, values, not) : f \in FewFields, values \in {<<>>, <<"1">>, <<"1", "2">>}, not \in BOOLEAN},
    {InSub(f, q, not) : f \in FewFields, q \in {<<Lines>>, <<>>}, not \in BOOLEAN},
    {[t |-> "between", field |-> f, lower |-> a, upper |-> b, not |-> FALSE] :
        f \in FewFields, a \in {Val("1"), Sub(<<Lines>>)}, b \in {Val("9"), Sub(<<Lines>>)}},
    {[t |-> "exists", query |-> q, not |-> not] : q \in {<<Lines>>, <<>>}, not \in BOOLEAN},
    {Like(f, escape) : f \in FewFields, escape \in {"", "!"}},
    {[t |-> "null", field |-> f, not |-> FALSE] : f \in SqlFields},
    {RawCondition(<<"a = ", "?">>, <<Val("v")>>),
     RawCondition(<<"?.column", "=", "?">>, <<Str("o"), Val("v")>>),
     RawCondition(<<"?.?", "ILIKE", "?">>, <<Str("o"), Str("c"), Val("v")>>),
     RawCondition(<<"a", "ILIKE", "'ILIKE'">>, <<>>),
     RawCondition(<<"?.column", "=", "?.1e5">>, <<Str("o"), Str("o")>>),
     RawCondition(<<"?.?">>, <<Str("a=1 OR 1=1"), Operand0("Raw", "c")>>),
     RawCondition(<<>>, <<>>)},
    {NoCondition, Tenant(TRUE), Tenant(FALSE)}}
JoinedConditions == UNION {
    {Composite(op, <<a, b>>) : op \in {"AND", "OR"}, a \in {Open, NoCondition, Tenant(TRUE)},
                               b \in {In(Str("kind"), <<"1", "2">>, FALSE), NoCondition, Binary(Str("[a?b]"), "=", Val("v"))}},
    {Composite("", <<>>), Composite("OR", <<Composite("AND", <<Open, Tenant(TRUE)>>), Like(Str("name"), "")>>)},
    {NestedWhere(op, <<Open, In(Str("kind"), <<"1">>, FALSE)>>) : op \in {"AND", "OR"}},
    {NestedWhere("OR", <<NoCondition>>)}}
Messy == {Like(Str("state"), "?"), Like(Str("state"), "!!"), RawCondition(<<"?.?">>, <<Str("o")>>),
          RawCondition(<<"?.column">>, <<>>), Composite("", <<Open, Open>>), Composite("XOR", <<Open, Open>>), Nil,
          Composite("AND", <<Open, Nil>>), Composite("AND", <<Open, Like(Str("state"), "?")>>)}

OpenOrders(set) == [Query0 EXCEPT !.update = <<[table |-> "orders", set |-> set]>>]
SetState == <<[column |-> "state", value |-> "done"]>>
Filtered0(c) == {Where(Orders, <<c>>, "AND"), Where(OpenOrders(SetState), <<c>>, "AND")}
Standing(c) == {Where([Query0 EXCEPT !.delete = <<[table |-> "orders"]>>], <<c, Open>>, "OR"),
                [Orders EXCEPT !.having = <<<<c>>>>, !.group = <<[fields |-> <<Plain("kind")>>, rollup |-> <<>>,
                                                                 cube |-> <<>>, sets |-> <<>>]>>],
                [Orders EXCEPT !.joins = <<Joining("LEFT", Reading(Plain("lines")), FALSE, <<c>>)>>]}
AskedConditions == UNION {{Tidy(q) : q \in Filtered0(c)} : c \in Simple \cup JoinedConditions}
                     \cup UNION {{Tidy(q) : q \in Standing(c)} : c \in JoinedConditions \cup {NoCondition, Open}}
                     \cup UNION {{Untidy(q) : q \in Filtered0(c) \cup Standing(c)} : c \in Messy}

---------------------------------------------------------------------------
(* Pages, in every scope.                                                  *)
Counts(negative) == {<<>>, <<0>>, <<2>>} \cup (IF negative THEN {<<-1>>} ELSE {})
Placed == {<<>>, <<<<OrderedBy("placed", FALSE)>>>>}
Heads == {Selecting(<<Plain("id")>>), [Selecting(<<Plain("id")>>) EXCEPT !.distinct = TRUE],
          Selecting(<<[kind |-> "distinct", of |-> "DISTINCT", rest |-> <<Plain("id")>>]>>)}
PagesOf(negative, heads) ==
    {[Orders EXCEPT !.sel = <<h>>, !.limit = l, !.offset = o, !.order = s] :
        h \in heads, l \in Counts(negative), o \in Counts(negative), s \in Placed}
FromTable(name) == [Orders EXCEPT !.from = <<Reading(Plain(name))>>]
WithCTEs(q, ctes) == [q EXCEPT !.ctes = ctes]
Cte(name, q) == [name |-> name, query |-> q]
Arm(q, all) == [query |-> q, all |-> all]
Inserting(columns, values, from, conflict) ==
    [Query0 EXCEPT !.insert = <<[table |-> "archive", columns |-> columns, values |-> values, from |-> from,
                                 conflict |-> conflict]>>]
Conflict(columns, action, set) == <<[columns |-> columns, action |-> action, set |-> set]>>
AskedPages ==
    UNION {{Tidy(q) : q \in PagesOf(TRUE, Heads)},
           {Tidy(WithCTEs(FromTable("recent"), <<Cte("recent", p)>>)) : p \in PagesOf(FALSE, Heads)},
           {Tidy([Orders EXCEPT !.from = <<DerivedFrom(<<p>>, "d")>>]) : p \in PagesOf(FALSE, Heads)},
           {Tidy([Orders EXCEPT !.unions = <<Arm(p, TRUE)>>]) : p \in PagesOf(FALSE, {Selecting(<<Plain("id")>>)})},
           {Tidy([p EXCEPT !.unions = <<Arm(FromTable("archive"), FALSE)>>]) :
              p \in PagesOf(FALSE, {Selecting(<<Plain("id")>>)})},
           {Tidy(Inserting(<<"id">>, <<>>, <<p>>, c)) : p \in PagesOf(FALSE, Heads),
              c \in {<<>>, Conflict(<<"id">>, "DO NOTHING", <<>>)}},
           {Tidy([OpenOrders(SetState) EXCEPT !.limit = l]) : l \in Counts(TRUE)}}

---------------------------------------------------------------------------
(* What a SELECT lists, orders, groups and joins.                          *)
Bound(type, value) == [type |-> type, value |-> value]
FrameOf(kind, exclude, start, end) == <<[kind |-> kind, exclude |-> exclude, start |-> start, end |-> end]>>
WindowOver(partition, order, frame) == [name |-> "w", partition |-> partition, order |-> order, frame |-> frame]
Windows0 == {WindowOver(<<"kind">>, <<OrderedBy("placed", FALSE)>>, f) :
               f \in {<<>>, FrameOf("GROUPS", FALSE, <<Bound("CURRENT ROW", <<>>)>>, <<>>),
                      FrameOf("ROWS", TRUE, <<Bound("CURRENT ROW", <<>>)>>, <<>>),
                      FrameOf("ROWS", FALSE, <<>>, <<Bound("CURRENT ROW", <<>>)>>)}
                     \cup {FrameOf(k, FALSE, <<b>>, e) : k \in {"ROWS", "RANGE"},
                             b \in {Bound("PRECEDING", <<1>>), Bound("PRECEDING", <<-1>>),
                                    Bound("UNBOUNDED PRECEDING", <<>>), Bound("CURRENT ROW", <<1>>)},
                             e \in {<<>>, <<Bound("FOLLOWING", <<1>>)>>, <<Bound("SIDEWAYS", <<>>)>>}}}
             \cup {WindowOver(<<"a=1 OR 1=1">>, <<>>, <<>>), WindowOver(<<>>, <<OrderedBy("a=1 OR 1=1", FALSE)>>, <<>>)}
SqlItems == {Item("star", "star"), Plain("id"), Item("aliased", "id AS key"), Item("expr", "COUNT(total)"),
             Item("filter", "COUNT(total) FILTER"), Item("over", "w")}
Grouping(fields, rollup, cube, sets) == <<[fields |-> fields, rollup |-> rollup, cube |-> cube, sets |-> sets]>>
GroupItems == {Plain("kind"), Item("expr", "YEAR(placed)"), Item("position", "1")}
Sources == {Reading(Plain("lines")), Reading(Item("aliased", "lines l")), Reading(Item("expr", "OPENJSON(x)")),
            [Reading(Plain("lines")) EXCEPT !.alias = "l"], [Reading(Item("aliased", "lines l")) EXCEPT !.alias = "m"],
            DerivedFrom(<<Lines>>, "d"), DerivedFrom(<<Lines>>, ""), DerivedFrom(<<Lines>>, "o.id"), DerivedFrom(<<>>, "d")}
AskedSelects ==
    UNION {{Tidy([Orders EXCEPT !.sel = <<[fields |-> <<a, b>>, distinct |-> d, on |-> o]>>]) :
              a \in SqlItems, b \in SqlItems, d \in BOOLEAN, o \in {<<>>, <<"kind">>}},
           {Untidy([Orders EXCEPT !.sel = <<Selecting(<<Item("marked", "[a?b]")>>)>>]),
            Untidy([Orders EXCEPT !.from = <<Reading(Item("marked", "[a?b]"))>>]),
            Untidy([Orders EXCEPT !.group = Grouping(<<Item("marked", "[a?b]")>>, <<>>, <<>>, <<>>)]),
            Tidy([Orders EXCEPT !.sel = <<Selecting(<<[kind |-> "distinct on", of |-> "DISTINCT", rest |-> <<Plain("id")>>]>>)>>]),
            Tidy([Orders EXCEPT !.sel = <<>>]), Tidy([Orders EXCEPT !.from = <<>>]), Tidy([Orders EXCEPT !.returning = <<"id">>]),
            Tidy([Orders EXCEPT !.having = <<<<>>>>])},
           {Tidy([Orders EXCEPT !.windows = <<w>>, !.sel = <<Selecting(<<a>>)>>]) :
              w \in Windows0, a \in {Plain("id"), Item("over", "w")}},
           {Tidy([Orders EXCEPT !.order = <<<<OrderedBy(n, raw), OrderedBy("id", FALSE)>>>>]) :
              n \in {"placed", "2024Orders", "a=1 OR 1=1"}, raw \in BOOLEAN},
           {Tidy([Orders EXCEPT !.group = Grouping(f, r, c, s)]) :
              f \in {<<>>} \cup {<<i>> : i \in GroupItems}, r \in {<<>>, <<Plain("region")>>},
              c \in {<<>>, <<Plain("shop")>>}, s \in {<<>>, <<<<Plain("a")>>, <<>>>>}},
           {Tidy([Orders EXCEPT !.from = <<s>>]) : s \in Sources},
           {Tidy([Orders EXCEPT !.joins = <<Joining(type, s, lateral, on)>>]) :
              type \in {"", "LEFT", "RIGHT", "FULL", "CROSS", "NATURAL", "OUTER APPLY"}, s \in Sources, lateral \in BOOLEAN,
              on \in {<<>>, <<NoCondition>>, <<Open>>, <<RawCondition(<<"true">>, <<>>)>>, <<Composite("", <<>>)>>}}}

---------------------------------------------------------------------------
(* Writes, alone and nested.                                               *)
Rows1 == <<<<"1", "x">>>>
Rows3 == <<<<"1", "x">>, <<"2", "y">>, <<"3", "z">>>>
SetTotal == <<[column |-> "state", value |-> "late"], [column |-> "total", value |-> "0"]>>
Columns2 == <<"KEY", "state">>
Upserts == {Inserting(Columns2, values, from, Conflict(columns, action, set)) :
              values \in {<<>>, Rows1, Rows3}, from \in {<<>>, <<WithCTEs(FromTable("recent"), <<Cte("recent", Where(Lines, <<Open>>, "AND"))>>)>>},
              columns \in {<<>>, <<"key">>, <<"other">>, <<"o.id">>}, action \in {"", "DO NOTHING", "DO UPDATE", "DO IT"},
              set \in {<<>>, SetTotal}}
Inserts == {Inserting(columns, values, from, <<>>) :
              columns \in {<<>>, Columns2, <<"a=1 OR 1=1", "state">>},
              values \in {<<>>, <<<<>>>>, Rows1, Rows3, <<<<"1">>>>, <<<<"1", "x">>, <<"2">>>>}, from \in {<<>>, <<Lines>>}}
Tables0 == {"", "orders", "Orders o", "[a?b]", "OPENJSON(x)", "a=1 OR 1=1"}
Updates == {[OpenOrders(set) EXCEPT !.update[1].table = t] : set \in {<<>>, SetState, SetTotal}, t \in Tables0 \ {"[a?b]"}}
             \cup {OpenOrders(<<[column |-> "a=1 OR 1=1", value |-> "v"]>>), OpenOrders(<<[column |-> "o.id", value |-> "v"]>>)}
Deletes == {[Query0 EXCEPT !.delete = <<[table |-> t]>>] : t \in Tables0 \ {"[a?b]"}}
Three == {Inserting(Columns2, Rows1, <<>>, <<>>), OpenOrders(SetTotal), [Query0 EXCEPT !.delete = <<[table |-> "orders"]>>]}
Extras(q) == {q, [q EXCEPT !.sel = Orders.sel], [q EXCEPT !.from = Orders.from], Where(q, <<Open, Tenant(TRUE)>>, "AND"),
              Where(q, <<In(Str("id"), <<"1", "2", "3", "4", "5">>, FALSE)>>, "AND"),
              [q EXCEPT !.joins = <<Joining("LEFT", Reading(Plain("lines")), FALSE, <<Open>>)>>],
              [q EXCEPT !.group = Grouping(<<Plain("kind")>>, <<>>, <<>>, <<>>)], [q EXCEPT !.having = <<<<Open>>>>],
              [q EXCEPT !.order = <<<<OrderedBy("placed", FALSE)>>>>], [q EXCEPT !.limit = <<2>>],
              [q EXCEPT !.offset = <<1>>], [q EXCEPT !.unions = <<Arm(Lines, FALSE)>>],
              WithCTEs(Where(q, <<Open>>, "AND"), <<Cte("recent", Lines)>>), [q EXCEPT !.returning = <<"id">>],
              [q EXCEPT !.returning = <<"COUNT(total)", "a=1 OR 1=1">>], [q EXCEPT !.delete = <<[table |-> "orders"]>>]}
Inside(w) == {WithCTEs(Orders, <<Cte("recent", w)>>), [Orders EXCEPT !.unions = <<Arm(w, FALSE)>>],
              [Orders EXCEPT !.from = <<DerivedFrom(<<w>>, "d")>>], Inserting(Columns2, <<>>, <<w>>, <<>>),
              [Orders EXCEPT !.joins = <<Joining("LEFT", DerivedFrom(<<w>>, "d"), FALSE, <<Open>>)>>],
              Where(Orders, <<[t |-> "exists", query |-> <<w>>, not |-> FALSE]>>, "AND"),
              Where(Orders, <<Binary(Str("id"), "=", Sub(<<w>>))>>, "AND")}
AskedWrites == UNION {{Tidy(q) : q \in Upserts \cup Inserts \cup Updates \cup Deletes}, UNION {{Tidy(q) : q \in Extras(w)} : w \in Three},
                      UNION {{Tidy(q) : q \in Inside(w)} : w \in Three},
                      UNION {{Tidy(r) : r \in Inside(q)} : q \in UNION {Inside(w) : w \in Three}}}

MCAsked == AskedConditions \cup AskedPages \cup AskedSelects \cup AskedWrites
=============================================================================
