----------------------------- MODULE QueryBuilder -----------------------------
(***************************************************************************)
(* The query builder (db/sql/builder/builder.go): every clause method      *)
(* clones the query it is called on and changes the clone, so builders     *)
(* share nothing but conditions and the queries just handed to them.       *)
(*                                                                         *)
(* The heap holds what Go holds behind a pointer, a slice or a map; an     *)
(* address is a builder and the way from its query to the cell.            *)
(***************************************************************************)
EXTENDS Sequences, Naturals, FiniteSets, SequencesExt, FiniteSetsExt, TLC

CONSTANTS Starts,           \* what an application has built before it begins to share: sequences of methods
          MaxBuilders       \* bound: the builders of a behaviour

VARIABLES heap,             \* address -> cell
          built             \* for each builder the calls that made it

builderVars == <<heap, built>>

---------------------------------------------------------------------------
(* Cells.  A field is a sequence of entries, <<>> what is nil or empty; an  *)
(* entry is a value, named by the call that gave it, or a pointer.          *)
FieldsOf ==
    [query |-> {"sel", "from", "where", "joins", "order", "group", "having", "limit", "offset", "ctes", "unions",
                "windows", "returning", "insert", "update", "delete"},
     select |-> {"fields", "on"}, from |-> {"table", "query"}, where |-> {"conds"}, condition |-> {"text", "query"},
     join |-> {"table", "on", "query"}, order |-> {"fields"}, field |-> {"field", "raw"},
     group |-> {"fields", "sets", "rollup", "cube"}, having |-> {"cond"}, number |-> {"n"}, cte |-> {"name", "query"},
     union |-> {"query", "all"}, window |-> {"name", "definition"}, definition |-> {"partition", "order", "frame"},
     frame |-> {"start"}, insert |-> {"table", "columns", "values", "from", "conflict"},
     conflict |-> {"columns", "action", "set"}, update |-> {"table", "values"}, map |-> {"a", "b"}, delete |-> {"table"}]
Leaf(v) == [v |-> v, at |-> <<>>]
Pointer(a) == [v |-> 0, at |-> a]
Cell(kind, given) ==
    [kind |-> kind, of |-> [f \in FieldsOf[kind] |-> IF f \in DOMAIN given THEN given[f] ELSE <<>>]]
Root(id) == <<id, <<>>>>
Inner(a, field, i) == <<a[1], Append(a[2], <<field, i>>)>>
\* The cell at the end of a way, <<>> when there is none.
Follow(h, a, way) ==
    FoldLeft(LAMBDA at, f : IF at = <<>> \/ h[at].of[f] = <<>> THEN <<>> ELSE h[at].of[f][1].at, a, way)

---------------------------------------------------------------------------
(* Clone.                                                                   *)

\* Fault: the fields of an ORDER BY are rebuilt one by one, and Raw is forgotten.
CopiedButRaw == [FieldsOf EXCEPT !["field"] = {"field"}]
\* What the clone of a cell takes over: all of it.
Copied == FieldsOf
\* What a clone points to instead of copying: conditions, with the queries inside them.
Shared == {"condition"}

RECURSIVE cloneQuery(_, _, _)
cloneQuery(h, from, to) ==
    LET c == h[from]
        deep == {<<f, i>> \in Copied[c.kind] \X (1..3) :
                   i \in DOMAIN c.of[f] /\ c.of[f][i].at # <<>> /\ h[c.of[f][i].at].kind \notin Shared}
        copy == [kind |-> c.kind,
                 of |-> [f \in DOMAIN c.of |->
                           IF f \notin Copied[c.kind] THEN <<>>
                           ELSE [i \in DOMAIN c.of[f] |->
                                   IF <<f, i>> \in deep THEN Pointer(Inner(to, f, i)) ELSE c.of[f][i]]]]
    IN  FoldSet(LAMBDA p, copies : cloneQuery(h, c.of[p[1]][p[2]].at, Inner(to, p[1], p[2])) @@ copies, to :> copy, deep)
Clone(h, b, n) == cloneQuery(h, Root(b), Root(n)) @@ h

---------------------------------------------------------------------------
(* The clause methods, on a query of their own.  A method is given the      *)
(* value v, and those that nest a query the address of one.                 *)
PutField(h, a, field, entries, cells) == IF a = <<>> THEN h ELSE cells @@ [h EXCEPT ![a].of[field] = entries]
Add(h, a, field, entry, cells) == PutField(h, a, field, Append(h[a].of[field], entry), cells)
\* The clause is made when the query has none.
Ensured(h, root, clause, kind) ==
    IF h[root].of[clause] # <<>> THEN h
    ELSE PutField(h, root, clause, <<Pointer(Inner(root, clause, 1))>>, Inner(root, clause, 1) :> Cell(kind, <<>>))
\* A new cell at the end of a clause that is a list, or for a clause that is replaced.
AddCell(h, a, field, cell) == LET new == Inner(a, field, Len(h[a].of[field]) + 1)
                              IN  Add(h, a, field, Pointer(new), new :> cell)
Replace(h, a, field, cell) == PutField(h, a, field, <<Pointer(Inner(a, field, 1))>>, Inner(a, field, 1) :> cell)

Condition(v, q) == Cell("condition", [text |-> <<Leaf(v)>>, query |-> q])
Joining0(h, root, v, q) ==
    LET on == <<root[1], <<<<"on", v>>>>>>
    IN  AddCell((on :> Condition(v, <<>>)) @@ h, root, "joins",
                Cell("join", [table |-> <<Leaf(v)>>, on |-> <<Pointer(on)>>, query |-> q]))
\* A window with its definition and its frame, as its caller made them.
Windowing(h, root, v) ==
    LET definition == <<root[1], <<<<"definition", v>>>>>>
        frame == Inner(definition, "frame", 1)
        order == Inner(definition, "order", 1)
    IN  AddCell((definition :> Cell("definition", [partition |-> <<Leaf(v)>>, frame |-> <<Pointer(frame)>>,
                                                   order |-> <<Pointer(order)>>]))
                  @@ (frame :> Cell("frame", [start |-> <<Leaf(v)>>]))
                  @@ (order :> Cell("field", [field |-> <<Leaf(v)>>, raw |-> <<Leaf(v)>>])) @@ h,
                root, "windows", Cell("window", [name |-> <<Leaf(v)>>, definition |-> <<Pointer(definition)>>]))

\* Methods that add to a clause or set a part of it, making it when it is not there.
Adding == [Select |-> <<"sel", "select", "fields">>, GroupBy |-> <<"group", "group", "fields">>]
Setting == [DistinctOn |-> <<"sel", "select", "on">>, GroupingSets |-> <<"group", "group", "sets">>,
            Rollup |-> <<"group", "group", "rollup">>, Cube |-> <<"group", "group", "cube">>]
\* Methods that replace a clause by a new one.
Replacing == [From |-> <<"from", "from", "table">>, Limit |-> <<"limit", "number", "n">>,
              Offset |-> <<"offset", "number", "n">>, Insert |-> <<"insert", "insert", "table">>,
              Delete |-> <<"delete", "delete", "table">>]
SelectMethods == {"Subquery", "Where", "InSubquery", "Having", "Join", "LateralJoin", "OrderBy", "OrderByRaw", "WithCTE",
                  "Union", "UnionAll", "Window", "Returning"}
InsertMethods == {"Columns", "Values", "FromSelect", "OnConflict", "DoNothing", "DoUpdate"}
UpdateMethods == {"Update", "Set", "SetMap"}
BuilderMethods == UNION {DOMAIN Adding, DOMAIN Setting, DOMAIN Replacing, SelectMethods, InsertMethods, UpdateMethods}
\* Those that take a query.
Nesting == {"Subquery", "InSubquery", "LateralJoin", "WithCTE", "Union", "UnionAll", "FromSelect"}

Clause(g, root, clause) == Follow(g, root, <<clause>>)
OrderField(h, root, v, raw) ==
    LET g == Ensured(h, root, "order", "order")
    IN  AddCell(g, Clause(g, root, "order"), "fields", Cell("field", [field |-> <<Leaf(v)>>, raw |-> raw]))
Conditioned(h, root, v, q) ==
    LET g == Ensured(h, root, "where", "where") IN AddCell(g, Clause(g, root, "where"), "conds", Condition(v, q))

\* The clauses of a SELECT.
SelectMethod(h, root, method, v, q) ==
    LET leaf == <<Leaf(v)>>
        nested == <<Pointer(q)>>
    IN  CASE method = "Subquery" -> Replace(h, root, "from", Cell("from", [table |-> leaf, query |-> nested]))
          [] method = "Where" -> Conditioned(h, root, v, <<>>)
          [] method = "InSubquery" -> Conditioned(h, root, v, nested)
          [] method = "Having" ->
               LET g == Replace(h, root, "having", Cell("having", <<>>))
               IN  Replace(g, Clause(g, root, "having"), "cond", Condition(v, <<>>))
          [] method = "Join" -> Joining0(h, root, v, <<>>)
          [] method = "LateralJoin" -> Joining0(h, root, v, nested)
          [] method = "OrderBy" -> OrderField(h, root, v, <<>>)
          [] method = "OrderByRaw" -> OrderField(h, root, v, leaf)
          [] method = "WithCTE" -> AddCell(h, root, "ctes", Cell("cte", [name |-> leaf, query |-> nested]))
          [] method = "Union" -> AddCell(h, root, "unions", Cell("union", [query |-> nested]))
          [] method = "UnionAll" -> AddCell(h, root, "unions", Cell("union", [all |-> leaf, query |-> nested]))
          [] method = "Window" -> Windowing(h, root, v)
          [] method = "Returning" -> PutField(h, root, "returning", leaf, <<>>)

\* What belongs to an INSERT does nothing without one.
InsertMethod(h, root, method, v, q) ==
    LET leaf == <<Leaf(v)>>
        insert == Follow(h, root, <<"insert">>)
        conflict == Follow(h, root, <<"insert", "conflict">>)
    IN  CASE method = "Columns" -> PutField(h, insert, "columns", leaf, <<>>)
          [] method = "Values" -> IF insert = <<>> THEN h ELSE Add(h, insert, "values", Leaf(v), <<>>)
          [] method = "FromSelect" -> PutField(h, insert, "from", <<Pointer(q)>>, <<>>)
          [] method = "OnConflict" ->
               IF insert = <<>> THEN h ELSE Replace(h, insert, "conflict", Cell("conflict", [columns |-> leaf]))
          [] method = "DoNothing" -> PutField(h, conflict, "action", <<Leaf(0)>>, <<>>)
          [] method = "DoUpdate" ->
               IF conflict = <<>> THEN h
               ELSE Replace(PutField(h, conflict, "action", <<Leaf(1)>>, <<>>), conflict, "set", Cell("map", [a |-> leaf]))

UpdateMethod(h, root, method, v) ==
    LET leaf == <<Leaf(v)>>
        values == Follow(h, root, <<"update", "values">>)
    IN  CASE method = "Update" ->
               LET g == Replace(h, root, "update", Cell("update", [table |-> leaf]))
               IN  Replace(g, Clause(g, root, "update"), "values", Cell("map", <<>>))
          [] method = "Set" -> PutField(h, values, "a", leaf, <<>>)
          [] method = "SetMap" ->
               IF values = <<>> THEN h ELSE PutField(PutField(h, values, "a", leaf, <<>>), values, "b", leaf, <<>>)

Apply(h, id, method, v, q) ==
    LET root == Root(id)
        leaf == <<Leaf(v)>>
    IN  CASE method \in DOMAIN Adding ->
               LET e == Adding[method]
                   g == Ensured(h, root, e[1], e[2]) IN Add(g, Clause(g, root, e[1]), e[3], Leaf(v), <<>>)
          [] method \in DOMAIN Setting ->
               LET e == Setting[method]
                   g == Ensured(h, root, e[1], e[2]) IN PutField(g, Clause(g, root, e[1]), e[3], leaf, <<>>)
          [] method \in DOMAIN Replacing ->
               LET e == Replacing[method] IN Replace(h, root, e[1], Cell(e[2], e[3] :> leaf))
          [] method \in InsertMethods -> InsertMethod(h, root, method, v, q)
          [] method \in UpdateMethods -> UpdateMethod(h, root, method, v)
          [] OTHER -> SelectMethod(h, root, method, v, q)

---------------------------------------------------------------------------
(* Builders.  The nesting methods are given what Build returned for another  *)
(* builder, which is that builder's own query.                              *)
Called(calls, method, n, m) ==
    Append(calls, [method |-> method, v |-> n, with |-> IF method \in Nesting THEN <<m>> ELSE <<>>])
New(id) == Root(id) :> Cell("query", <<>>)

\* The methods of a start, each called on what the one before returned.
RECURSIVE BegunWith(_, _, _)
BegunWith(h, b, methods) ==
    IF b > Len(methods) THEN h
    ELSE BegunWith(Apply(Clone(h, b, b + 1), b + 1, methods[b], b + 1, <<>>), b + 1, methods)
BuilderInit ==
    \E methods \in Starts :
        /\ heap = BegunWith(New(1), 1, methods)
        /\ built = [n \in 1..(Len(methods) + 1) |->
                      [i \in 1..(n - 1) |-> [method |-> methods[i], v |-> i + 1, with |-> <<>>]]]

Call(b, method, m) ==
    LET n == Len(built) + 1 IN
    /\ n <= MaxBuilders
    /\ heap' = Apply(Clone(heap, b, n), n, method, n, IF method \in Nesting THEN Root(m) ELSE <<>>)
    /\ built' = Append(built, Called(built[b], method, n, built[m]))

BuilderNext == \E b \in DOMAIN built, method \in BuilderMethods :
                  \E m \in IF method \in Nesting THEN DOMAIN built ELSE {1} : Call(b, method, m)

---------------------------------------------------------------------------
\* What a query says, all the way down.
RECURSIVE ReadCell(_, _)
ReadCell(h, a) ==
    LET c == h[a]
        Entry(e) == [v |-> e.v, of |-> IF e.at = <<>> THEN <<>> ELSE <<ReadCell(h, e.at)>>]
    IN  [kind |-> c.kind, of |-> [f \in DOMAIN c.of |-> [i \in DOMAIN c.of[f] |-> Entry(c.of[f][i])]]]

\* The calls made one after another on one query nobody else holds, the queries nested in it
\* built the same way: no clone and nothing shared.
RECURSIVE WrittenAlone(_, _)
WrittenAlone(calls, id) ==
    LET Step(h, i) ==
            LET c == calls[i]
                inner == Append(id, i)
            IN  IF c.with = <<>> THEN Apply(h, id, c.method, c.v, <<>>)
                ELSE Apply(WrittenAlone(c.with[1], inner) @@ h, id, c.method, c.v, Root(inner))
    IN  FoldLeft(Step, New(id), [i \in DOMAIN calls |-> i])

\* A builder says what the calls that made it say, and goes on saying it: whatever is built
\* from it or nested in it afterwards, nothing of it is lost, changed or added to.
BuildsWhatWasAsked ==
    \A n \in DOMAIN built : ReadCell(heap, Root(n)) = ReadCell(WrittenAlone(built[n], <<>>), Root(<<>>))
=============================================================================
