------------------------------ MODULE RowFilters ------------------------------
(***************************************************************************)
(* Access control in the database: the filters GenerateDBFilters builds    *)
(* for a caller out of the ownership field and of the filters configured   *)
(* for the caller's roles, and the rows a query is left with once          *)
(* ApplyDBFiltersToQueryBuilder has put them in its WHERE clause.          *)
(*                                                                         *)
(* A filter is the set of rows its predicate holds of. What can be wrong   *)
(* with one (its slots, its operator, its logic, the attributes of the     *)
(* caller it names) is data of its own; the wording of a predicate is not. *)
(***************************************************************************)
EXTENDS Naturals, FiniteSets

CONSTANTS
    Rows,           \* of the table queried
    OwnRows,        \* those whose ownership field names the reader
    ReaderRoles,
    Guest,          \* the role of a guest
    Setups,         \* the configurations asked about
    NoRows          \* the answer to a query that is refused

VARIABLES
    setup,          \* AccessControlConfig.DBRBAC
    reader          \* [state, roles, tenant]: the caller, and whether the model names its tenant

rowVars == <<setup, reader>>

\* DBFilter. slots: which of field, raw_sql and processor are set. value: the attribute of the
\* caller that a value or a raw argument names. rows: those the field's or the raw predicate holds
\* of; join: those a join leaves; nested, as, meant: a subquery, the rows it leaves as it is
\* written, and those it would leave with the caller's attributes put into its own Where.
DBFilter == [slots : SUBSET {"field", "raw", "processor"}, nested : {"none", "good", "bad"},
             clean : BOOLEAN,           \* an identifier, or raw SQL without a placeholder
             operator : {"listed", "unlisted", "unknown", "emptylist"},
             logic : {"AND", "OR", "or", "XOR"},
             value : {"plain", "user_id", "tenant_id", "undeclared"},
             processor : {"none", "teams", "failing", "unregistered"},
             rows : SUBSET Rows, join : SUBSET Rows, as : SUBSET Rows, meant : SUBSET Rows]

PlainFilter == [slots |-> {"field"}, nested |-> "none", clean |-> TRUE, operator |-> "listed",
          logic |-> "AND", value |-> "plain", processor |-> "none", rows |-> Rows, join |-> Rows,
          as |-> Rows, meant |-> Rows]

Reader == [state : {"authenticated"}, roles : SUBSET ReaderRoles, tenant : BOOLEAN]
              \cup [state : {"anonymous", "unresolved"}, roles : {{}}, tenant : BOOLEAN]

\* A role's filters, under the role as it is spelled, in lower case, or in any case.
Setup == [enabled : BOOLEAN, guests : BOOLEAN, ownership : BOOLEAN, skip : SUBSET ReaderRoles,
          custom : [ReaderRoles -> [spelled : {"as is", "lower", "other"}, filters : SUBSET DBFilter]],
          teams : SUBSET DBFilter]      \* what the registered processor makes of a filter

---------------------------------------------------------------------------
(* GenerateDBFilters.                                                      *)

\* Fault: a role is looked up as it is spelled and in lower case.
CustomSpelled(s, role) == IF s.custom[role].spelled = "other" THEN {} ELSE s.custom[role].filters

CustomFiltersFor(s, role) == s.custom[role].filters

CanUseDBLevelRBAC(s, r) ==
    /\ s.enabled
    /\ r.state # "unresolved"
    /\ r.state = "anonymous" => s.guests /\ CustomFiltersFor(s, Guest) # {}
    /\ s.ownership \/ \E role \in ReaderRoles : s.custom[role].filters # {}

Exempt(s, r) == r.roles \cap s.skip # {}

\* A filter that cannot be made for this caller fails them all: its processor is missing or
\* fails, or it names an attribute that nobody has, or that nobody declared. The Where of a
\* subquery is not looked into: what it names is neither put in nor refused.
Broken(f, r) ==
    IF f.processor # "none"
    THEN f.processor \in {"failing", "unregistered"}
    ELSE \/ f.value = "undeclared"
         \/ f.value = "user_id" /\ r.state # "authenticated"
         \/ f.value = "tenant_id" /\ (r.state # "authenticated" \/ ~r.tenant)

Processed(s, f) == IF f.processor = "teams" THEN s.teams ELSE {f}

OwnershipFilter == [PlainFilter EXCEPT !.rows = OwnRows]
FullAccess == [PlainFilter EXCEPT !.slots = {"raw"}]
NoAccess == [FullAccess EXCEPT !.rows = {}]

\* What a filter must be to be emitted; an allowlist of operators is there or not.
ValidFilter(f, allowlist) ==
    /\ Cardinality(f.slots) <= 1
    /\ f.slots # {} \/ f.nested # "none"
    /\ f.clean
    /\ f.logic \in {"AND", "OR", "or"}
    /\ f.nested # "bad"
    /\ (f.slots = {"field"} /\ f.nested = "none") =>
           /\ f.operator # "unknown"
           /\ allowlist => f.operator # "unlisted"

GenerateDBFilters(s, r) ==
    LET own == IF s.ownership /\ ~Exempt(s, r) THEN {OwnershipFilter} ELSE {}
        custom == UNION {CustomFiltersFor(s, role) : role \in r.roles}
        made == own \cup UNION {Processed(s, f) : f \in custom}
        filters == IF made # {} THEN made
                   ELSE IF Exempt(s, r) THEN {FullAccess} ELSE {NoAccess}
    IN  IF \/ ~CanUseDBLevelRBAC(s, r)
           \/ own # {} /\ r.state # "authenticated"
           \/ \E f \in custom : Broken(f, r)
           \/ \E f \in filters : ~ValidFilter(f, TRUE)
        THEN NoRows
        ELSE filters

---------------------------------------------------------------------------
(* ApplyDBFiltersToQueryBuilder.                                           *)

\* An IN without values cannot be emitted, and is not left out either.
Emitted(f) == ~(f.slots = {"field"} /\ f.nested = "none" /\ f.operator = "emptylist")

\* Only "OR" as it is written here makes an alternative.
Alternatives(filters) == {f \in filters : f.logic = "OR"}

\* A filter with a subquery is its subquery, as it is written: the field is what the subquery is
\* compared with, and neither the raw predicate nor the join is put beside it.
HoldsOf(f, row) == row \in IF f.nested = "none" THEN f.rows ELSE f.as
Joins(f, row) == f.nested = "none" => row \in f.join

\* The joins of the alternatives are made on a builder of their own and go with it.
ApplyDBFilters(filters) ==
    IF \E f \in filters : ~ValidFilter(f, FALSE) \/ ~Emitted(f)
    THEN NoRows
    ELSE {row \in Rows :
             /\ \A f \in filters \ Alternatives(filters) : HoldsOf(f, row) /\ Joins(f, row)
             /\ Alternatives(filters) # {} =>
                    \E f \in Alternatives(filters) : HoldsOf(f, row)}

Served(s, r) ==
    LET filters == GenerateDBFilters(s, r)
    IN  IF filters = NoRows THEN NoRows ELSE ApplyDBFilters(filters)

---------------------------------------------------------------------------
RowInit ==
    /\ setup \in Setups
    /\ \E who \in Reader :
           reader = [who EXCEPT !.roles =
                        CASE who.state = "authenticated" -> @
                          [] who.state = "anonymous" -> IF setup.guests THEN {Guest} ELSE {}
                          [] who.state = "unresolved" -> {}]

RowSpec == RowInit /\ [][UNCHANGED rowVars]_rowVars

---------------------------------------------------------------------------
\* The filters a role was given, whatever the case its name was written in.
Configured(s, r) ==
    UNION {UNION {Processed(s, f) : f \in s.custom[role].filters} : role \in r.roles}

\* What a filter says in all, whichever of its parts says it: the documents combine them, and
\* name the caller's attributes in a subquery as elsewhere (model/rbac_sql_examples.md).
Promised(f, row) ==
    /\ f.nested = "none" \/ f.slots = {"raw"} => row \in f.rows
    /\ f.nested # "none" => row \in f.meant

\* Not all of it reaches the query where a subquery names one of the caller's attributes, or
\* stands beside a raw predicate or a join.
OutOfReach(f) == f.nested # "none" /\ (f.meant # f.as \/ f.slots = {"raw"} \/ f.join # Rows)
InForceOf(f, row) == IF OutOfReach(f) THEN row \in f.as ELSE Promised(f, row)

\* No restriction is lost on its way into the query: a row that is served is the reader's own
\* where ownership counts, is one each of the filters required of the reader's roles and its join
\* hold of, and is one of their alternatives, whose joins are not made; somebody without any
\* restriction is served nothing unless exempt. A filter that cannot be built, or not be emitted,
\* refuses the query. Of a filter that is out of reach, its subquery as written is all that is
\* kept (access_control.go:304-306, 1547-1694, 1741-1771, pagination.go:393-462).
RestrictionsApplied ==
    LET filters == Configured(setup, reader)
        anyOf == {f \in filters : f.logic # "AND"}
    IN  Served(setup, reader) # NoRows =>
        \A row \in Served(setup, reader) :
            /\ reader.state # "unresolved"
            /\ (setup.ownership /\ ~Exempt(setup, reader)) => row \in OwnRows
            /\ \A f \in filters \ anyOf : InForceOf(f, row) /\ (OutOfReach(f) \/ row \in f.join)
            /\ anyOf # {} => \E f \in anyOf : InForceOf(f, row)
            /\ (filters = {} /\ ~setup.ownership) => Exempt(setup, reader)
=============================================================================
