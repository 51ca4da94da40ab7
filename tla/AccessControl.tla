---------------------------- MODULE AccessControl ----------------------------
(***************************************************************************)
(* What the surfaces of RoleBasedAccessControl answer one caller about one *)
(* entity and the fields of its type: the entity and its type, the fields  *)
(* of a row and of a collection, filters and sorts, and which of the       *)
(* caller's fields reach a DTO. They are functions of the configuration,   *)
(* of the caller's identity and of the entity, and nothing of them lasts:  *)
(* the state is the question asked.                                        *)
(*                                                                         *)
(* Roles and fields are compared without their case, as strings.EqualFold  *)
(* and the lower-cased keys do, so they are model values here.             *)
(***************************************************************************)
EXTENDS Naturals, FiniteSets

CONSTANTS
    Roles,          \* names of roles, GuestRole among them
    GuestRole,
    Fields,         \* fields of the entity's type
    Policies,       \* the configurations asked about
    Undeclared      \* no rule of that name

VARIABLES
    policy,         \* AccessControlConfig
    uc,             \* UserContextCache: [state, roles]
    entity          \* whether it decides for itself, and what it says of a user and of a visitor

accessVars == <<policy, uc, entity>>

Rule == [allowed : BOOLEAN, deny : BOOLEAN, roles : SUBSET Roles]
MaybeRule == Rule \cup {Undeclared}

\* What a field's rules are for each operation, or Undeclared for the whole field.
FieldRules == [{"read", "owner", "filter", "sort"} -> MaybeRule]

Operators == {"=", "like"}

Policy == [guests : BOOLEAN,                                    \* AllowGuestAccess
           ops : [{"read", "read_owner", "read_level", "filter", "sort"} -> MaybeRule],
           fields : [Fields -> FieldRules \cup {Undeclared}],
           defaults : SUBSET Fields,                            \* DefaultFields
           ownership : BOOLEAN,                                 \* OwnershipField is set
           bounded : BOOLEAN,                                   \* AllowedAccessLevels is, without "odd"
           operators : SUBSET Operators,                        \* AllowedOperators
           filterRoles : SUBSET Roles, sortRoles : SUBSET Roles]

Identity == [state : {"authenticated"}, roles : SUBSET Roles]
                \cup [state : {"anonymous", "unresolved"}, roles : {{}}]

\* An entity that implements AccessibleEntity says of a user whether it is the owner and which
\* level it has, and which level somebody without an identity has; one that does not has an owner.
Levels == {"", "level", "odd"}
Entity == [custom : {TRUE}, owner : BOOLEAN, level : Levels, visitor : Levels]
              \cup [custom : {FALSE}, owner : BOOLEAN, level : {""}, visitor : {""}]

---------------------------------------------------------------------------
(* Who asks.                                                               *)

\* A user has the roles of its model, whoever established to be nobody the guest role, and
\* nobody at all who could not be asked about (resolveUserContextUncached, markAnonymous).
Resolved(p, who) ==
    CASE who.state = "authenticated" -> who.roles
      [] who.state = "anonymous"     -> IF p.guests THEN {GuestRole} ELSE {}
      [] who.state = "unresolved"    -> {}

\* The gate every surface starts with.
Admits(p, c) == /\ c.state # "unresolved"
                /\ c.state = "anonymous" => p.guests

HasAny(c, required) == c.roles \cap required # {}

\* Fault: a guest that was let in is exempt from the roles a rule asks for.
MeetsRolesUnlessGuest(c, rule) ==
    (c.state # "anonymous" /\ rule.roles # {}) => HasAny(c, rule.roles)

MeetsRoles(c, rule) == rule.roles # {} => HasAny(c, rule.roles)

---------------------------------------------------------------------------
(* The entity.                                                             *)

\* A rule for the type: canAccessEntityType, validateDomainLevelAccess. Deny is not read.
TypeAllows(p, c, op) ==
    /\ p.ops[op] # Undeclared
    /\ p.ops[op].allowed
    /\ MeetsRoles(c, p.ops[op])

CanAccessEntityType(p, c) == Admits(p, c) /\ TypeAllows(p, c, "read")

Grants(c, rule) == rule # Undeclared /\ ~rule.deny /\ rule.allowed /\ MeetsRoles(c, rule)
Denies(rule) == rule # Undeclared /\ rule.deny

LevelPermitted(p, level) == p.bounded => level # "odd"

\* The rule of a level is looked up under its name, which "odd" has none of.
LevelRule(p, level) == IF level = "level" THEN p.ops["read_level"] ELSE Undeclared

IsOwner(c, e) == c.state = "authenticated" /\ e.owner

\* GetOwnershipInfo: the entity is asked about this caller.
LevelOf(c, e) == IF c.state = "authenticated" THEN e.level ELSE e.visitor

\* The owner's rule, the level's and the type's, the first that decides: a grant or a denial
\* does, a rule whose roles the caller has not leaves it to the next.
CanAccessEntity(p, c, e) ==
    LET ownerRule == IF e.custom /\ IsOwner(c, e) THEN p.ops["read_owner"] ELSE Undeclared
        levelRule == IF e.custom THEN LevelRule(p, LevelOf(c, e)) ELSE Undeclared
    IN  /\ Admits(p, c)
        /\ e.custom => LevelPermitted(p, LevelOf(c, e))
        /\ \/ Grants(c, ownerRule)
           \/ /\ ~Denies(ownerRule)
              /\ \/ Grants(c, levelRule)
                 \/ ~Denies(levelRule) /\ Grants(c, p.ops["read"])

---------------------------------------------------------------------------
(* Fields of an entity that does not decide for itself. One that does is   *)
(* asked by the same surfaces, behind the same gate.                       *)

FieldAllows(p, c, f, op) ==
    IF p.fields[f] = Undeclared
    THEN TypeAllows(p, c, op)
    ELSE /\ p.fields[f][op] # Undeclared
         /\ p.fields[f][op].allowed
         /\ MeetsRoles(c, p.fields[f][op])

\* An owner rule of a field is a requirement: Deny is read here, and only here.
OwnerHolds(p, c, f, e) ==
    (p.ownership /\ p.fields[f] # Undeclared /\ p.fields[f]["owner"] # Undeclared)
    => /\ p.fields[f]["owner"].allowed /\ ~p.fields[f]["owner"].deny
       /\ IsOwner(c, e)

CanReadField(p, c, f, e) ==
    /\ Admits(p, c)
    /\ FieldAllows(p, c, f, "read")
    /\ OwnerHolds(p, c, f, e)

\* The fields with a configuration, or the default ones when none has.
AllFields(p) == LET declared == {f \in Fields : p.fields[f] # Undeclared}
                IN  IF declared = {} THEN p.defaults ELSE declared

GetReadableFields(p, c, e) ==
    {f \in AllFields(p) : ~e.custom /\ CanReadField(p, c, f, e)}

\* Once for the collection, so no field asks whose row it is.
GetReadableFieldsForCollection(p, c) ==
    {f \in AllFields(p) : Admits(p, c) /\ FieldAllows(p, c, f, "read")}

\* A field without roles of its own takes the type's; one with roles takes those the two have
\* in common, and where they have none it asks for none.
InheritedAllows(p, c, f) ==
    LET typeRoles == IF p.ops["read"] = Undeclared THEN {} ELSE p.ops["read"].roles
        rule == IF p.fields[f] = Undeclared THEN Undeclared ELSE p.fields[f]["read"]
        effective == IF rule.roles = {} THEN typeRoles ELSE typeRoles \cap rule.roles
    IN  IF rule = Undeclared
        THEN HasAny(c, typeRoles)
        ELSE rule.allowed /\ (effective # {} => HasAny(c, effective))

InheritedFieldPermissions(p, c) ==
    {f \in AllFields(p) : Admits(p, c) /\ InheritedAllows(p, c, f)}

\* The rows a collection keeps, with one list of fields for all of them.
CollectionFields(p, c, rows) ==
    IF \E e \in rows : CanAccessEntity(p, c, e) THEN InheritedFieldPermissions(p, c) ELSE {}

---------------------------------------------------------------------------
(* Filters and sorts.                                                      *)

\* A field without rules is filtered and sorted by the type's rules of those names.
GateOf(p, c, f, op) == Admits(p, c) /\ FieldAllows(p, c, f, op)

ValidateFilterAccess(p, c, f, operator) ==
    /\ GateOf(p, c, f, "filter")
    /\ operator \in p.operators
    /\ p.filterRoles # {} => HasAny(c, p.filterRoles)
ValidateSortAccess(p, c, f) ==
    GateOf(p, c, f, "sort") /\ (p.sortRoles # {} => HasAny(c, p.sortRoles))

\* NewPaginationParamsWithAccess: within the caps, and every field admitted, or no parameters.
\* A filter is a field and an operator.
Paginates(p, c, filters, sorts, maxFilters, maxSorts) ==
    /\ maxFilters > 0 => Cardinality(filters) <= maxFilters
    /\ maxSorts > 0 => Cardinality(sorts) <= maxSorts
    /\ \A x \in filters : ValidateFilterAccess(p, c, x[1], x[2])
    /\ \A f \in sorts : ValidateSortAccess(p, c, f)

---------------------------------------------------------------------------
\* Everything a caller is granted, by the surface that grants it.
Granted(p, c, e) ==
    {<<"entity">> : x \in {y \in {1} : CanAccessEntity(p, c, e)}}
    \cup {<<"type">> : x \in {y \in {1} : CanAccessEntityType(p, c)}}
    \cup {<<"row", f>> : f \in GetReadableFields(p, c, e)}
    \cup {<<"rows", f>> : f \in GetReadableFieldsForCollection(p, c)}
    \cup {<<"inherited", f>> : f \in InheritedFieldPermissions(p, c)}
    \cup {<<"collection", f>> : f \in CollectionFields(p, c, {e})}
    \cup {<<"filter", x>> : x \in {y \in Fields \X Operators : Paginates(p, c, {y}, {}, 1, 1)}}
    \cup {<<"sort", f>> : f \in {g \in Fields : Paginates(p, c, {}, {g}, 0, 0)}}

AccessInit == /\ policy \in Policies
              /\ entity \in Entity
              /\ \E who \in Identity : uc = [who EXCEPT !.roles = Resolved(policy, who)]

AccessSpec == AccessInit /\ [][UNCHANGED accessVars]_accessVars

---------------------------------------------------------------------------
\* A caller nobody could identify, and a guest where guests are not let in, is granted nothing
\* by any surface, whatever the rules say (access_control.go:175-200, each entry point).
NobodyUnknownServed == ~Admits(policy, uc) => Granted(policy, uc, entity) = {}

\* The entity itself tells a user from a visitor: the user is its owner and owners are refused,
\* or has a level that is refused or bounded out, or the visitor's level is what let it in.
SetsApart(p, c, e) ==
    /\ e.custom
    /\ \/ e.owner /\ Denies(p.ops["read_owner"])
       \/ /\ e.level # e.visitor
          /\ \/ ~LevelPermitted(p, e.level)
             \/ Denies(LevelRule(p, e.level))
             \/ Grants(c, LevelRule(p, e.visitor))

\* No surface inverts: what an anonymous caller is granted, a user with the roles of a guest and
\* any more is granted too, so no rule serves visitors and refuses who logs in. Only an entity
\* that sets the two apart may refuse itself to the user (access_control.go:765-793, 1195-1252,
\* 1395-1399).
NoInversion ==
    uc.state = "anonymous" =>
        \A more \in SUBSET Roles :
            LET user == [state |-> "authenticated", roles |-> uc.roles \cup more]
                ofEntity == IF SetsApart(policy, uc, entity) THEN {"entity", "collection"} ELSE {}
            IN  {g \in Granted(policy, uc, entity) : g[1] \notin ofEntity}
                    \subseteq Granted(policy, user, entity)

\* Being known never costs a caller anything that the entity has not decided itself: the
\* unidentified are granted nothing, and whoever logs in keeps what a visitor had
\* (access_control.go:175-200, 765-793, 1195-1252, 1395-1399).
GrantsGrow == NobodyUnknownServed /\ NoInversion
=============================================================================
