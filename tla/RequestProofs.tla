--------------------------- MODULE RequestProofs ----------------------------
(***************************************************************************)
(* Proofs about one request: whom it belongs to, what that caller may see, *)
(* what becomes of its body and its uploads, and what it saves; and about  *)
(* the state that the requests of a process share: the guard of its data   *)
(* sources, the token source of a SQL Server, the sessions kept in memory, *)
(* and the buckets of the limiter.                                         *)
(*                                                                         *)
(* Access and row filters have no invariant to strengthen: what is proved  *)
(* is about their operators, for every policy, visitor and filter.         *)
(*                                                                         *)
(* MemoIInv carries what each question has seen: ids only grow             *)
(* (KeysAreOld), so what is stored under the current session's key was     *)
(* found for it (FoundIsSeen).                                             *)
(*                                                                         *)
(* BodyIInv says what the remembered body stands for until somebody goes   *)
(* past the scope (BodyKept, FormKept), and UploadIInv who owns each copy  *)
(* of an uploaded file (CopiesOwned).                                      *)
(*                                                                         *)
(* SaveIInv says that every Save of a cascade is about something its first *)
(* one reaches (CascadeOf), and that the first one asked about all of that *)
(* before it wrote (CheckedFirst); what is reached from what is reached is *)
(* reached (ReachedOnwards), so the Saves within are not refused.          *)
(*                                                                         *)
(* WholeIInv keeps the account of a cascade: what each Save has done of    *)
(* the relations it has left behind (FrameWhole, HasWhole), why it was     *)
(* begun (BegunBy), and that no later step undoes any of it (Keeps).       *)
(*                                                                         *)
(* What the requests of a process share comes last.                        *)
(*                                                                         *)
(* GuardIInv orders what an install does: it publishes its policy, guards  *)
(* the pool, and promises last (InstalledInOrder), so a pool that owes a   *)
(* policy checks it (PromisesKept), and the statement on its way was       *)
(* checked for all it is owed (SendingSound).                              *)
(*                                                                         *)
(* TokenIInv says that the acquisition in flight is the only one that      *)
(* talks to the credential (OneInFlight), and that whoever is signed in is *)
(* known to the source or was signed in by that one (SignedInIsKnown): so  *)
(* an acquisition that goes to the prompt is the first there is            *)
(* (PromptsAreFirst). A caller moves (CallerMoves), joins the acquisition  *)
(* in flight (CallerJoins) or starts one (AcquisitionStarts); an           *)
(* acquisition goes on (AcquisitionGoesOn) until its result is stored and  *)
(* published.                                                              *)
(*                                                                         *)
(* MemoryIInv says that a tombstone stands for a revocation and ends with  *)
(* it (TombstonesAreRevocations), and that the most recent revocations     *)
(* have theirs (RecentAreRemembered): no write gives a session back that   *)
(* was revoked within the retention and has not been pushed out            *)
(* (HeldAreFree).                                                          *)
(*                                                                         *)
(* LimitIInv says that a bucket nobody has used for a while has been       *)
(* refilled for just as long (FillsWhileIdle), so one that the sweep drops *)
(* was full.                                                               *)
(***************************************************************************)
EXTENDS AccessControl, RowFilters, IdentityMemo, RequestScope, OrmSave, SqlGuard, TokenSource, MemorySession, RateLimit,
        FiniteSetTheorems, SequenceTheorems, TLAPS



-----------------------------------------------------------------------------
(* Access.                                                                 *)

\* Whom a visitor may become by logging in.
Grows(c, u) == c.state = "anonymous" /\ u.state = "authenticated" /\ c.roles \subseteq u.roles

LEMMA RolesGrow ==
    ASSUME NEW c, NEW u, Grows(c, u), NEW p
    PROVE  /\ Admits(p, u)
           /\ \A required : HasAny(c, required) => HasAny(u, required)
           /\ \A rule : MeetsRoles(c, rule) => MeetsRoles(u, rule)
           /\ \A op : TypeAllows(p, c, op) => TypeAllows(p, u, op)
           /\ \A rule : Grants(c, rule) => Grants(u, rule)
  <1>1. Admits(p, u)
    BY DEF Grows, Admits
  <1>2. \A required : HasAny(c, required) => HasAny(u, required)
    BY DEF Grows, HasAny
  <1>3. \A rule : MeetsRoles(c, rule) => MeetsRoles(u, rule)
    BY <1>2 DEF MeetsRoles
  <1> QED
    BY <1>1, <1>2, <1>3 DEF TypeAllows, Grants

\* What lets a visitor have an entity that does not set the two apart lets a user have it.
LEMMA EntityGrows ==
    ASSUME NEW c, NEW u, Grows(c, u), NEW p, NEW e \in Entity, CanAccessEntity(p, c, e), ~SetsApart(p, c, e)
    PROVE  CanAccessEntity(p, u, e)
  <1> DEFINE visitorRule == IF e.custom THEN LevelRule(p, e.visitor) ELSE Undeclared
             ownerRule == IF e.custom /\ IsOwner(u, e) THEN p.ops["read_owner"] ELSE Undeclared
             levelRule == IF e.custom THEN LevelRule(p, e.level) ELSE Undeclared
  <1>1. /\ Admits(p, u)
        /\ \A rule : Grants(c, rule) => Grants(u, rule)
    BY RolesGrow
  <1>2. /\ e.custom => LevelPermitted(p, e.visitor)
        /\ Grants(c, visitorRule) \/ (~Denies(visitorRule) /\ Grants(c, p.ops["read"]))
    <2>1. LevelOf(c, e) = e.visitor /\ ~IsOwner(c, e)
      BY DEF LevelOf, IsOwner, Grows
    <2>2. ~Grants(c, Undeclared)
      BY DEF Grants
    <2> QED
      BY <2>1, <2>2 DEF CanAccessEntity
  <1>3. LevelOf(u, e) = e.level
    BY DEF LevelOf, Grows
  <1>4. ~Denies(ownerRule)
    BY DEF SetsApart, IsOwner, Denies
  <1>5. CASE ~e.custom
    BY <1>1, <1>2, <1>5 DEF CanAccessEntity, Denies, Grants
  <1>6. CASE e.custom /\ e.level = e.visitor
    <2> HIDE DEF ownerRule
    <2>1. levelRule = visitorRule
      BY <1>6
    <2>2. Grants(u, levelRule) \/ (~Denies(levelRule) /\ Grants(u, p.ops["read"]))
      BY <1>1, <1>2, <2>1
    <2> HIDE DEF levelRule
    <2> QED
      BY <1>1, <1>2, <1>3, <1>4, <1>6, <2>2 DEF CanAccessEntity, ownerRule, levelRule
  <1>7. CASE e.custom /\ e.level # e.visitor
    <2> HIDE DEF ownerRule
    <2>1. LevelPermitted(p, e.level) /\ ~Denies(levelRule) /\ ~Grants(c, visitorRule)
      BY <1>7 DEF SetsApart
    <2>2. Grants(u, p.ops["read"])
      BY <1>1, <1>2, <2>1
    <2> HIDE DEF levelRule
    <2> QED
      BY <1>1, <1>3, <1>4, <2>1, <2>2 DEF CanAccessEntity, ownerRule, levelRule
  <1> QED
    BY <1>5, <1>6, <1>7

LEMMA FieldsGrow ==
    ASSUME NEW c, NEW u, Grows(c, u), NEW p, NEW f
    PROVE  /\ \A op : FieldAllows(p, c, f, op) => FieldAllows(p, u, f, op)
           /\ \A e : CanReadField(p, c, f, e) => CanReadField(p, u, f, e)
           /\ InheritedAllows(p, c, f) => InheritedAllows(p, u, f)
           /\ \A o : ValidateFilterAccess(p, c, f, o) => ValidateFilterAccess(p, u, f, o)
           /\ ValidateSortAccess(p, c, f) => ValidateSortAccess(p, u, f)
  <1>1. /\ Admits(p, u)
        /\ \A required : HasAny(c, required) => HasAny(u, required)
        /\ \A rule : MeetsRoles(c, rule) => MeetsRoles(u, rule)
        /\ \A op : TypeAllows(p, c, op) => TypeAllows(p, u, op)
    BY RolesGrow
  <1>2. \A op : FieldAllows(p, c, f, op) => FieldAllows(p, u, f, op)
    BY <1>1 DEF FieldAllows
  <1>3. \A e : OwnerHolds(p, c, f, e) => OwnerHolds(p, u, f, e)
    BY DEF OwnerHolds, IsOwner, Grows
  <1>4. \A e : CanReadField(p, c, f, e) => CanReadField(p, u, f, e)
    BY <1>1, <1>2, <1>3 DEF CanReadField
  <1>5. InheritedAllows(p, c, f) => InheritedAllows(p, u, f)
    BY <1>1 DEF InheritedAllows
  <1> QED
    BY <1>1, <1>2, <1>4, <1>5 DEF ValidateFilterAccess, ValidateSortAccess, GateOf

LEMMA GrantedGrows ==
    ASSUME NEW c, NEW u, Grows(c, u), NEW p, NEW e \in Entity,
           NEW g \in Granted(p, c, e), g[1] \in {"entity", "collection"} => ~SetsApart(p, c, e)
    PROVE  g \in Granted(p, u, e)
  <1>1. CanAccessEntity(p, c, e) /\ ~SetsApart(p, c, e) => CanAccessEntity(p, u, e)
    BY EntityGrows
  <1>2. CanAccessEntityType(p, c) => CanAccessEntityType(p, u)
    BY RolesGrow DEF CanAccessEntityType
  <1>3. \A f : /\ CanReadField(p, c, f, e) => CanReadField(p, u, f, e)
               /\ FieldAllows(p, c, f, "read") => FieldAllows(p, u, f, "read")
               /\ InheritedAllows(p, c, f) => InheritedAllows(p, u, f)
               /\ \A o : ValidateFilterAccess(p, c, f, o) => ValidateFilterAccess(p, u, f, o)
               /\ ValidateSortAccess(p, c, f) => ValidateSortAccess(p, u, f)
    BY FieldsGrow
  <1>4. Admits(p, u)
    BY RolesGrow
  <1>5. GetReadableFields(p, c, e) \subseteq GetReadableFields(p, u, e)
    BY <1>3 DEF GetReadableFields
  <1>6. GetReadableFieldsForCollection(p, c) \subseteq GetReadableFieldsForCollection(p, u)
    BY <1>3, <1>4 DEF GetReadableFieldsForCollection
  <1>7. InheritedFieldPermissions(p, c) \subseteq InheritedFieldPermissions(p, u)
    BY <1>3, <1>4 DEF InheritedFieldPermissions
  <1>8. ~SetsApart(p, c, e) => CollectionFields(p, c, {e}) \subseteq CollectionFields(p, u, {e})
    BY <1>1, <1>7 DEF CollectionFields
  <1>9. /\ \A y : Paginates(p, c, {y}, {}, 1, 1) => Paginates(p, u, {y}, {}, 1, 1)
        /\ \A f : Paginates(p, c, {}, {f}, 0, 0) => Paginates(p, u, {}, {f}, 0, 0)
    BY <1>3 DEF Paginates
  <1>10. CASE g = <<"entity">> /\ CanAccessEntity(p, c, e)
    BY <1>1, <1>10 DEF Granted
  <1>11. CASE g = <<"type">> /\ CanAccessEntityType(p, c)
    BY <1>2, <1>11 DEF Granted
  <1>12. CASE \E f \in GetReadableFields(p, c, e) : g = <<"row", f>>
    BY <1>5, <1>12 DEF Granted
  <1>13. CASE \E f \in GetReadableFieldsForCollection(p, c) : g = <<"rows", f>>
    BY <1>6, <1>13 DEF Granted
  <1>14. CASE \E f \in InheritedFieldPermissions(p, c) : g = <<"inherited", f>>
    BY <1>7, <1>14 DEF Granted
  <1>15. CASE \E f \in CollectionFields(p, c, {e}) : g = <<"collection", f>>
    BY <1>8, <1>15 DEF Granted
  <1>16. CASE \E x \in {y \in Fields \X Operators : Paginates(p, c, {y}, {}, 1, 1)} : g = <<"filter", x>>
    BY <1>9, <1>16 DEF Granted
  <1>17. CASE \E f \in {h \in Fields : Paginates(p, c, {}, {h}, 0, 0)} : g = <<"sort", f>>
    BY <1>9, <1>17 DEF Granted
  <1> QED
    BY <1>10, <1>11, <1>12, <1>13, <1>14, <1>15, <1>16, <1>17 DEF Granted

\* Nobody passes the gate without being let in.
LEMMA GrantedAdmits ==
    ASSUME NEW c, NEW p, NEW e, ~Admits(p, c)
    PROVE  Granted(p, c, e) = {}
  <1>1. \A f : ~GateOf(p, c, f, "filter") /\ ~GateOf(p, c, f, "sort")
    BY DEF GateOf
  <1>2. /\ \A y : ~Paginates(p, c, {y}, {}, 1, 1)
        /\ \A f : ~Paginates(p, c, {}, {f}, 0, 0)
    BY <1>1 DEF Paginates, ValidateFilterAccess, ValidateSortAccess
  <1>3. ~CanAccessEntity(p, c, e) /\ ~CanAccessEntityType(p, c)
    BY DEF CanAccessEntity, CanAccessEntityType
  <1>4. /\ GetReadableFields(p, c, e) = {} /\ GetReadableFieldsForCollection(p, c) = {}
        /\ InheritedFieldPermissions(p, c) = {}
    BY DEF GetReadableFields, CanReadField, GetReadableFieldsForCollection, InheritedFieldPermissions
  <1>5. CollectionFields(p, c, {e}) = {}
    BY <1>4 DEF CollectionFields
  <1> QED
    BY <1>2, <1>3, <1>4, <1>5 DEF Granted

\* Being known costs nothing the entity has not decided itself: the unidentified are granted
\* nothing, and whoever logs in keeps what a visitor had (access_control.go).
THEOREM KnownIsNeverLess == AccessSpec => []GrantsGrow
  <1> DEFINE Inv == entity \in Entity
  <1>1. AccessInit => Inv
    BY DEF AccessInit
  <1>2. Inv /\ [UNCHANGED accessVars]_accessVars => Inv'
    BY DEF accessVars
  <1>3. Inv => GrantsGrow
    <2> SUFFICES ASSUME entity \in Entity PROVE GrantsGrow
      OBVIOUS
    <2>1. NobodyUnknownServed
      BY GrantedAdmits DEF NobodyUnknownServed
    <2>2. ASSUME uc.state = "anonymous", NEW more \in SUBSET Roles,
                 NEW g \in Granted(policy, uc, entity),
                 SetsApart(policy, uc, entity) => g[1] \notin {"entity", "collection"}
          PROVE  g \in Granted(policy, [state |-> "authenticated", roles |-> uc.roles \cup more], entity)
      <3> DEFINE user == [state |-> "authenticated", roles |-> uc.roles \cup more]
      <3>1. Grows(uc, user)
        BY <2>2 DEF Grows
      <3> HIDE DEF user
      <3>2. g \in Granted(policy, user, entity)
        BY <2>2, <3>1, GrantedGrows
      <3> QED
        BY <3>2 DEF user
    <2> QED
      BY <2>1, <2>2 DEF GrantsGrow, NoInversion
  <1> QED
    BY <1>1, <1>2, <1>3, PTL DEF AccessSpec

-----------------------------------------------------------------------------
(* Row filters.                                                            *)

\* The rows a valid set of filters leaves.
LEMMA AppliedRows ==
    ASSUME NEW filters, NEW w, ApplyDBFilters(filters) # NoRows, w \in ApplyDBFilters(filters)
    PROVE  /\ w \in Rows
           /\ \A f \in filters : f.logic # "OR" => HoldsOf(f, w) /\ Joins(f, w)
           /\ (\E f \in filters : f.logic = "OR") =>
                 \E f \in filters : f.logic = "OR" /\ HoldsOf(f, w)
           /\ \A f \in filters : f.logic \in {"AND", "OR", "or"}
  BY DEF ApplyDBFilters, Alternatives, ValidFilter

\* What a filter does to a query is all it says, unless it is out of reach.
LEMMA AllItSays ==
    ASSUME NEW f, NEW w \in Rows, HoldsOf(f, w)
    PROVE  /\ IF OutOfReach(f) THEN w \in f.as ELSE Promised(f, w)
           /\ Joins(f, w) => OutOfReach(f) \/ w \in f.join
  BY DEF HoldsOf, Joins, OutOfReach, Promised

LEMMA ConfiguredFilters ==
    ASSUME NEW s, NEW r
    PROVE  Configured(s, r) = UNION {Processed(s, f) : f \in
                                 UNION {CustomFiltersFor(s, role) : role \in r.roles}}
  BY DEF Configured, CustomFiltersFor

\* No row is served that a restriction configured for the reader, or ownership, keeps back
\* (access_control.go, pagination.go).
THEOREM RestrictionsKept == RowSpec => []RestrictionsApplied
  <1>1. RestrictionsApplied
    <2> SUFFICES ASSUME Served(setup, reader) # NoRows, NEW w \in Served(setup, reader)
                 PROVE  LET filters == Configured(setup, reader)
                            anyOf == {f \in filters : f.logic # "AND"}
                        IN  /\ reader.state # "unresolved"
                            /\ (setup.ownership /\ ~Exempt(setup, reader)) => w \in OwnRows
                            /\ \A f \in filters \ anyOf : InForceOf(f, w) /\ (OutOfReach(f) \/ w \in f.join)
                            /\ anyOf # {} => \E f \in anyOf : InForceOf(f, w)
                            /\ (filters = {} /\ ~setup.ownership) => Exempt(setup, reader)
      BY DEF RestrictionsApplied
    <2> DEFINE own == IF setup.ownership /\ ~Exempt(setup, reader) THEN {OwnershipFilter} ELSE {}
               custom == UNION {CustomFiltersFor(setup, role) : role \in reader.roles}
               chosen == Configured(setup, reader)
               made == own \cup chosen
               filters == IF made # {} THEN made
                          ELSE IF Exempt(setup, reader) THEN {FullAccess} ELSE {NoAccess}
    <2>1. chosen = UNION {Processed(setup, f) : f \in custom}
      BY ConfiguredFilters
    <2>2. GenerateDBFilters(setup, reader) =
            IF \/ ~CanUseDBLevelRBAC(setup, reader)
               \/ own # {} /\ reader.state # "authenticated"
               \/ \E f \in custom : Broken(f, reader)
               \/ \E f \in filters : ~ValidFilter(f, TRUE)
            THEN NoRows ELSE filters
      BY <2>1 DEF GenerateDBFilters
    <2>3. /\ GenerateDBFilters(setup, reader) # NoRows
          /\ Served(setup, reader) = ApplyDBFilters(GenerateDBFilters(setup, reader))
      BY DEF Served
    <2> HIDE DEF own, custom, chosen
    <2>4. /\ GenerateDBFilters(setup, reader) = filters
          /\ CanUseDBLevelRBAC(setup, reader)
      BY <2>2, <2>3
    <2> HIDE DEF filters
    <2>5. /\ w \in Rows
          /\ \A f \in filters : f.logic # "OR" => HoldsOf(f, w) /\ Joins(f, w)
          /\ (\E f \in filters : f.logic = "OR") =>
                 \E f \in filters : f.logic = "OR" /\ HoldsOf(f, w)
          /\ \A f \in filters : f.logic \in {"AND", "OR", "or"}
      BY <2>3, <2>4, AppliedRows
    <2>6. OwnershipFilter.logic = "AND" /\ OwnershipFilter.rows = OwnRows /\ OwnershipFilter.nested = "none"
      BY DEF OwnershipFilter, PlainFilter
    <2>7. NoAccess.logic = "AND" /\ NoAccess.rows = {} /\ NoAccess.nested = "none"
      BY DEF NoAccess, FullAccess, PlainFilter
    <2>8. reader.state # "unresolved"
      BY <2>4 DEF CanUseDBLevelRBAC
    <2>9. made # {} => filters = made
      BY DEF filters
    <2>10. setup.ownership /\ ~Exempt(setup, reader) => w \in OwnRows
      BY <2>5, <2>6, <2>9 DEF own, HoldsOf
    <2>a. \A f : HoldsOf(f, w) => InForceOf(f, w) /\ (Joins(f, w) => OutOfReach(f) \/ w \in f.join)
      BY <2>5, AllItSays DEF InForceOf
    <2>11. \A f \in chosen : f.logic = "AND" => InForceOf(f, w) /\ (OutOfReach(f) \/ w \in f.join)
      BY <2>5, <2>9, <2>a
    <2>12. (\E f \in chosen : f.logic # "AND") => \E f \in chosen : f.logic # "AND" /\ InForceOf(f, w)
      <3> SUFFICES ASSUME NEW g \in chosen, g.logic # "AND"
                   PROVE  \E f \in chosen : f.logic # "AND" /\ InForceOf(f, w)
        OBVIOUS
      <3>1. filters = made /\ g \in filters
        BY <2>9
      <3>2. CASE g.logic = "OR"
        <4>1. PICK f \in filters : f.logic = "OR" /\ HoldsOf(f, w)
          BY <2>5, <3>1, <3>2
        <4>2. f \in chosen
          BY <2>6, <3>1, <4>1 DEF own
        <4> QED
          BY <2>a, <4>1, <4>2
      <3>3. CASE g.logic # "OR"
        BY <2>5, <2>a, <3>1, <3>3
      <3> QED
        BY <3>2, <3>3
    <2>13. chosen = {} /\ ~setup.ownership => Exempt(setup, reader)
      <3> SUFFICES ASSUME chosen = {}, ~setup.ownership, ~Exempt(setup, reader)
                   PROVE  FALSE
        OBVIOUS
      <3>1. filters = {NoAccess}
        BY DEF filters, own
      <3> QED
        BY <2>5, <2>7, <3>1 DEF HoldsOf
    <2> QED
      BY <2>8, <2>10, <2>11, <2>12, <2>13 DEF chosen
  <1> QED
    BY <1>1, PTL

-----------------------------------------------------------------------------
(* The identity of a request.                                              *)

Held == [id : Nat, user : Users \cup {Nobody}]
Answers3 == Users \cup {Nobody, Unresolved, Empty}

MemoTypeOK ==
    /\ session \in Held
    /\ memo = Empty \/ memo \in [key : Held, identity : Answers3]
    /\ pending \in {"none", "login", "logout"}
    /\ asker \in [Askers -> [pc : {"idle", "load", "resolve", "store", "decide"},
                             key : Held, found : Answers3]]
    /\ since \in [Askers -> SUBSET (Users \cup {Nobody})]
    /\ overlapped \in BOOLEAN

\* Ids only grow, so what was asked or memoised under another session than the current one
\* was under an earlier one.
KeysAreOld ==
    /\ memo # Empty => memo.key.id <= session.id
    /\ \A a \in Askers : asker[a].pc # "idle" => asker[a].key.id <= session.id
    /\ memo # Empty /\ memo.key.id = session.id => memo.key = session
    /\ \A a \in Askers : asker[a].pc # "idle" /\ asker[a].key.id = session.id => asker[a].key = session

\* Whoever asks has seen who the request belongs to.
SeesCurrent == \A a \in Askers : asker[a].pc # "idle" => Current \in since[a]

\* What was found belongs to the question: to the finder's own, to every other one under the
\* same key, and under the current session's key to whom it belongs to now, or did until the
\* logout under way.
FoundIsSeen ==
    ~overlapped =>
        /\ \A a \in Askers : asker[a].pc \in {"store", "decide"}
                             => asker[a].found \in since[a] \cup {Unresolved}
        /\ \A a, b \in Askers : asker[a].pc = "store" /\ asker[b].pc = "load" /\ asker[a].key = asker[b].key
                                => asker[a].found \in since[b] \cup {Unresolved}
        /\ \A b \in Askers : asker[b].pc = "load" /\ memo # Empty /\ memo.key = asker[b].key
                             => memo.identity \in since[b] \cup {Unresolved}
        /\ \A a \in Askers : asker[a].pc = "store" /\ asker[a].key = session
                             => asker[a].found \in {Current, Unresolved}
        /\ memo # Empty /\ memo.key = session
           => memo.identity \in {Current, Unresolved}
                 \cup (IF pending = "logout" THEN {session.user} ELSE {})

MemoIInv == MemoTypeOK /\ KeysAreOld /\ SeesCurrent /\ FoundIsSeen

LEMMA MemoFacts ==
    ASSUME MemoTypeOK
    PROVE  /\ session \in Held /\ session.id \in Nat /\ session.user \in Users \cup {Nobody}
           /\ Current \in Users \cup {Nobody}
           /\ \A a \in Askers : /\ asker[a].pc \in {"idle", "load", "resolve", "store", "decide"}
                                /\ asker[a].key \in Held /\ asker[a].key.id \in Nat
                                /\ asker[a].found \in Answers3
           /\ memo # Empty => memo.key \in Held /\ memo.key.id \in Nat /\ memo.identity \in Answers3
           /\ since \in [Askers -> SUBSET (Users \cup {Nobody})]
  BY DEF MemoTypeOK, Held, Current, Owner

\* An asker that goes on to p with f found, whatever it had.
LEMMA GoesOn ==
    ASSUME NEW r0 \in [pc : {"idle", "load", "resolve", "store", "decide"}, key : Held, found : Answers3],
           NEW p, NEW f
    PROVE  [r0 EXCEPT !.pc = p, !.found = f] = [pc |-> p, key |-> r0.key, found |-> f]
  <1> DEFINE g == [r0 EXCEPT !.pc = p]
  <1>1. g = [pc |-> p, key |-> r0.key, found |-> r0.found]
    OBVIOUS
  <1>2. g \in [pc : {p}, key : Held, found : Answers3] /\ g.pc = p /\ g.key = r0.key
    BY <1>1
  <1>3. [r0 EXCEPT !.pc = p, !.found = f] = [g EXCEPT !.found = f]
    OBVIOUS
  <1> HIDE DEF g
  <1>4. [g EXCEPT !.found = f] = [pc |-> g.pc, key |-> g.key, found |-> f]
    BY <1>2
  <1> QED
    BY <1>2, <1>3, <1>4

LEMMA MemoInitIInv == MemoInit => MemoIInv
  <1> SUFFICES ASSUME MemoInit PROVE MemoIInv
    OBVIOUS
  <1>1. \A u \in Users \cup {Nobody} : [id |-> 0, user |-> u] \in Held
    BY DEF Held
  <1>2. Asleep \in [pc : {"idle", "load", "resolve", "store", "decide"}, key : Held, found : Answers3]
    BY DEF Asleep, Held, Answers3
  <1>3. MemoTypeOK
    BY <1>1, <1>2 DEF MemoInit, MemoTypeOK
  <1>4. \A a \in Askers : asker[a].pc = "idle"
    BY DEF MemoInit, Asleep
  <1> QED
    BY <1>3, <1>4 DEF MemoIInv, KeysAreOld, SeesCurrent, FoundIsSeen, MemoInit

\* A step of asker a that leaves the request alone, and shows it as r.
LEMMA AskerStep ==
    ASSUME MemoIInv, NEW a \in Askers,
           NEW r \in [pc : {"idle", "load", "resolve", "store", "decide"}, key : Held, found : Answers3],
           NEW w \in SUBSET (Users \cup {Nobody}),
           asker' = [asker EXCEPT ![a] = r], since' = [since EXCEPT ![a] = w],
           UNCHANGED <<session, live, memo, pending, overlapped>>,
           r.pc # "idle" => /\ r.key.id <= session.id /\ (r.key.id = session.id => r.key = session)
                            /\ Current \in w,
           ~overlapped =>
              /\ r.pc \in {"store", "decide"} => r.found \in w \cup {Unresolved}
              /\ r.pc = "store" =>
                    /\ \A b \in Askers : b # a /\ asker[b].pc = "load" /\ r.key = asker[b].key
                                         => r.found \in since[b] \cup {Unresolved}
                    /\ r.key = session => r.found \in {Current, Unresolved}
              /\ r.pc = "load" =>
                    /\ \A b \in Askers : b # a /\ asker[b].pc = "store" /\ r.key = asker[b].key
                                         => asker[b].found \in w \cup {Unresolved}
                    /\ memo # Empty /\ memo.key = r.key => memo.identity \in w \cup {Unresolved}
    PROVE  MemoIInv'
  <1>1. /\ MemoTypeOK /\ KeysAreOld /\ SeesCurrent /\ FoundIsSeen
        /\ since \in [Askers -> SUBSET (Users \cup {Nobody})]
    BY DEF MemoIInv, MemoTypeOK
  <1>2. MemoTypeOK'
    BY <1>1 DEF MemoTypeOK
  <1>3. \A b \in Askers : /\ asker'[b] = IF b = a THEN r ELSE asker[b]
                          /\ since'[b] = IF b = a THEN w ELSE since[b]
    BY <1>1 DEF MemoTypeOK
  <1>4. Current' = Current
    BY DEF Current, Owner
  <1>5. KeysAreOld'
    BY <1>1, <1>3 DEF KeysAreOld
  <1>6. SeesCurrent'
    BY <1>1, <1>3, <1>4 DEF SeesCurrent
  <1>7. FoundIsSeen'
    BY <1>1, <1>3, <1>4 DEF FoundIsSeen
  <1> QED
    BY <1>2, <1>5, <1>6, <1>7 DEF MemoIInv

LEMMA AskIInv ==
    ASSUME MemoIInv, NEW a \in Askers, Ask(a)
    PROVE  MemoIInv'
  <1> DEFINE r == [pc |-> "load", key |-> session, found |-> Nobody]
             w == {Current} \cup (IF pending = "logout" THEN {session.user} ELSE {})
  <1>1. MemoTypeOK /\ KeysAreOld /\ SeesCurrent /\ FoundIsSeen
    BY DEF MemoIInv
  <1>2. /\ session \in Held /\ session.id \in Nat /\ session.user \in Users \cup {Nobody}
        /\ Current \in Users \cup {Nobody}
    BY <1>1, MemoFacts
  <1>3. r \in [pc : {"idle", "load", "resolve", "store", "decide"}, key : Held, found : Answers3]
    BY <1>2 DEF Answers3
  <1>4. w \in SUBSET (Users \cup {Nobody})
    BY <1>2
  <1>5. /\ asker' = [asker EXCEPT ![a] = r] /\ since' = [since EXCEPT ![a] = w]
        /\ UNCHANGED <<session, live, memo, pending, overlapped>>
    BY DEF Ask, Key
  <1>6. r.pc = "load" /\ r.key = session /\ Current \in w
    OBVIOUS
  <1>7. ~overlapped =>
           /\ \A b \in Askers : asker[b].pc = "store" /\ session = asker[b].key
                                => asker[b].found \in w \cup {Unresolved}
           /\ memo # Empty /\ memo.key = session => memo.identity \in w \cup {Unresolved}
    BY <1>1 DEF FoundIsSeen
  <1> HIDE DEF r, w
  <1>8. r.pc # "idle" => /\ r.key.id <= session.id /\ (r.key.id = session.id => r.key = session)
                         /\ Current \in w
    BY <1>2, <1>6
  <1>9. ~overlapped =>
           /\ r.pc \in {"store", "decide"} => r.found \in w \cup {Unresolved}
           /\ r.pc = "store" =>
                 /\ \A b \in Askers : b # a /\ asker[b].pc = "load" /\ r.key = asker[b].key
                                      => r.found \in since[b] \cup {Unresolved}
                 /\ r.key = session => r.found \in {Current, Unresolved}
           /\ r.pc = "load" =>
                 /\ \A b \in Askers : b # a /\ asker[b].pc = "store" /\ r.key = asker[b].key
                                      => asker[b].found \in w \cup {Unresolved}
                 /\ memo # Empty /\ memo.key = r.key => memo.identity \in w \cup {Unresolved}
    BY <1>6, <1>7
  <1> QED
    BY <1>3, <1>4, <1>5, <1>8, <1>9, AskerStep

LEMMA LoadMemoIInv ==
    ASSUME MemoIInv, NEW a \in Askers, LoadMemo(a)
    PROVE  MemoIInv'
  <1> DEFINE known == LoadIdentity(asker[a].key)
             p == IF known = Empty THEN "resolve" ELSE "decide"
             f == IF known = Empty THEN Nobody ELSE known
             r == [pc |-> p, key |-> asker[a].key, found |-> f]
  <1>1. MemoTypeOK /\ KeysAreOld /\ SeesCurrent /\ FoundIsSeen
    BY DEF MemoIInv
  <1>2. /\ asker[a].key \in Held /\ since \in [Askers -> SUBSET (Users \cup {Nobody})]
        /\ asker[a] \in [pc : {"idle", "load", "resolve", "store", "decide"}, key : Held, found : Answers3]
        /\ asker[a].pc = "load"
        /\ memo # Empty => memo.identity \in Answers3
    BY <1>1, MemoFacts DEF LoadMemo, MemoTypeOK
  <1>3. known # Empty => memo # Empty /\ memo.key = asker[a].key /\ known = memo.identity
    BY DEF LoadIdentity
  <1>4. r \in [pc : {"idle", "load", "resolve", "store", "decide"}, key : Held, found : Answers3]
    BY <1>2, <1>3 DEF Answers3
  <1>5. [asker[a] EXCEPT !.pc = p, !.found = f] = r
    <2>1. asker[a] \in [pc : {"idle", "load", "resolve", "store", "decide"}, key : Held, found : Answers3]
      BY <1>2
    <2> HIDE DEF p, f
    <2> QED
      BY <2>1, GoesOn
  <1>6. asker' = [asker EXCEPT ![a] = r]
    BY <1>5 DEF LoadMemo
  <1>7. /\ since' = [since EXCEPT ![a] = since[a]] /\ since[a] \in SUBSET (Users \cup {Nobody})
        /\ UNCHANGED <<session, live, memo, pending, overlapped>>
    BY <1>2 DEF LoadMemo
  <1>8. /\ r.pc \in {"resolve", "decide"} /\ r.key = asker[a].key
        /\ r.pc = "decide" => memo # Empty /\ memo.key = asker[a].key /\ r.found = memo.identity
    BY <1>3
  <1> HIDE DEF r, known
  <1>9. /\ r.key.id <= session.id /\ (r.key.id = session.id => r.key = session)
        /\ Current \in since[a]
    BY <1>1, <1>2, <1>8 DEF KeysAreOld, SeesCurrent
  <1>10. ~overlapped /\ r.pc = "decide" => r.found \in since[a] \cup {Unresolved}
    BY <1>1, <1>2, <1>8 DEF FoundIsSeen
  <1> QED
    BY <1>4, <1>6, <1>7, <1>8, <1>9, <1>10, AskerStep

LEMMA ResolveIInv ==
    ASSUME MemoIInv, NEW a \in Askers, Resolve(a)
    PROVE  MemoIInv'
  <1>1. MemoTypeOK /\ KeysAreOld /\ SeesCurrent /\ FoundIsSeen
    BY DEF MemoIInv
  <1>2. PICK who \in {Current, Unresolved} :
           asker' = [asker EXCEPT ![a].pc = "store", ![a].found = who]
    BY DEF Resolve
  <1> DEFINE r == [pc |-> "store", key |-> asker[a].key, found |-> who]
  <1>3. /\ asker[a].key \in Held /\ since \in [Askers -> SUBSET (Users \cup {Nobody})]
        /\ asker[a] \in [pc : {"idle", "load", "resolve", "store", "decide"}, key : Held, found : Answers3]
        /\ asker[a].pc = "resolve" /\ who \in Answers3
    BY <1>1, <1>2, MemoFacts DEF Resolve, MemoTypeOK, Answers3
  <1>4. r \in [pc : {"idle", "load", "resolve", "store", "decide"}, key : Held, found : Answers3]
    BY <1>3
  <1>5. [asker[a] EXCEPT !.pc = "store", !.found = who] = r
    <2>1. asker[a] \in [pc : {"idle", "load", "resolve", "store", "decide"}, key : Held, found : Answers3]
      BY <1>3
    <2> QED
      BY <2>1, GoesOn
  <1>6. asker' = [asker EXCEPT ![a] = r]
    BY <1>2, <1>5
  <1>7. /\ since' = [since EXCEPT ![a] = since[a]] /\ since[a] \in SUBSET (Users \cup {Nobody})
        /\ UNCHANGED <<session, live, memo, pending, overlapped>>
    BY <1>3 DEF Resolve
  <1>8. r.pc = "store" /\ r.key = asker[a].key /\ r.found = who
    OBVIOUS
  <1> HIDE DEF r
  <1>9. /\ r.key.id <= session.id /\ (r.key.id = session.id => r.key = session)
        /\ Current \in since[a]
    BY <1>1, <1>3, <1>8 DEF KeysAreOld, SeesCurrent
  <1>10. \A b \in Askers : asker[b].pc = "load" => r.found \in since[b] \cup {Unresolved}
    BY <1>1, <1>8 DEF SeesCurrent
  <1>11. ~overlapped =>
           /\ r.pc \in {"store", "decide"} => r.found \in since[a] \cup {Unresolved}
           /\ r.pc = "store" =>
                 /\ \A b \in Askers : b # a /\ asker[b].pc = "load" /\ r.key = asker[b].key
                                      => r.found \in since[b] \cup {Unresolved}
                 /\ r.key = session => r.found \in {Current, Unresolved}
           /\ r.pc = "load" =>
                 /\ \A b \in Askers : b # a /\ asker[b].pc = "store" /\ r.key = asker[b].key
                                      => asker[b].found \in since[a] \cup {Unresolved}
                 /\ memo # Empty /\ memo.key = r.key => memo.identity \in since[a] \cup {Unresolved}
    BY <1>8, <1>9, <1>10
  <1> QED
    BY <1>4, <1>6, <1>7, <1>9, <1>11, AskerStep

LEMMA StoreIdentityIInv ==
    ASSUME MemoIInv, NEW a \in Askers, StoreIdentity(a)
    PROVE  MemoIInv'
  <1>1. MemoTypeOK /\ KeysAreOld /\ SeesCurrent /\ FoundIsSeen
    BY DEF MemoIInv
  <1> DEFINE r == [pc |-> "decide", key |-> asker[a].key, found |-> asker[a].found]
             m == [key |-> asker[a].key, identity |-> asker[a].found]
  <1>2. /\ asker[a].key \in Held /\ asker[a].found \in Answers3 /\ asker[a].pc = "store"
        /\ asker[a] \in [pc : {"idle", "load", "resolve", "store", "decide"}, key : Held, found : Answers3]
    BY <1>1, MemoFacts DEF StoreIdentity, MemoTypeOK
  <1>3. [asker[a] EXCEPT !.pc = "decide"] = r
    BY <1>2
  <1>4. /\ asker' = [asker EXCEPT ![a] = r] /\ memo' = m
        /\ UNCHANGED <<session, live, pending, since, overlapped>>
    BY <1>3 DEF StoreIdentity
  <1>5. r \in [pc : {"idle", "load", "resolve", "store", "decide"}, key : Held, found : Answers3]
        /\ m \in [key : Held, identity : Answers3]
    BY <1>2
  <1>6. /\ r.pc = "decide" /\ r.key = asker[a].key /\ r.found = asker[a].found
        /\ m.key = asker[a].key /\ m.identity = asker[a].found
    OBVIOUS
  <1> HIDE DEF r, m
  <1>7. MemoTypeOK'
    BY <1>1, <1>4, <1>5 DEF MemoTypeOK
  <1>8. \A b \in Askers : asker'[b] = IF b = a THEN r ELSE asker[b]
    BY <1>1, <1>4 DEF MemoTypeOK
  <1>9. Current' = Current
    BY <1>4 DEF Current, Owner
  <1>10. KeysAreOld'
    BY <1>1, <1>2, <1>4, <1>6, <1>8 DEF KeysAreOld
  <1>11. SeesCurrent'
    BY <1>1, <1>2, <1>4, <1>6, <1>8, <1>9 DEF SeesCurrent
  <1>12. FoundIsSeen'
    BY <1>1, <1>2, <1>4, <1>6, <1>8, <1>9 DEF FoundIsSeen
  <1> QED
    BY <1>7, <1>10, <1>11, <1>12 DEF MemoIInv

LEMMA DecideIInv ==
    ASSUME MemoIInv, NEW a \in Askers, Decide(a)
    PROVE  MemoIInv'
  <1>1. Asleep \in [pc : {"idle", "load", "resolve", "store", "decide"}, key : Held, found : Answers3]
    BY DEF Asleep, Held, Answers3
  <1>2. Asleep.pc = "idle"
    BY DEF Asleep
  <1>3. {} \in SUBSET (Users \cup {Nobody})
    OBVIOUS
  <1>4. /\ asker' = [asker EXCEPT ![a] = Asleep] /\ since' = [since EXCEPT ![a] = {}]
        /\ UNCHANGED <<session, live, memo, pending, overlapped>>
    BY DEF Decide
  <1> QED
    BY <1>1, <1>2, <1>3, <1>4, AskerStep

LEMMA MemoLoginIInv ==
    ASSUME MemoIInv, NEW u \in Users, MemoLogin(u)
    PROVE  MemoIInv'
  <1>1. MemoTypeOK /\ KeysAreOld /\ SeesCurrent /\ FoundIsSeen
    BY DEF MemoIInv
  <1>2. PICK id \in Sessions :
           /\ id > session.id /\ session' = [id |-> id, user |-> u]
           /\ live' = (live \ {session.id}) \cup {id}
           /\ Witnessed([id |-> id, user |-> u], (live \ {session.id}) \cup {id})
    BY DEF MemoLogin
  <1> DEFINE fresh == [id |-> id, user |-> u]
  <1>3. fresh \in Held /\ fresh.id = id /\ fresh.user = u /\ id \in Nat
    BY MemoAssumption DEF Held
  <1>4. session' = fresh /\ id \in live' /\ Witnessed(fresh, live')
    BY <1>2
  <1>5. UNCHANGED <<memo, asker, overlapped>> /\ pending' = "login"
    BY DEF MemoLogin
  <1> HIDE DEF fresh
  <1>6. Current' = u /\ Owner(fresh, live') = u
    BY <1>3, <1>4 DEF Current, Owner
  <1>7. \A a \in Askers : since'[a] = IF asker[a].pc = "idle" THEN {} ELSE since[a] \cup {u}
    BY <1>4, <1>6 DEF Witnessed
  <1>8. MemoTypeOK'
    <2>1. since' \in [Askers -> SUBSET (Users \cup {Nobody})]
      BY <1>1, <1>4, <1>6 DEF Witnessed, MemoTypeOK
    <2> QED
      BY <1>1, <1>3, <1>4, <1>5, <2>1 DEF MemoTypeOK
  <1>9. /\ \A a \in Askers : asker[a].pc # "idle" => asker[a].key # fresh /\ asker[a].key.id < id
        /\ memo # Empty => memo.key # fresh /\ memo.key.id < id
    BY <1>1, <1>2, <1>3, MemoFacts DEF KeysAreOld
  <1>10. KeysAreOld'
    <2>1. \A k : k \in Held /\ k.id < id => k.id <= id /\ (k.id = id => k = fresh)
      BY <1>3 DEF Held, MemoAssumption
    <2>2. /\ \A a \in Askers : asker[a].key \in Held
          /\ memo # Empty => memo.key \in Held
      BY <1>1, MemoFacts
    <2> QED
      BY <1>3, <1>4, <1>5, <1>9, <2>1, <2>2 DEF KeysAreOld
  <1>11. SeesCurrent'
    BY <1>5, <1>6, <1>7 DEF SeesCurrent
  <1>12. FoundIsSeen'
    BY <1>1, <1>4, <1>5, <1>7, <1>9 DEF FoundIsSeen
  <1> QED
    BY <1>8, <1>10, <1>11, <1>12 DEF MemoIInv

LEMMA LogoutIInv ==
    ASSUME MemoIInv, Logout
    PROVE  MemoIInv'
  <1>1. MemoTypeOK /\ KeysAreOld /\ SeesCurrent /\ FoundIsSeen
    BY DEF MemoIInv
  <1>2. /\ session.id \in live /\ live' = live \ {session.id} /\ Witnessed(session, live')
        /\ pending = "none" /\ pending' = "logout"
        /\ overlapped' = (overlapped \/ \E a \in Askers : asker[a].pc = "store")
        /\ UNCHANGED <<session, memo, asker>>
    BY DEF Logout
  <1>3. Current = session.user /\ Current' = Nobody /\ Owner(session, live') = Nobody
    BY <1>2 DEF Current, Owner
  <1>4. \A a \in Askers : since'[a] = IF asker[a].pc = "idle" THEN {} ELSE since[a] \cup {Nobody}
    BY <1>2, <1>3 DEF Witnessed
  <1>5. MemoTypeOK'
    <2>1. since' \in [Askers -> SUBSET (Users \cup {Nobody})]
      BY <1>1, <1>2, <1>3 DEF Witnessed, MemoTypeOK
    <2> QED
      BY <1>1, <1>2, <2>1 DEF MemoTypeOK
  <1>6. KeysAreOld'
    BY <1>1, <1>2 DEF KeysAreOld
  <1>7. SeesCurrent'
    BY <1>2, <1>3, <1>4 DEF SeesCurrent
  <1>8. FoundIsSeen'
    <2> SUFFICES ASSUME ~overlapped, \A a \in Askers : asker[a].pc # "store"
                 PROVE  FoundIsSeen'
      BY <1>2 DEF FoundIsSeen
    <2> QED
      BY <1>1, <1>2, <1>3, <1>4 DEF FoundIsSeen
  <1> QED
    BY <1>5, <1>6, <1>7, <1>8 DEF MemoIInv

LEMMA InvalidateIInv ==
    ASSUME MemoIInv, Invalidate
    PROVE  MemoIInv'
  <1>1. MemoTypeOK /\ KeysAreOld /\ SeesCurrent /\ FoundIsSeen
    BY DEF MemoIInv
  <1>2. /\ memo' = Empty /\ pending' = "none"
        /\ UNCHANGED <<session, live, asker, since, overlapped>>
    BY DEF Invalidate
  <1>3. Current' = Current
    BY <1>2 DEF Current, Owner
  <1> QED
    BY <1>1, <1>2, <1>3 DEF MemoIInv, MemoTypeOK, KeysAreOld, SeesCurrent, FoundIsSeen

LEMMA MemoStepIInv == MemoIInv /\ [MemoNext]_memoVars => MemoIInv'
  <1> SUFFICES ASSUME MemoIInv, [MemoNext]_memoVars PROVE MemoIInv'
    OBVIOUS
  <1>1. CASE UNCHANGED memoVars
    BY <1>1 DEF memoVars, MemoIInv, MemoTypeOK, KeysAreOld, SeesCurrent, FoundIsSeen, Current, Owner
  <1>2. CASE MemoNext
    BY <1>2, AskIInv, LoadMemoIInv, ResolveIInv, StoreIdentityIInv, DecideIInv, MemoLoginIInv,
       LogoutIInv, InvalidateIInv DEF MemoNext
  <1> QED
    BY <1>1, <1>2

\* A decision is made on whom the request belonged to while it was being made
\* (access_control.go, http/context.go).
THEOREM DecisionsCurrent == MemoSpec => []DecidesOnCurrent
  <1>1. MemoIInv => DecidesOnCurrent
    BY DEF MemoIInv, FoundIsSeen, DecidesOnCurrent
  <1> QED
    BY <1>1, MemoInitIInv, MemoStepIInv, PTL DEF MemoSpec

-----------------------------------------------------------------------------
(* The body of a request.                                                  *)

Streams == [has : {"whole", "rest", "nothing"}, cap : Nat \cup {NoCap}, dead : BOOLEAN]

\* What the properties tell apart of the state of a body.
BodyTypeOK ==
    /\ stream \in Streams
    /\ bodyMemo \in {"unread", "whole", "rest", "nothing", "refused"}
    /\ formSeen \in {"none", "whole", "rest", "nothing"}
    /\ multi \in BOOLEAN /\ formBroken \in BOOLEAN /\ passedBy \in BOOLEAN

\* Until the body is remembered it is all there, unless somebody went past the scope; what is
\* remembered is all of it, or that it was refused.
BodyKept ==
    ~passedBy =>
        /\ bodyMemo = "unread" => stream.has = "whole" /\ ~stream.dead
        /\ bodyMemo # "unread" => bodyMemo \in {"whole", "refused"}

\* A form that was seen and is not all there is one that could not be read.
FormKept ==
    /\ formSeen \notin {"none", "whole"} => formBroken
    /\ formBroken => formSeen # "none"

BodyIInv == BodyTypeOK /\ BodyKept /\ FormKept /\ WholeOrRefused

LEMMA GetsFacts ==
    ASSUME NEW s \in Streams
    PROVE  /\ Gets(s) \in {"whole", "rest", "nothing", "refused"}
           /\ s.has = "whole" => Gets(s) \in {"whole", "refused"}
  BY DEF Gets, Streams

LEMMA DrainedFacts ==
    ASSUME NEW s \in Streams
    PROVE  Drained(s) \in Streams /\ Drained(s).has = "nothing"
  <1> DEFINE g == [s EXCEPT !.has = "nothing"]
             d == Gets(s) = "refused"
  <1>1. g \in Streams /\ g.has = "nothing"
    BY DEF Streams
  <1>2. Drained(s) = [g EXCEPT !.dead = d]
    BY DEF Drained
  <1>3. d \in BOOLEAN
    OBVIOUS
  <1> HIDE DEF g, d
  <1> QED
    BY <1>1, <1>2, <1>3 DEF Streams

LEMMA ArmedFacts ==
    ASSUME NEW what \in {"whole", "rest", "nothing"}
    PROVE  Armed(what) \in Streams /\ Gets(Armed(what)) = what
  BY DEF Armed, Gets, Streams

LEMMA CappedFacts ==
    ASSUME BodyTypeOK
    PROVE  Capped \in Streams /\ Capped.has = stream.has /\ Capped.dead = stream.dead
  <1> DEFINE n == Smaller(stream.cap, Budget + Framing)
  <1>1. Budget + Framing \in Nat
    BY ScopeConstantsOK
  <1>2. n \in Nat \cup {NoCap}
    BY <1>1 DEF Smaller, BodyTypeOK, Streams
  <1>3. Capped \in {stream, [stream EXCEPT !.cap = n]}
    BY DEF Capped
  <1> HIDE DEF n
  <1> QED
    BY <1>2, <1>3 DEF BodyTypeOK, Streams

\* ParseForm reads a form to its end or not at all, and what it could not read it says once.
LEMMA ParseFormFacts ==
    ASSUME BodyTypeOK, NEW s \in Streams
    PROVE  /\ ParseForm(s).seen \in {"whole", "rest", "nothing"}
           /\ formSeen # "none" => ParseForm(s).seen = formSeen
           /\ ParseForm(s).stream \in {s, Drained(s)}
           /\ ParseForm(s).err \in BOOLEAN
  <1>1. Gets(s) \in {"whole", "rest", "nothing", "refused"}
    BY GetsFacts
  <1> QED
    BY <1>1 DEF ParseForm, Form, BodyTypeOK

LEMMA MemoFacts2 ==
    ASSUME BodyTypeOK, BodyKept
    PROVE  /\ Memo \in {"whole", "rest", "nothing", "refused"}
           /\ ~passedBy => Memo \in {"whole", "refused"}
           /\ Rearmed \in Streams
           /\ Memo # "refused" => Gets(Rearmed) = Memo
  <1>1. /\ Gets(stream) \in {"whole", "rest", "nothing", "refused"}
        /\ stream.has = "whole" => Gets(stream) \in {"whole", "refused"}
    BY GetsFacts DEF BodyTypeOK
  <1>2. Memo \in {"whole", "rest", "nothing", "refused"} /\ (~passedBy => Memo \in {"whole", "refused"})
    BY <1>1 DEF Memo, Fetched, BodyTypeOK, BodyKept
  <1>3. Rearmed \in Streams /\ (Memo # "refused" => Gets(Rearmed) = Memo)
    BY <1>2, ArmedFacts DEF Rearmed
  <1> QED
    BY <1>2, <1>3

LEMMA ToldFacts ==
    ASSUME NEW who, NEW what, Told(who, what)
    PROVE  /\ what \in {"whole", "refused"} => reply'.what = "whole"
           /\ what \notin {"whole", "refused"} => reply'.who = who /\ reply'.what = what
  BY DEF Told, Satisfied

LEMMA BodyInitIInv == RequestInit => BodyIInv
  <1> SUFFICES ASSUME RequestInit PROVE BodyIInv
    OBVIOUS
  <1>1. stream \in Streams /\ stream.has = "whole" /\ ~stream.dead
    BY ScopeConstantsOK DEF RequestInit, Streams
  <1> QED
    BY <1>1 DEF RequestInit, BodyIInv, BodyTypeOK, BodyKept, FormKept, WholeOrRefused, Satisfied

LEMMA ReadBodyKeeps ==
    ASSUME BodyIInv, ReadBody
    PROVE  BodyIInv'
  <1>1. BodyTypeOK /\ BodyKept /\ FormKept
    BY DEF BodyIInv
  <1>2. /\ bodyMemo' = Memo /\ stream' = Rearmed /\ Told("body", Memo)
        /\ UNCHANGED <<posted, formSeen, formBroken, multi, passedBy>>
    BY DEF ReadBody
  <1>3. /\ Memo \in {"whole", "rest", "nothing", "refused"}
        /\ ~passedBy => Memo \in {"whole", "refused"}
        /\ Rearmed \in Streams
    BY <1>1, MemoFacts2
  <1>4. BodyTypeOK' /\ BodyKept' /\ FormKept'
    BY <1>1, <1>2, <1>3 DEF BodyTypeOK, BodyKept, FormKept
  <1>5. WholeOrRefused'
    BY <1>2, <1>3, ToldFacts DEF WholeOrRefused
  <1> QED
    BY <1>4, <1>5 DEF BodyIInv

LEMMA ReadFormKeeps ==
    ASSUME BodyIInv, ReadForm
    PROVE  BodyIInv'
  <1>1. BodyTypeOK /\ BodyKept /\ FormKept
    BY DEF BodyIInv
  <1>2. UNCHANGED <<posted, multi, passedBy>>
    BY DEF ReadForm
  <1>3. CASE multi \/ formSeen # "none"
    <2>1. /\ Told("form", IF multi THEN "whole" ELSE formSeen)
          /\ UNCHANGED <<stream, bodyMemo, formSeen, formBroken>>
      BY <1>3 DEF ReadForm
    <2>2. BodyTypeOK' /\ BodyKept' /\ FormKept'
      BY <1>1, <1>2, <2>1 DEF BodyTypeOK, BodyKept, FormKept
    <2>3. WholeOrRefused'
      <3> DEFINE what == IF multi THEN "whole" ELSE formSeen
      <3>1. Told("form", what)
        BY <2>1
      <3>2. what \notin {"whole", "refused"} => formBroken'
        BY <1>1, <1>3, <2>1 DEF FormKept
      <3> HIDE DEF what
      <3> QED
        BY <3>1, <3>2, ToldFacts DEF WholeOrRefused
    <2> QED
      BY <2>2, <2>3 DEF BodyIInv
  <1>4. CASE ~(multi \/ formSeen # "none")
    <2> DEFINE f == ParseForm(Rearmed)
               what == IF Memo = "refused" \/ f.err THEN "refused" ELSE f.seen
    <2>1. /\ bodyMemo' = Memo /\ stream' = Rearmed
          /\ formSeen' = IF Memo = "refused" THEN "none" ELSE f.seen
          /\ formBroken' = (Memo # "refused" /\ BreaksForm(Rearmed))
          /\ Told("form", what)
      BY <1>4 DEF ReadForm
    <2>2. /\ Memo \in {"whole", "rest", "nothing", "refused"}
          /\ ~passedBy => Memo \in {"whole", "refused"}
          /\ Rearmed \in Streams
      BY <1>1, MemoFacts2
    <2>3. f.seen \in {"whole", "rest", "nothing"} /\ f.err \in BOOLEAN
      BY <1>1, <2>2, ParseFormFacts
    <2>4. BreaksForm(Rearmed) <=> f.seen # "whole"
      BY <1>4 DEF BreaksForm
    <2> HIDE DEF f
    <2>5. BodyTypeOK' /\ BodyKept' /\ FormKept'
      BY <1>1, <1>2, <2>1, <2>2, <2>3, <2>4 DEF BodyTypeOK, BodyKept, FormKept
    <2>6. what \notin {"whole", "refused"} => formBroken'
      BY <2>1, <2>4
    <2> HIDE DEF what
    <2>7. WholeOrRefused'
      BY <2>1, <2>6, ToldFacts DEF WholeOrRefused
    <2> QED
      BY <2>5, <2>7 DEF BodyIInv
  <1> QED
    BY <1>3, <1>4

LEMMA BypassKeeps ==
    ASSUME BodyIInv, Bypass
    PROVE  BodyIInv'
  <1>1. BodyTypeOK /\ BodyKept /\ FormKept /\ WholeOrRefused /\ stream \in Streams
    BY DEF BodyIInv, BodyTypeOK
  <1>2. /\ passedBy' = (passedBy \/ (bodyMemo = "unread" /\ stream'.has # stream.has))
        /\ UNCHANGED <<posted, bodyMemo, multi, reply>>
    BY DEF Bypass
  <1>3. Drained(stream) \in Streams /\ Drained(stream).has = "nothing"
    BY <1>1, DrainedFacts
  <1>4. /\ ParseForm(stream).seen \in {"whole", "rest", "nothing"}
        /\ formSeen # "none" => ParseForm(stream).seen = formSeen
        /\ ParseForm(stream).stream \in {stream, Drained(stream)}
    BY <1>1, ParseFormFacts
  <1>5. stream' \in {stream, Drained(stream)}
    BY <1>4 DEF Bypass
  <1>6. stream' \in Streams /\ BodyKept'
    BY <1>1, <1>2, <1>3, <1>5 DEF BodyKept, BodyTypeOK
  <1>7. /\ formSeen' \in {"none", "whole", "rest", "nothing"} /\ formBroken' \in BOOLEAN
        /\ FormKept' /\ (formBroken => formBroken')
    <2>1. CASE UNCHANGED <<formSeen, formBroken>>
      BY <1>1, <2>1 DEF BodyTypeOK, FormKept
    <2>2. CASE /\ formSeen' = ParseForm(stream).seen
               /\ formBroken' = (formBroken \/ BreaksForm(stream))
      BY <1>1, <1>4, <2>2 DEF BodyTypeOK, FormKept, BreaksForm
    <2> QED
      BY <2>1, <2>2 DEF Bypass
  <1>8. BodyTypeOK'
    BY <1>1, <1>2, <1>6, <1>7 DEF BodyTypeOK
  <1>9. WholeOrRefused'
    BY <1>1, <1>2, <1>7 DEF WholeOrRefused
  <1> QED
    BY <1>6, <1>7, <1>8, <1>9 DEF BodyIInv

\* A multipart parse that goes past the remembered body shows that it did.
LEMMA MultipartKeeps ==
    ASSUME BodyIInv, parseMultipart,
           passedBy' = (passedBy \/ (bodyMemo = "unread" /\ stream'.has # stream.has)),
           UNCHANGED <<posted, bodyMemo>>, reply'.what = "whole"
    PROVE  BodyIInv'
  <1>1. BodyTypeOK /\ BodyKept /\ FormKept
    BY DEF BodyIInv
  <1>2. CASE multi
    <2>1. UNCHANGED <<stream, formSeen, formBroken, multi>>
      BY <1>2 DEF parseMultipart
    <2> QED
      BY <1>1, <2>1 DEF BodyIInv, BodyTypeOK, BodyKept, FormKept, WholeOrRefused
  <1>3. CASE ~multi
    <2> DEFINE f == ParseForm(Capped)
    <2>1. Capped \in Streams /\ Capped.has = stream.has /\ Capped.dead = stream.dead
      BY <1>1, CappedFacts
    <2>2. /\ f.seen \in {"whole", "rest", "nothing"}
          /\ formSeen # "none" => f.seen = formSeen
          /\ f.stream \in {Capped, Drained(Capped)}
      BY <1>1, <2>1, ParseFormFacts
    <2>3. Drained(Capped) \in Streams /\ Drained(Capped).has = "nothing"
      BY <2>1, DrainedFacts
    <2>4. f.stream \in Streams
      BY <2>1, <2>2, <2>3
    <2>5. Drained(f.stream) \in Streams
      BY <2>4, DrainedFacts
    <2>6. \/ stream' = f.stream
          \/ \E left \in {"rest", "nothing"} : stream' = [Drained(f.stream) EXCEPT !.has = left]
      BY <1>3 DEF parseMultipart
    <2>7. /\ formBroken' = (formBroken \/ BreaksForm(Capped))
          /\ multi' = OpensForm
          /\ formSeen' = IF OpensForm THEN "whole" ELSE f.seen
      BY <1>3 DEF parseMultipart
    <2>8. BreaksForm(Capped) <=> formSeen = "none" /\ f.seen # "whole"
      BY DEF BreaksForm
    <2>9. OpensForm \in BOOLEAN
      BY <1>1 DEF OpensForm, BodyTypeOK
    <2> DEFINE d == Drained(f.stream)
    <2> HIDE DEF f
    <2>10. stream' \in Streams /\ (stream'.has = "whole" => stream'.has = stream.has /\ stream'.dead = stream.dead)
      <3>1. CASE stream' = f.stream
        BY <2>1, <2>2, <2>3, <3>1
      <3>2. CASE \E left \in {"rest", "nothing"} : stream' = [d EXCEPT !.has = left]
        <4>1. d \in Streams
          BY <2>5
        <4> HIDE DEF d
        <4> QED
          BY <3>2, <4>1 DEF Streams
      <3> QED
        BY <2>6, <3>1, <3>2
    <2>11. BodyTypeOK' /\ BodyKept' /\ FormKept'
      <3>1. BodyTypeOK'
        BY <1>1, <2>2, <2>7, <2>9, <2>10 DEF BodyTypeOK
      <3>2. BodyKept'
        BY <1>1, <2>10 DEF BodyKept, BodyTypeOK
      <3>3. FormKept'
        BY <1>1, <2>2, <2>7, <2>8 DEF FormKept, BodyTypeOK
      <3> QED
        BY <3>1, <3>2, <3>3
    <2>12. WholeOrRefused'
      BY DEF WholeOrRefused
    <2> QED
      BY <2>11, <2>12 DEF BodyIInv
  <1> QED
    BY <1>2, <1>3

LEMMA TakeKeeps ==
    ASSUME BodyIInv, NEW who, NEW uploads, Take(who, uploads)
    PROVE  BodyIInv'
  <1>1. Told(who, "whole") \/ Told(who, "refused")
    BY DEF Take, RefuseUpload
  <1>2. reply'.what = "whole"
    BY <1>1, ToldFacts
  <1>3. /\ parseMultipart /\ UNCHANGED <<posted, bodyMemo>>
        /\ passedBy' = (passedBy \/ (bodyMemo = "unread" /\ stream'.has # stream.has))
    BY DEF Take
  <1> QED
    BY <1>2, <1>3, MultipartKeeps

LEMMA ParseDtoKeeps ==
    ASSUME BodyIInv, ParseDto
    PROVE  BodyIInv'
  <1>1. Told("dto", "whole") \/ Told("dto", "refused")
    BY DEF ParseDto, RefuseUpload
  <1>2. reply'.what = "whole"
    BY <1>1, ToldFacts
  <1>3. /\ parseMultipart /\ UNCHANGED <<posted, bodyMemo>>
        /\ passedBy' = (passedBy \/ (bodyMemo = "unread" /\ stream'.has # stream.has))
    BY DEF ParseDto
  <1> QED
    BY <1>2, <1>3, MultipartKeeps

LEMMA BodyUntouched ==
    ASSUME BodyIInv, UNCHANGED bodyVars
    PROVE  BodyIInv'
  BY DEF bodyVars, BodyIInv, BodyTypeOK, BodyKept, FormKept, WholeOrRefused

LEMMA BodyStepIInv == BodyIInv /\ [RequestNext]_requestVars => BodyIInv'
  <1> SUFFICES ASSUME BodyIInv, [RequestNext]_requestVars PROVE BodyIInv'
    OBVIOUS
  <1>1. CASE UNCHANGED requestVars
    BY <1>1, BodyUntouched DEF requestVars
  <1>2. CASE ReadBody
    BY <1>2, ReadBodyKeeps
  <1>3. CASE ReadForm
    BY <1>3, ReadFormKeeps
  <1>4. CASE Bypass
    BY <1>4, BypassKeeps
  <1>5. CASE FormFile \/ GetFiles
    BY <1>5, TakeKeeps DEF FormFile, GetFiles
  <1>6. CASE ParseDto
    BY <1>6, ParseDtoKeeps
  <1>7. CASE \E i \in DOMAIN copies : CloseFile(i) \/ DeleteFile(i) \/ \E p \in Places : Write(i, p)
    <2>1. UNCHANGED bodyVars
      BY <1>7 DEF CloseFile, DeleteFile, Write
    <2> QED
      BY <2>1, BodyUntouched
  <1>8. CASE CloseMessage
    BY <1>8, BodyUntouched DEF CloseMessage
  <1> QED
    BY <1>1, <1>2, <1>3, <1>4, <1>5, <1>6, <1>7, <1>8 DEF RequestNext

\* Whoever asks for the body, the form or the files gets all of it or is refused (message.go).
THEOREM AllOrNothing == RequestSpec => []WholeOrRefused
  <1>1. BodyIInv => WholeOrRefused
    BY DEF BodyIInv
  <1> QED
    BY <1>1, BodyInitIInv, BodyStepIInv, PTL DEF RequestSpec

-----------------------------------------------------------------------------
(* Its uploads.                                                            *)

CopyType == [temp : BOOLEAN, handle : BOOLEAN, place : Places \cup {Nowhere}, public : BOOLEAN,
             dropped : BOOLEAN, stuck : BOOLEAN, said : BOOLEAN]

\* One copy, while the request runs and after it.
CopySound(c) ==
    /\ ~c.handle /\ c.temp => c.stuck
    /\ c.said => c.public

\* The request releases every copy it made; a copy closed early left nothing but what the disk
\* refused to take.
CopiesOwned ==
    /\ DOMAIN copies \subseteq closers \cup storedCopies
    /\ \A i \in DOMAIN copies : copies[i].handle \/ copies[i].dropped

UploadIInv ==
    /\ posted \in Posted /\ copies \in Seq(CopyType)
    /\ \A i \in DOMAIN copies : CopySound(copies[i])
    /\ ~over => CopiesOwned
    /\ over => \A i \in DOMAIN copies : ~copies[i].handle

LEMMA UploadsFollow == UploadIInv => UploadsReleased
  BY DEF UploadIInv, CopiesOwned, CopySound, UploadsReleased

LEMMA UploadInitIInv == RequestInit => UploadIInv
  BY DEF RequestInit, UploadIInv, CopiesOwned

\* A closed copy: what the disk says decides what is left.
LEMMA ClosedCopyFacts ==
    ASSUME NEW c \in CopyType, CopySound(c), NEW works \in BOOLEAN
    PROVE  /\ ClosedCopy(c, works) \in CopyType /\ CopySound(ClosedCopy(c, works))
           /\ ~ClosedCopy(c, works).handle
  <1>1. CASE ~c.handle
    BY <1>1 DEF ClosedCopy
  <1>2. CASE c.handle
    <2> DEFINE f == [c EXCEPT !.handle = FALSE]
               g == [f EXCEPT !.temp = ~works]
    <2>1. /\ f \in CopyType /\ ~f.handle /\ f.said = c.said /\ f.public = c.public
      BY DEF CopyType
    <2>2. ClosedCopy(c, works) = [g EXCEPT !.stuck = ~works]
      BY <1>2 DEF ClosedCopy
    <2> HIDE DEF f
    <2>3. /\ g \in CopyType /\ ~g.handle /\ g.temp = ~works /\ g.said = c.said /\ g.public = c.public
      BY <2>1 DEF CopyType
    <2> HIDE DEF g
    <2>4. /\ [g EXCEPT !.stuck = ~works] \in CopyType /\ ~[g EXCEPT !.stuck = ~works].handle
          /\ [g EXCEPT !.stuck = ~works].temp = ~works /\ [g EXCEPT !.stuck = ~works].stuck = ~works
          /\ [g EXCEPT !.stuck = ~works].said = c.said /\ [g EXCEPT !.stuck = ~works].public = c.public
      BY <2>3 DEF CopyType
    <2> QED
      BY <2>2, <2>4 DEF CopySound
  <1> QED
    BY <1>1, <1>2

\* A step that touches no copy and adds none.
LEMMA CopiesUntouched ==
    ASSUME UploadIInv, UNCHANGED <<posted, copies, over>>, closers \cup storedCopies \subseteq closers' \cup storedCopies'
    PROVE  UploadIInv'
  BY DEF UploadIInv, CopiesOwned, CopySound

\* A step that replaces one copy by a sound one.
LEMMA OneCopy ==
    ASSUME UploadIInv, ~over, NEW i \in DOMAIN copies, NEW c \in CopyType, CopySound(c), c.handle \/ c.dropped,
           copies' = [copies EXCEPT ![i] = c], UNCHANGED <<posted, over, closers, storedCopies>>
    PROVE  UploadIInv'
  <1>1. copies \in Seq(CopyType) /\ posted \in Posted /\ CopiesOwned /\ \A j \in DOMAIN copies : CopySound(copies[j])
    BY DEF UploadIInv
  <1>2. copies' \in Seq(CopyType) /\ Len(copies') = Len(copies)
    BY <1>1, ExceptSeq
  <1>3. DOMAIN copies' = DOMAIN copies /\ \A j \in DOMAIN copies : copies'[j] = IF j = i THEN c ELSE copies[j]
    BY <1>1
  <1>4. \A j \in DOMAIN copies' : CopySound(copies'[j])
    BY <1>1, <1>3
  <1>5. CopiesOwned'
    BY <1>1, <1>3 DEF CopiesOwned
  <1> QED
    BY <1>1, <1>2, <1>4, <1>5 DEF UploadIInv

\* A step that adds copies, which the request then owns.
LEMMA CopiesMade ==
    ASSUME UploadIInv, ~over, NEW n \in Nat, Stores(n), UNCHANGED <<posted, over>>,
           closers' \cup storedCopies' = closers \cup storedCopies \cup Added(n)
    PROVE  UploadIInv'
  <1>1. copies \in Seq(CopyType) /\ posted \in Posted /\ CopiesOwned /\ \A j \in DOMAIN copies : CopySound(copies[j])
    BY DEF UploadIInv
  <1> DEFINE more == [j \in 1..n |-> Copy]
             k == Len(copies)
  <1>2. Copy \in CopyType /\ CopySound(Copy) /\ Copy.handle
    BY DEF Copy, CopyType, CopySound
  <1>3. more \in Seq(CopyType) /\ Len(more) = n /\ \A j \in 1..n : more[j] = Copy
    BY <1>2
  <1>4. copies' = copies \o more
    BY DEF Stores
  <1> HIDE DEF more
  <1>5. /\ copies' \in Seq(CopyType) /\ Len(copies') = k + n /\ k \in Nat
        /\ \A j \in 1..(k + n) : copies'[j] = IF j <= k THEN copies[j] ELSE more[j - k]
    <2>1. /\ copies \o more \in Seq(CopyType) /\ Len(copies \o more) = Len(copies) + Len(more)
          /\ \A j \in 1..(Len(copies) + Len(more)) :
                (copies \o more)[j] = IF j <= Len(copies) THEN copies[j] ELSE more[j - Len(copies)]
      BY <1>1, <1>3, ConcatProperties
    <2>2. k \in Nat
      BY <1>1, LenProperties
    <2> QED
      BY <1>3, <1>4, <2>1, <2>2
  <1>6. /\ DOMAIN copies = 1..k /\ DOMAIN copies' = 1..(k + n) /\ Added(n) = (k + 1)..(k + n)
    BY <1>1, <1>5 DEF Added
  <1> HIDE DEF k
  <1>7. \A j \in 1..(k + n) : (j <= k /\ j \in 1..k) \/ (~(j <= k) /\ j \in (k + 1)..(k + n) /\ j - k \in 1..n)
    BY <1>5
  <1>8. \A j \in 1..(k + n) :
           \/ j \in 1..k /\ copies'[j] = copies[j]
           \/ j \in Added(n) /\ copies'[j] = Copy
    <2> TAKE j \in 1..(k + n)
    <2>1. CASE j <= k /\ j \in 1..k
      <3>1. copies'[j] = IF j <= k THEN copies[j] ELSE more[j - k]
        BY <1>5
      <3> QED
        BY <2>1, <3>1
    <2>2. CASE ~(j <= k) /\ j \in (k + 1)..(k + n) /\ j - k \in 1..n
      <3>1. copies'[j] = more[j - k]
        BY <1>5, <2>2
      <3> QED
        BY <1>3, <1>6, <2>2, <3>1
    <2> QED
      BY <1>7, <2>1, <2>2
  <1>9. \A j \in DOMAIN copies' : CopySound(copies'[j])
    BY <1>1, <1>2, <1>6, <1>8
  <1>10. CopiesOwned'
    BY <1>1, <1>2, <1>6, <1>8 DEF CopiesOwned
  <1> QED
    BY <1>1, <1>5, <1>9, <1>10 DEF UploadIInv

LEMMA TakeUploads ==
    ASSUME UploadIInv, NEW who, NEW uploads \in Nat, Take(who, uploads)
    PROVE  UploadIInv'
  <1>1. ~over /\ UNCHANGED <<posted, over>>
    BY DEF Take, Opening
  <1>2. CASE UNCHANGED <<copies, storedCopies, closers>>
    BY <1>1, <1>2, CopiesUntouched
  <1>3. CASE Stores(uploads) /\ storedCopies' = storedCopies \cup Added(uploads) /\ UNCHANGED closers
    BY <1>1, <1>3, CopiesMade
  <1> QED
    BY <1>2, <1>3 DEF Take, RefuseUpload

LEMMA ParseDtoUploads ==
    ASSUME UploadIInv, ParseDto
    PROVE  UploadIInv'
  <1> DEFINE n == Cardinality(BoundParts)
  <1>1. ~over /\ UNCHANGED <<posted, over>>
    BY DEF ParseDto, Opening
  <1>2. n \in Nat
    <2>1. posted \in Posted
      BY DEF UploadIInv
    <2>2. DOMAIN posted.parts = 1..Len(posted.parts) /\ Len(posted.parts) \in Nat
      BY <2>1, ScopeConstantsOK
    <2>3. IsFiniteSet(DOMAIN posted.parts)
      <3>1. \A m \in Nat : IsFiniteSet(1 .. m)
        BY FS_Interval
      <3>2. IsFiniteSet(1 .. Len(posted.parts))
        BY ZenonT(30), <2>2, <3>1
      <3> QED
        BY ZenonT(30), <2>2, <3>2
    <2>4. BoundParts \in SUBSET DOMAIN posted.parts
      BY DEF BoundParts
    <2> QED
      BY <2>3, <2>4, FS_Subset, FS_CardinalityType
  <1>3. \/ UNCHANGED <<copies, storedCopies, closers>>
        \/ Stores(n) /\ closers' = closers \cup Added(n) /\ UNCHANGED storedCopies
    <2>1. \/ RefuseUpload("dto")
          \/ /\ IF posted.registers
                THEN Stores(n) /\ closers' = closers \cup Added(n)
                ELSE UNCHANGED <<copies, closers>>
             /\ UNCHANGED <<storedCopies, diskFaults>>
      BY DEF ParseDto
    <2> HIDE DEF n
    <2> QED
      BY <2>1 DEF RefuseUpload
  <1> HIDE DEF n
  <1>4. CASE UNCHANGED <<copies, storedCopies, closers>>
    BY <1>1, <1>4, CopiesUntouched
  <1>5. CASE Stores(n) /\ closers' = closers \cup Added(n) /\ UNCHANGED storedCopies
    BY <1>1, <1>2, <1>5, CopiesMade
  <1> QED
    BY <1>3, <1>4, <1>5

\* A copy that is where it was published, or moved there, or whose move failed.
Placed(c, p, there, told) == [c EXCEPT !.place = p, !.public = there, !.said = told]

LEMMA PlacedFacts ==
    ASSUME NEW c \in CopyType, CopySound(c), NEW p \in Places, NEW there \in BOOLEAN, NEW told \in BOOLEAN,
           told => there
    PROVE  /\ Placed(c, p, there, told) \in CopyType /\ CopySound(Placed(c, p, there, told))
           /\ Placed(c, p, there, told).handle = c.handle /\ Placed(c, p, there, told).dropped = c.dropped
  <1> DEFINE f == [c EXCEPT !.place = p]
             g == [f EXCEPT !.public = there]
             h == [g EXCEPT !.said = told]
  <1>1. /\ f \in CopyType /\ f.handle = c.handle /\ f.dropped = c.dropped /\ f.temp = c.temp /\ f.stuck = c.stuck
    BY DEF CopyType
  <1>2. Placed(c, p, there, told) = h
    BY DEF Placed
  <1> HIDE DEF f
  <1>3. /\ g \in CopyType /\ g.handle = c.handle /\ g.dropped = c.dropped /\ g.temp = c.temp
        /\ g.stuck = c.stuck /\ g.public = there
    BY <1>1 DEF CopyType
  <1> HIDE DEF g
  <1>4. /\ h \in CopyType /\ h.handle = c.handle /\ h.dropped = c.dropped /\ h.temp = c.temp
        /\ h.stuck = c.stuck /\ h.public = there /\ h.said = told
    BY <1>3 DEF CopyType
  <1> HIDE DEF h
  <1> QED
    BY <1>2, <1>4 DEF CopySound

LEMMA CopyFacts ==
    ASSUME UploadIInv, NEW i \in DOMAIN copies
    PROVE  /\ copies[i] \in CopyType /\ CopySound(copies[i])
           /\ ~over => copies[i].handle \/ copies[i].dropped
  BY DEF UploadIInv, CopiesOwned

LEMMA WriteUploads ==
    ASSUME UploadIInv, NEW i \in DOMAIN copies, NEW p \in Places, Write(i, p)
    PROVE  UploadIInv'
  <1>1. /\ ~over /\ UNCHANGED <<posted, over, closers, storedCopies>>
        /\ copies[i] \in CopyType /\ CopySound(copies[i]) /\ copies[i].handle
    BY CopyFacts DEF Write, bodyVars
  <1>2. CASE copies' = [copies EXCEPT ![i] = Placed(copies[i], p, TRUE, TRUE)]
    BY <1>1, <1>2, PlacedFacts, OneCopy
  <1>3. ASSUME NEW left \in BOOLEAN, copies' = [copies EXCEPT ![i] = Placed(copies[i], p, left, FALSE)]
        PROVE  UploadIInv'
    BY <1>1, <1>3, PlacedFacts, OneCopy
  <1>4. \/ copies' = [copies EXCEPT ![i] = Placed(copies[i], p, TRUE, TRUE)]
        \/ \E left \in BOOLEAN : copies' = [copies EXCEPT ![i] = Placed(copies[i], p, left, FALSE)]
    BY <1>1 DEF Write, Placed
  <1> QED
    BY <1>2, <1>3, <1>4

\* A copy whose published file was deleted.
Unpublished(c) == [c EXCEPT !.public = FALSE, !.said = FALSE]

LEMMA DeleteFileUploads ==
    ASSUME UploadIInv, NEW i \in DOMAIN copies, DeleteFile(i)
    PROVE  UploadIInv'
  <1> DEFINE c == copies[i]
             f == [c EXCEPT !.public = FALSE]
  <1>1. /\ ~over /\ UNCHANGED <<posted, over, closers, storedCopies>>
        /\ copies' = [copies EXCEPT ![i] = Unpublished(c)]
        /\ c \in CopyType /\ CopySound(c) /\ (c.handle \/ c.dropped)
    BY CopyFacts DEF DeleteFile, bodyVars, Unpublished
  <1> HIDE DEF c
  <1>2. /\ f \in CopyType /\ f.handle = c.handle /\ f.dropped = c.dropped /\ f.temp = c.temp /\ f.stuck = c.stuck
    BY <1>1 DEF CopyType
  <1>3. Unpublished(c) = [f EXCEPT !.said = FALSE]
    BY DEF Unpublished
  <1> HIDE DEF f
  <1>4. /\ Unpublished(c) \in CopyType /\ CopySound(Unpublished(c))
        /\ Unpublished(c).handle \/ Unpublished(c).dropped
    BY <1>1, <1>2, <1>3 DEF CopyType, CopySound
  <1> QED
    BY <1>1, <1>4, OneCopy

LEMMA CloseFileUploads ==
    ASSUME UploadIInv, NEW i \in DOMAIN copies, CloseFile(i)
    PROVE  UploadIInv'
  <1> DEFINE c(works) == ClosedCopy(copies[i], works)
             d(works) == [ClosedCopy(copies[i], works) EXCEPT !.dropped = TRUE]
  <1>1. /\ ~over /\ UNCHANGED <<posted, over, closers, storedCopies>>
        /\ copies[i] \in CopyType /\ CopySound(copies[i])
    BY CopyFacts DEF CloseFile, bodyVars
  <1>2. PICK works \in BOOLEAN : copies' = [copies EXCEPT ![i] = d(works)]
    BY DEF CloseFile
  <1>3. c(works) \in CopyType /\ CopySound(c(works))
    BY <1>1, ClosedCopyFacts
  <1> DEFINE b == c(works)
             e == d(works)
  <1>4. e = [b EXCEPT !.dropped = TRUE] /\ b \in CopyType /\ CopySound(b)
    BY <1>3
  <1>5. copies' = [copies EXCEPT ![i] = e]
    BY <1>2
  <1> HIDE DEF b, e
  <1>6. e \in CopyType /\ CopySound(e) /\ e.dropped
    BY <1>4 DEF CopyType, CopySound
  <1> QED
    BY <1>1, <1>5, <1>6, OneCopy

LEMMA CloseMessageUploads ==
    ASSUME UploadIInv, CloseMessage
    PROVE  UploadIInv'
  <1> DEFINE due == closers \cup storedCopies
             after(works) == [j \in DOMAIN copies |->
                                 IF j \in due THEN ClosedCopy(copies[j], j \in works) ELSE copies[j]]
  <1>1. /\ ~over /\ over' /\ posted' = posted /\ posted \in Posted
        /\ copies \in Seq(CopyType) /\ \A j \in DOMAIN copies : CopySound(copies[j]) /\ j \in due
    BY DEF CloseMessage, bodyVars, UploadIInv, CopiesOwned
  <1>2. PICK works : copies' = after(works)
    BY DEF CloseMessage
  <1>3. \A j \in DOMAIN copies : \E w \in BOOLEAN : copies'[j] = ClosedCopy(copies[j], w)
    <2> TAKE j \in DOMAIN copies
    <2> WITNESS (j \in works) \in BOOLEAN
    <2> QED
      BY <1>1, <1>2
  <1>4. DOMAIN copies' = DOMAIN copies /\ DOMAIN copies = 1..Len(copies) /\ Len(copies) \in Nat
    BY <1>1, <1>2
  <1>5. \A j \in DOMAIN copies : copies[j] \in CopyType
    BY <1>1
  <1>6. \A j \in DOMAIN copies' : /\ copies'[j] \in CopyType /\ CopySound(copies'[j])
                                /\ ~copies'[j].handle
    BY <1>1, <1>3, <1>4, <1>5, ClosedCopyFacts
  <1>7. copies' = [j \in 1..Len(copies) |-> copies'[j]]
    BY <1>2, <1>4
  <1>8. copies' \in Seq(CopyType)
    BY <1>4, <1>6, <1>7, IsASeq
  <1> QED
    BY <1>1, <1>6, <1>8 DEF UploadIInv

LEMMA UploadStepIInv == UploadIInv /\ [RequestNext]_requestVars => UploadIInv'
  <1> SUFFICES ASSUME UploadIInv, [RequestNext]_requestVars PROVE UploadIInv'
    OBVIOUS
  <1>1. CASE UNCHANGED <<posted, uploadVars>>
    BY <1>1, CopiesUntouched DEF uploadVars
  <1>2. UNCHANGED requestVars => UNCHANGED <<posted, uploadVars>>
    BY DEF requestVars, bodyVars
  <1>3. ReadBody \/ ReadForm \/ Bypass => UNCHANGED <<posted, uploadVars>>
    BY DEF ReadBody, ReadForm, Bypass
  <1>4. CASE FormFile
    BY <1>4, TakeUploads DEF FormFile
  <1>5. CASE GetFiles
    <2>1. Len(posted.parts) \in Nat
      BY ScopeConstantsOK DEF UploadIInv
    <2> QED
      BY <1>5, <2>1, TakeUploads DEF GetFiles
  <1>6. CASE ParseDto
    BY <1>6, ParseDtoUploads
  <1>7. CASE \E i \in DOMAIN copies : CloseFile(i) \/ DeleteFile(i) \/ \E p \in Places : Write(i, p)
    BY <1>7, CloseFileUploads, DeleteFileUploads, WriteUploads
  <1>8. CASE CloseMessage
    BY <1>8, CloseMessageUploads
  <1> QED
    BY <1>1, <1>2, <1>3, <1>4, <1>5, <1>6, <1>7, <1>8 DEF RequestNext

\* When the request is over, no copy of an upload is left open, and none on disk that could be
\* removed (message.go, multipart_parser.go, file.go).
THEOREM CopiesReleased == RequestSpec => []UploadsReleased
  <1> QED
    BY UploadsFollow, UploadInitIInv, UploadStepIInv, PTL DEF RequestSpec

-----------------------------------------------------------------------------
(* What it saves.                                                          *)

\* Related, Reached, MayNotCascade and SaveRefused of what they are about: the slices sl, on a
\* schema that is ours or not.
RelatedIn(sl, e) == Has[e] \cup (IF sl[e] # NoEntity THEN sl[e] ELSE {}) \cup ({Up[e]} \ {NoEntity})
ClosedIn(sl, S) == \A y \in S : RelatedIn(sl, y) \subseteq S
ReachedIn(sl, e) == {x \in Entities : \A S \in SUBSET Entities : e \in S /\ ClosedIn(sl, S) => x \in S}
MayNotIn(ex, sl, e) ==
    LET kept == IF sl[e] # NoEntity THEN sl[e] ELSE {}
    IN  \/ ex /\ (Has[e] # {} \/ Up[e] # NoEntity \/ sl[e] # NoEntity) /\ e \notin OptedIn
        \/ kept # {} /\ Cardinality(kept) + 1 > Limit
RefusedIn(ex, sl, e) == \E x \in ReachedIn(sl, e) : MayNotIn(ex, sl, x)

SaveFrame == [e : Entities, at : {"write", "exists", "walk", "has", "up", "tags"},
              left : SUBSET {"has", "up", "tags"}, todo : SUBSET Entities,
              item : Entities \cup {NoEntity}]

\* A frame of a cascade that began with b is about what is reached from b.
CascadeFrame(f, b, sl) ==
    /\ f \in SaveFrame /\ f.left \subseteq Kinds(f.e)
    /\ {f.e} \cup f.todo \cup ({f.item} \ {NoEntity}) \subseteq ReachedIn(sl, b)

CascadeOf(sk, b, sl) ==
    /\ sk \in Seq(SaveFrame) /\ sk # <<>> /\ sk[Len(sk)].e = b
    /\ \A i \in 1..Len(sk) : CascadeFrame(sk[i], b, sl)

\* While nothing was sent, at most the check is to come; past it, nothing reached is refused.
CheckedFirst(b) ==
    \/ ~RefusedIn(external, slice, b)
    \/ Len(stack) = 1 /\ Head(stack).at = "write" /\ ~sent

SaveIInv ==
    /\ slice \in [Entities -> (SUBSET Entities) \cup {NoEntity}]
    /\ stack = <<>> \/ \E b \in Entities : CascadeOf(stack, b, slice) /\ CheckedFirst(b)
    /\ verdict.how = "refused" => stack = <<>> /\ ~sent

LEMMA ReachedSame == \A e \in Entities : SaveRefused(e) <=> RefusedIn(external, slice, e)
  <1>1. \A x : Related(x) = RelatedIn(slice, x)
    BY DEF Related, RelatedIn, Kept, Tagged
  <1>2. \A e : Reached(e) = ReachedIn(slice, e)
    BY <1>1 DEF Reached, ReachedIn, ClosedIn
  <1>3. \A x : MayNotCascade(x) <=> MayNotIn(external, slice, x)
    BY DEF MayNotCascade, MayNotIn, Writes, Kept, Tagged
  <1> QED
    <2>1. \A e \in Entities : Reached(e) \subseteq Entities
      BY DEF Reached
    <2> QED
      BY <1>2, <1>3, <2>1 DEF SaveRefused, RefusedIn

\* What is reached from what is reached is reached.
LEMMA ReachedOnwards ==
    ASSUME NEW sl, NEW b \in Entities, NEW x \in ReachedIn(sl, b)
    PROVE  ReachedIn(sl, x) \subseteq ReachedIn(sl, b)
  BY DEF ReachedIn

LEMMA RefusedOnwards ==
    ASSUME NEW ex, NEW sl, NEW b \in Entities, NEW x \in ReachedIn(sl, b), RefusedIn(ex, sl, x)
    PROVE  RefusedIn(ex, sl, b)
  BY ReachedOnwards DEF RefusedIn

LEMMA ReachedItself ==
    ASSUME NEW sl, NEW b \in Entities
    PROVE  b \in ReachedIn(sl, b)
  BY DEF ReachedIn

LEMMA RelatedReached ==
    ASSUME NEW sl \in [Entities -> (SUBSET Entities) \cup {NoEntity}], NEW b \in Entities,
           NEW x \in ReachedIn(sl, b)
    PROVE  RelatedIn(sl, x) \subseteq ReachedIn(sl, b)
  <1>1. x \in Entities
    BY DEF ReachedIn
  <1>2. RelatedIn(sl, x) \subseteq Entities
    BY <1>1, SaveConstantsOK DEF RelatedIn
  <1>3. ASSUME NEW y \in RelatedIn(sl, x), NEW S \in SUBSET Entities, b \in S, ClosedIn(sl, S)
        PROVE  y \in S
    <2>1. x \in S
      BY <1>3 DEF ReachedIn
    <2> QED
      BY <1>3, <2>1 DEF ClosedIn
  <1> QED
    BY <1>2, <1>3 DEF ReachedIn

LEMMA CascadeTail ==
    ASSUME NEW sk, NEW b, NEW sl, CascadeOf(sk, b, sl), Len(sk) # 1
    PROVE  CascadeOf(Tail(sk), b, sl)
  <1>1. sk \in Seq(SaveFrame) /\ sk # <<>> /\ Len(sk) \in Nat /\ Len(sk) > 1
    <2>1. sk \in Seq(SaveFrame) /\ sk # <<>>
      BY DEF CascadeOf
    <2>2. Len(sk) \in Nat \ {0}
      BY <2>1, EmptySeq
    <2>3. \A n \in Nat \ {0} : n # 1 => n > 1
      OBVIOUS
    <2>4. Len(sk) > 1
      BY <2>2, <2>3
    <2> QED
      BY <2>1, <2>2, <2>4
  <1>2. /\ Tail(sk) \in Seq(SaveFrame) /\ Len(Tail(sk)) = Len(sk) - 1 /\ Tail(sk) # <<>>
        /\ \A i \in 1..(Len(sk) - 1) : Tail(sk)[i] = sk[i + 1]
    BY <1>1
  <1> QED
    BY <1>1, <1>2 DEF CascadeOf

LEMMA CascadePut ==
    ASSUME NEW sk, NEW b, NEW sl, CascadeOf(sk, b, sl), NEW f, CascadeFrame(f, b, sl), f.e = Head(sk).e
    PROVE  CascadeOf(<<f>> \o Tail(sk), b, sl) /\ Len(<<f>> \o Tail(sk)) = Len(sk)
  <1> DEFINE t == <<f>> \o Tail(sk)
  <1>1. sk \in Seq(SaveFrame) /\ sk # <<>> /\ Len(sk) \in Nat /\ Len(sk) > 0 /\ f \in SaveFrame
    BY DEF CascadeOf, CascadeFrame
  <1>2. /\ t \in Seq(SaveFrame) /\ Len(t) = Len(sk) /\ t # <<>> /\ t[1] = f
        /\ \A i \in 2..Len(sk) : t[i] = sk[i]
    BY <1>1
  <1>3. t[Len(t)].e = b
    BY <1>1, <1>2 DEF CascadeOf
  <1>4. \A i \in 1..Len(t) : CascadeFrame(t[i], b, sl)
    BY <1>1, <1>2 DEF CascadeOf
  <1> QED
    BY <1>2, <1>3, <1>4 DEF CascadeOf

LEMMA CascadePush ==
    ASSUME NEW sk, NEW b, NEW sl, CascadeOf(sk, b, sl), NEW f, CascadeFrame(f, b, sl), f.e = Head(sk).e,
           NEW g, CascadeFrame(g, b, sl)
    PROVE  CascadeOf(<<g, f>> \o Tail(sk), b, sl)
  <1> DEFINE t == <<g, f>> \o Tail(sk)
  <1>1. /\ sk \in Seq(SaveFrame) /\ sk # <<>> /\ Len(sk) \in Nat /\ Len(sk) > 0
        /\ f \in SaveFrame /\ g \in SaveFrame
    BY DEF CascadeOf, CascadeFrame
  <1>2. /\ t \in Seq(SaveFrame) /\ Len(t) = Len(sk) + 1 /\ t # <<>> /\ t[1] = g /\ t[2] = f
        /\ \A i \in 2..Len(sk) : t[i + 1] = sk[i]
    BY <1>1
  <1>3. t[Len(t)].e = b
    BY <1>1, <1>2 DEF CascadeOf
  <1>4. ASSUME NEW i \in 1..Len(t) PROVE CascadeFrame(t[i], b, sl)
    <2>1. CASE i > 2
      <3>1. t[i] = sk[i - 1] /\ i - 1 \in 1..Len(sk)
        <4>1. i - 1 \in 2..Len(sk)
          BY <1>1, <1>2, <2>1
        <4> QED
          BY <1>1, <1>2, <4>1
      <3> QED
        BY <3>1 DEF CascadeOf
    <2> QED
      BY <1>2, <2>1
  <1> QED
    BY <1>2, <1>3, <1>4 DEF CascadeOf

\* What the invariant says of the Save on top.
LEMMA TopFacts ==
    ASSUME NEW b \in Entities, CascadeOf(stack, b, slice)
    PROVE  /\ stack # <<>> /\ Top = stack[1] /\ Len(stack) \in Nat \ {0}
           /\ CascadeFrame(Top, b, slice) /\ Top \in SaveFrame /\ Top.e \in ReachedIn(slice, b)
           /\ Top.e \in Entities /\ (Len(stack) = 1 => Top.e = b)
  <1>1. stack \in Seq(SaveFrame) /\ stack # <<>>
    BY DEF CascadeOf
  <1>2. Top = stack[1] /\ Len(stack) \in Nat \ {0} /\ 1 \in 1..Len(stack)
    BY <1>1 DEF Top
  <1>3. CascadeFrame(Top, b, slice)
    BY <1>2 DEF CascadeOf
  <1> QED
    BY <1>1, <1>2, <1>3 DEF CascadeOf, CascadeFrame, SaveFrame

\* Past its check, a Save has nothing ahead that is refused.
LEMMA PastCheck ==
    ASSUME NEW b \in Entities, CascadeOf(stack, b, slice), CheckedFirst(b),
           Top.at # "write" \/ ~SaveRefused(Top.e)
    PROVE  ~RefusedIn(external, slice, b)
  <1>1. CASE Len(stack) = 1
    BY <1>1, TopFacts, ReachedSame DEF CheckedFirst, Top
  <1>2. CASE Len(stack) # 1
    BY <1>2 DEF CheckedFirst
  <1> QED
    BY <1>1, <1>2

LEMMA StillUnrefused ==
    ASSUME NEW b \in Entities, CascadeOf(stack', b, slice), ~RefusedIn(external, slice, b),
           UNCHANGED <<external, slice>>, slice \in [Entities -> (SUBSET Entities) \cup {NoEntity}],
           verdict'.how # "refused"
    PROVE  SaveIInv'
  <1>1. CascadeOf(stack', b, slice') /\ ~RefusedIn(external', slice', b)
    OBVIOUS
  <1>2. CheckedFirst(b)'
    BY <1>1 DEF CheckedFirst
  <1> QED
    BY <1>1, <1>2 DEF SaveIInv

LEMMA EndsIInv ==
    ASSUME SaveIInv, stack' = <<>>, slice' = slice, verdict'.how # "refused"
    PROVE  SaveIInv'
  BY DEF SaveIInv

\* A Save under way.
LEMMA Underway ==
    ASSUME SaveIInv, stack # <<>>
    PROVE  /\ verdict.how # "refused" /\ slice \in [Entities -> (SUBSET Entities) \cup {NoEntity}]
           /\ \E b \in Entities : CascadeOf(stack, b, slice) /\ CheckedFirst(b)
  BY DEF SaveIInv

\* The Save on top goes on.
LEMMA PutIInv ==
    ASSUME SaveIInv, stack # <<>>, Top.at # "write" \/ ~SaveRefused(Top.e),
           UNCHANGED <<external, slice, verdict>>, NEW f \in SaveFrame, f.e = Top.e,
           f.left \subseteq Top.left, Put(f),
           \A b \in Entities : CascadeOf(stack, b, slice) =>
               f.todo \cup ({f.item} \ {NoEntity}) \subseteq ReachedIn(slice, b)
    PROVE  SaveIInv'
  <1>1. PICK b \in Entities : CascadeOf(stack, b, slice) /\ CheckedFirst(b)
    BY Underway
  <1>2. CascadeFrame(f, b, slice)
    BY <1>1, TopFacts DEF CascadeFrame
  <1>3. CascadeOf(stack', b, slice)
    BY <1>1, <1>2, CascadePut DEF Put, Top
  <1>4. ~RefusedIn(external, slice, b)
    BY <1>1, PastCheck
  <1> QED
    BY <1>3, <1>4, Underway, StillUnrefused

\* The Save on top begins one of what it is related to.
LEMMA PushIInv ==
    ASSUME SaveIInv, stack # <<>>, Top.at # "write",
           UNCHANGED <<external, slice, verdict>>, NEW f \in SaveFrame, f.e = Top.e,
           f.left \subseteq Top.left, NEW c \in Top.todo, NEW tag \in BOOLEAN, Push(f, c, tag),
           f.todo \subseteq Top.todo, f.item \in {NoEntity, Top.item, c}
    PROVE  SaveIInv'
  <1>1. PICK b \in Entities : CascadeOf(stack, b, slice) /\ CheckedFirst(b)
    BY Underway
  <1>2. CascadeFrame(f, b, slice)
    BY <1>1, TopFacts DEF CascadeFrame
  <1>3. c \in Entities /\ c \in ReachedIn(slice, b)
    BY <1>1, TopFacts DEF CascadeFrame, ReachedIn
  <1>4. CascadeFrame(Frame(c, tag), b, slice)
    <2>1. Frame(c, tag) \in SaveFrame
      BY <1>3 DEF Frame, SaveFrame, Kinds
    <2> QED
      BY <1>3, <2>1 DEF Frame, CascadeFrame
  <1>5. CascadeOf(stack', b, slice)
    BY <1>1, <1>2, <1>4, CascadePush DEF Push, Top
  <1>6. ~RefusedIn(external, slice, b)
    BY <1>1, PastCheck
  <1> QED
    BY <1>5, <1>6, Underway, StillUnrefused

\* The Save on top is done.
LEMMA ReturnsIInv ==
    ASSUME SaveIInv, stack # <<>>, UNCHANGED <<external, slice>>, SaveReturns
    PROVE  SaveIInv'
  <1>1. PICK b \in Entities : CascadeOf(stack, b, slice) /\ CheckedFirst(b)
    BY Underway
  <1>2. CASE Len(stack) = 1
    <2>1. stack' = <<>> /\ verdict'.how = "ok"
      BY <1>2 DEF SaveReturns, Ends
    <2> QED
      BY <2>1, EndsIInv
  <1>3. CASE Len(stack) # 1
    <2>1. CascadeOf(Tail(stack), b, slice)
      BY <1>1, <1>3, CascadeTail
    <2>2. ~RefusedIn(external, slice, b)
      BY <1>1, <1>3 DEF CheckedFirst
    <2> QED
      BY <1>3, <2>1, <2>2, Underway, StillUnrefused DEF SaveReturns
  <1> QED
    BY <1>2, <1>3

LEMMA SaveInitIInv == SaveInit => SaveIInv
  BY DEF SaveInit, SaveIInv

\* Between two Saves.
LEMMA IdleIInv ==
    ASSUME SaveIInv, stack = <<>>, stack' = <<>>,
           slice' \in [Entities -> (SUBSET Entities) \cup {NoEntity}],
           verdict'.how = "none" \/ UNCHANGED <<verdict, sent>>
    PROVE  SaveIInv'
  BY DEF SaveIInv

LEMMA ApplicationIInv ==
    ASSUME SaveIInv,
           \/ Edit \/ Begin \/ Commit \/ Rollback
           \/ \E e \in Roots : Delete(e) \/ LoadEntity(e)
    PROVE  SaveIInv'
  <1> USE SaveConstantsOK
  <1>0. slice \in [Entities -> (SUBSET Entities) \cup {NoEntity}]
    BY DEF SaveIInv
  <1>1. CASE Edit
    <2>1. PICK e \in Roots : \E s \in SUBSET Tags[e] : slice' = [slice EXCEPT ![e] = s]
      BY <1>1 DEF Edit
    <2>2. PICK s \in SUBSET Tags[e] : slice' = [slice EXCEPT ![e] = s]
      BY <2>1
    <2>3. e \in Entities /\ s \in SUBSET Entities
      BY <2>1, <2>2
    <2>4. slice' \in [Entities -> (SUBSET Entities) \cup {NoEntity}]
      BY <1>0, <2>2, <2>3
    <2> QED
      BY <1>1, <2>4, IdleIInv DEF Edit
  <1>2. CASE Begin \/ Commit
    BY <1>0, <1>2, IdleIInv DEF Begin, Commit, ghosts
  <1>3. CASE Rollback
    BY <1>0, <1>3, IdleIInv DEF Rollback
  <1>4. ASSUME NEW e \in Roots, Delete(e) PROVE SaveIInv'
    BY <1>0, <1>4, IdleIInv DEF Delete
  <1>5. ASSUME NEW e \in Roots, LoadEntity(e) PROVE SaveIInv'
    <2>1. Joined(e) \in SUBSET Entities /\ e \in Entities
      BY DEF Joined
    <2>2. slice' \in [Entities -> (SUBSET Entities) \cup {NoEntity}]
      BY <1>0, <1>5, <2>1 DEF LoadEntity
    <2> QED
      BY <1>5, <2>2, IdleIInv DEF LoadEntity
  <1> QED
    BY <1>1, <1>2, <1>3, <1>4, <1>5

LEMMA SaveStarts ==
    ASSUME SaveIInv, NEW e \in Roots, Save(e)
    PROVE  SaveIInv'
  <1> DEFINE f == Frame(e, FALSE)
  <1>1. e \in Entities /\ slice' \in [Entities -> (SUBSET Entities) \cup {NoEntity}]
    BY SaveConstantsOK DEF Save, SaveIInv
  <1>2. CascadeFrame(f, e, slice')
    <2>1. f \in SaveFrame
      BY <1>1 DEF Frame, SaveFrame, Kinds
    <2> QED
      BY <1>1, <2>1, ReachedItself DEF Frame, CascadeFrame
  <1>3. f \in SaveFrame /\ f.e = e /\ f.at = "write"
    BY <1>2 DEF CascadeFrame, Frame
  <1> HIDE DEF f
  <1>4. stack' = <<f>> /\ sent' = FALSE /\ verdict'.how = "none"
    BY DEF Save, f
  <1>5. CascadeOf(stack', e, slice')
    BY <1>2, <1>3, <1>4 DEF CascadeOf
  <1>6. CheckedFirst(e)'
    BY <1>3, <1>4 DEF CheckedFirst
  <1> QED
    BY <1>1, <1>4, <1>5, <1>6 DEF SaveIInv

\* The check is over all that is reached, so what refuses a Save refuses the one it began with.
LEMMA RefuseIInv ==
    ASSUME SaveIInv, Refuse
    PROVE  SaveIInv'
  <1>1. PICK b \in Entities : CascadeOf(stack, b, slice) /\ CheckedFirst(b)
    BY Underway DEF Refuse
  <1>2. RefusedIn(external, slice, Top.e)
    BY <1>1, TopFacts, ReachedSame DEF Refuse
  <1>3. RefusedIn(external, slice, b)
    BY <1>1, <1>2, TopFacts, RefusedOnwards
  <1>4. ~sent
    BY <1>1, <1>3 DEF CheckedFirst
  <1>5. stack' = <<>> /\ ~sent' /\ slice' = slice
    BY <1>4 DEF Refuse, Ends, ghosts
  <1> QED
    BY <1>5 DEF SaveIInv

LEMMA OwnRowIInv ==
    ASSUME SaveIInv, OwnRow
    PROVE  SaveIInv'
  <1>1. CASE NothingToSet
    BY <1>1, ReturnsIInv DEF NothingToSet
  <1>2. CASE Keyless \/ InsertFails \/ InsertUnheard \/ UpdateFails
    <2>1. stack' = <<>> /\ slice' = slice /\ verdict'.how = "failed"
      BY <1>2 DEF Keyless, InsertFails, InsertUnheard, UpdateFails, Ends
    <2> QED
      BY <2>1, EndsIInv
  <1>3. CASE Insert \/ Update
    <2> DEFINE f == [Top EXCEPT !.at = "walk"]
    <2>1. /\ stack # <<>> /\ ~SaveRefused(Top.e) /\ Put(f) /\ UNCHANGED <<external, slice, verdict>>
      BY <1>3 DEF Insert, Update
    <2>2. Top \in SaveFrame
      BY <2>1, Underway, TopFacts
    <2>3. f \in SaveFrame /\ f.e = Top.e /\ f.left = Top.left /\ f.todo = Top.todo /\ f.item = Top.item
      BY <2>2 DEF SaveFrame
    <2> HIDE DEF f
    <2>4. \A b \in Entities : CascadeOf(stack, b, slice) =>
              f.todo \cup ({f.item} \ {NoEntity}) \subseteq ReachedIn(slice, b)
      BY <2>3, TopFacts DEF CascadeFrame
    <2> QED
      BY <2>1, <2>3, <2>4, PutIInv
  <1> QED
    BY <1>1, <1>2, <1>3, RefuseIInv DEF OwnRow

LEMMA TopIs ==
    ASSUME SaveIInv, stack # <<>>
    PROVE  Top \in SaveFrame /\ Top.e \in Entities /\ Top.left \subseteq Kinds(Top.e)
  BY Underway, TopFacts DEF CascadeFrame

\* What is related to what is saved, and what is still to do, is reached.
LEMMA TopReaches ==
    ASSUME SaveIInv, stack # <<>>
    PROVE  \A b \in Entities : CascadeOf(stack, b, slice) =>
               /\ RelatedIn(slice, Top.e) \subseteq ReachedIn(slice, b)
               /\ Top.todo \cup ({Top.item} \ {NoEntity}) \subseteq ReachedIn(slice, b)
  BY Underway, TopFacts, RelatedReached DEF CascadeFrame

\* A frame with another place, or with other entities to save.
LEMMA FrameAt ==
    ASSUME NEW k \in SaveFrame, NEW at \in {"write", "walk", "has", "up", "tags"}
    PROVE  LET f == [k EXCEPT !.at = at]
           IN  /\ f \in SaveFrame /\ f.e = k.e /\ f.at = at /\ f.left = k.left
               /\ f.todo = k.todo /\ f.item = k.item
  BY DEF SaveFrame
LEMMA FrameLeft ==
    ASSUME NEW k \in SaveFrame, NEW left \in SUBSET {"has", "up", "tags"}
    PROVE  LET f == [k EXCEPT !.left = left]
           IN  /\ f \in SaveFrame /\ f.e = k.e /\ f.at = k.at /\ f.left = left
               /\ f.todo = k.todo /\ f.item = k.item
  BY DEF SaveFrame
LEMMA FrameTodo ==
    ASSUME NEW k \in SaveFrame, NEW todo \in SUBSET Entities
    PROVE  LET f == [k EXCEPT !.todo = todo]
           IN  /\ f \in SaveFrame /\ f.e = k.e /\ f.at = k.at /\ f.left = k.left
               /\ f.todo = todo /\ f.item = k.item
  BY DEF SaveFrame
LEMMA FrameItem ==
    ASSUME NEW k \in SaveFrame, NEW item \in Entities \cup {NoEntity}
    PROVE  LET f == [k EXCEPT !.item = item]
           IN  /\ f \in SaveFrame /\ f.e = k.e /\ f.at = k.at /\ f.left = k.left
               /\ f.todo = k.todo /\ f.item = item
  BY DEF SaveFrame

LEMMA WalkIInv ==
    ASSUME SaveIInv, NEW kind \in {"has", "up", "tags"}, Walk(kind)
    PROVE  SaveIInv'
  <1> DEFINE g == [Top EXCEPT !.left = @ \ {kind}]
             f == [Top EXCEPT !.left = @ \ {kind}, !.at = kind]
  <1>1. /\ stack # <<>> /\ Top.at = "walk" /\ kind \in Top.left
        /\ UNCHANGED <<external, slice, verdict>>
    BY DEF Walk
  <1>2. Top \in SaveFrame /\ Top.e \in Entities /\ Top.left \subseteq Kinds(Top.e)
    BY <1>1, TopIs
  <1>3. g \in SaveFrame /\ g.e = Top.e /\ g.left \subseteq Top.left /\ g.todo = Top.todo /\ g.item = Top.item
    <2>1. Top.left \ {kind} \in SUBSET {"has", "up", "tags"}
      BY <1>2 DEF SaveFrame
    <2> QED
      BY <1>2, <2>1, FrameLeft
  <1>4. f = [g EXCEPT !.at = kind]
    OBVIOUS
  <1>5. /\ f \in SaveFrame /\ f.e = Top.e /\ f.at = kind /\ f.left \subseteq Top.left
        /\ f.todo = Top.todo /\ f.item = Top.item
    <2>1. ASSUME NEW k \in SaveFrame
          PROVE  /\ [k EXCEPT !.at = kind] \in SaveFrame /\ [k EXCEPT !.at = kind].e = k.e
                 /\ [k EXCEPT !.at = kind].at = kind /\ [k EXCEPT !.at = kind].left = k.left
                 /\ [k EXCEPT !.at = kind].todo = k.todo /\ [k EXCEPT !.at = kind].item = k.item
      BY DEF SaveFrame
    <2> HIDE DEF g, f
    <2> QED
      BY <1>3, <1>4, <2>1
  <1>6. \/ kind = "has" /\ Put([f EXCEPT !.todo = Has[Top.e]])
        \/ kind = "up" /\ Put([f EXCEPT !.todo = {Up[Top.e]}])
        \/ kind = "tags" /\ Tagged(Top.e) /\ Put([f EXCEPT !.todo = Kept(Top.e)])
        \/ Put([f EXCEPT !.at = "walk"])
    BY DEF Walk
  <1> HIDE DEF f, g
  <1>7. ASSUME NEW todo \in SUBSET RelatedIn(slice, Top.e), Put([f EXCEPT !.todo = todo])
        PROVE  SaveIInv'
    <2>1. todo \in SUBSET Entities
      BY <1>1, <1>2, <1>7, Underway, SaveConstantsOK DEF RelatedIn
    <2> DEFINE h == [f EXCEPT !.todo = todo]
    <2>2. h \in SaveFrame /\ h.e = f.e /\ h.left = f.left /\ h.todo = todo /\ h.item = f.item
      BY <1>5, <2>1, FrameTodo
    <2>3. Put(h)
      BY <1>7
    <2> HIDE DEF h
    <2>4. \A b \in Entities : CascadeOf(stack, b, slice) =>
              h.todo \cup ({h.item} \ {NoEntity}) \subseteq ReachedIn(slice, b)
      BY <1>1, <1>5, <1>7, <2>2, TopReaches
    <2> QED
      BY <1>1, <1>5, <2>2, <2>3, <2>4, PutIInv
  <1>8. CASE kind = "has" /\ Put([f EXCEPT !.todo = Has[Top.e]])
    BY <1>7, <1>8 DEF RelatedIn
  <1>9. CASE kind = "up" /\ Put([f EXCEPT !.todo = {Up[Top.e]}])
    <2>1. Up[Top.e] # NoEntity
      BY <1>1, <1>2, <1>9 DEF Kinds
    <2> QED
      BY <1>7, <1>9, <2>1 DEF RelatedIn
  <1>10. CASE kind = "tags" /\ Tagged(Top.e) /\ Put([f EXCEPT !.todo = Kept(Top.e)])
    <2>1. Kept(Top.e) \subseteq RelatedIn(slice, Top.e)
      BY <1>10 DEF RelatedIn, Kept, Tagged
    <2> QED
      BY <1>7, <1>10, <2>1
  <1>11. CASE Put([f EXCEPT !.at = "walk"])
    <2> DEFINE h == [f EXCEPT !.at = "walk"]
    <2>1. h \in SaveFrame /\ h.e = f.e /\ h.left = f.left /\ h.todo = f.todo /\ h.item = f.item
      BY <1>5, FrameAt
    <2>2. Put(h)
      BY <1>11
    <2> HIDE DEF h
    <2>3. \A b \in Entities : CascadeOf(stack, b, slice) =>
              h.todo \cup ({h.item} \ {NoEntity}) \subseteq ReachedIn(slice, b)
      BY <1>1, <1>5, <2>1, TopReaches
    <2> QED
      BY <1>1, <1>5, <2>1, <2>2, <2>3, PutIInv
  <1> QED
    BY <1>6, <1>8, <1>9, <1>10, <1>11

\* The Save on top changes its place or what it is about to link, and is back among its relations.
LEMMA StepsOn ==
    ASSUME SaveIInv, stack # <<>>, Top.at # "write", UNCHANGED <<external, slice, verdict>>,
           NEW at \in {"write", "walk", "tags"}, NEW item \in {NoEntity, Top.item},
           NEW f, f = [Top EXCEPT !.at = at, !.item = item], Put(f)
    PROVE  SaveIInv'
  <1> DEFINE g == [Top EXCEPT !.at = at]
  <1>1. Top \in SaveFrame
    BY TopIs
  <1>2. /\ g \in SaveFrame /\ g.e = Top.e /\ g.left = Top.left /\ g.todo = Top.todo
        /\ f = [g EXCEPT !.item = item]
    <2>1. ASSUME NEW k \in SaveFrame
          PROVE  /\ [k EXCEPT !.at = at] \in SaveFrame /\ [k EXCEPT !.at = at].e = k.e
                 /\ [k EXCEPT !.at = at].left = k.left /\ [k EXCEPT !.at = at].todo = k.todo
      BY DEF SaveFrame
    <2> QED
      BY <1>1, <2>1
  <1> HIDE DEF g
  <1>3. item \in Entities \cup {NoEntity}
    BY <1>1 DEF SaveFrame
  <1>4. f \in SaveFrame /\ f.e = Top.e /\ f.left = Top.left /\ f.todo = Top.todo /\ f.item = item
    <2>1. ASSUME NEW k \in SaveFrame
          PROVE  /\ [k EXCEPT !.item = item] \in SaveFrame /\ [k EXCEPT !.item = item].e = k.e
                 /\ [k EXCEPT !.item = item].left = k.left
                 /\ [k EXCEPT !.item = item].todo = k.todo /\ [k EXCEPT !.item = item].item = item
      BY <1>3 DEF SaveFrame
    <2> QED
      BY <1>2, <2>1
  <1>5. \A b \in Entities : CascadeOf(stack, b, slice) =>
            f.todo \cup ({f.item} \ {NoEntity}) \subseteq ReachedIn(slice, b)
    BY <1>4, TopReaches
  <1> QED
    BY <1>4, <1>5, PutIInv

LEMMA SettledIInv ==
    ASSUME SaveIInv, Walked \/ HasDone \/ TakeUp \/ Exists \/ Link \/ Purge
    PROVE  SaveIInv'
  <1> DEFINE T(at, item) == [Top EXCEPT !.at = at, !.item = item]
  <1>0. /\ stack # <<>> /\ UNCHANGED <<external, slice>> /\ Top.at # "write"
    BY DEF Walked, HasDone, TakeUp, Exists, Link, Purge
  <1>a. Top \in SaveFrame
    BY <1>0, TopIs
  <1>b. ASSUME NEW k \in SaveFrame, NEW at
        PROVE  [k EXCEPT !.at = at] = [k EXCEPT !.at = at, !.item = k.item]
    BY DEF SaveFrame
  <1>c. ASSUME NEW k \in SaveFrame, NEW item
        PROVE  [k EXCEPT !.item = item] = [k EXCEPT !.at = k.at, !.item = item]
    BY DEF SaveFrame
  <1>1. CASE Walked
    BY <1>0, <1>1, ReturnsIInv DEF Walked
  <1>2. CASE HasDone
    <2>1. Put(T("walk", Top.item)) /\ UNCHANGED verdict
      BY <1>2, <1>a, <1>b DEF HasDone
    <2> QED
      BY <1>0, <2>1, StepsOn
  <1>3. CASE TakeUp
    BY <1>0, <1>3, StepsOn DEF TakeUp
  <1>4. CASE Exists
    <2>1. CASE SaveReturns
      BY <1>0, <2>1, ReturnsIInv
    <2>2. CASE Put([Top EXCEPT !.at = "write"]) /\ UNCHANGED verdict
      <3>1. Put(T("write", Top.item))
        BY <2>2, <1>a, <1>b
      <3> QED
        BY <1>0, <2>2, <3>1, StepsOn
    <2>3. CASE Ends("failed")
      BY <1>0, <2>3, EndsIInv DEF Ends
    <2> QED
      BY <1>4, <2>1, <2>2, <2>3 DEF Exists
  <1>5. CASE Link
    <2>1. CASE Put([Top EXCEPT !.item = NoEntity]) /\ UNCHANGED verdict
      <3>1. Put(T("tags", NoEntity))
        BY <1>5, <2>1, <1>a, <1>c DEF Link
      <3> QED
        BY <1>0, <2>1, <3>1, StepsOn
    <2>2. CASE Ends("failed")
      BY <1>0, <2>2, EndsIInv DEF Ends
    <2> QED
      BY <1>5, <2>1, <2>2 DEF Link
  <1>6. CASE Purge
    <2>1. CASE Put([Top EXCEPT !.at = "walk"]) /\ UNCHANGED verdict
      <3>1. Put(T("walk", Top.item))
        BY <2>1, <1>a, <1>b
      <3> QED
        BY <1>0, <2>1, <3>1, StepsOn
    <2>2. CASE Ends("failed")
      BY <1>0, <2>2, EndsIInv DEF Ends
    <2> QED
      BY <1>6, <2>1, <2>2 DEF Purge
  <1> QED
    BY <1>1, <1>2, <1>3, <1>4, <1>5, <1>6

LEMMA DescendsIInv ==
    ASSUME SaveIInv, SaveChild \/ SaveUp \/ SaveTag
    PROVE  SaveIInv'
  <1>0. stack # <<>> /\ UNCHANGED <<external, slice, verdict>> /\ Top.at # "write"
    BY DEF SaveChild, SaveUp, SaveTag
  <1>1. Top \in SaveFrame /\ Top.todo \in SUBSET Entities
    BY <1>0, TopIs DEF SaveFrame
  <1>2. ASSUME NEW c \in Top.todo, NEW tag \in BOOLEAN,
               NEW todo \in SUBSET Top.todo, NEW item \in {NoEntity, Top.item, c},
               NEW f, f = [Top EXCEPT !.todo = todo, !.item = item], Push(f, c, tag)
        PROVE  SaveIInv'
    <2> DEFINE g == [Top EXCEPT !.todo = todo]
    <2>1. /\ g \in SaveFrame /\ g.e = Top.e /\ g.left = Top.left /\ g.todo = todo
          /\ f = [g EXCEPT !.item = item]
      BY <1>1, <1>2, FrameTodo
    <2> HIDE DEF g
    <2>2. item \in Entities \cup {NoEntity}
      BY <1>1 DEF SaveFrame
    <2>3. f \in SaveFrame /\ f.e = Top.e /\ f.left = Top.left /\ f.todo = todo /\ f.item = item
      BY <2>1, <2>2, FrameItem
    <2> QED
      BY <1>0, <1>2, <2>3, PushIInv
  <1>3. ASSUME NEW k \in SaveFrame, NEW todo
        PROVE  [k EXCEPT !.todo = todo] = [k EXCEPT !.todo = todo, !.item = k.item]
    BY DEF SaveFrame
  <1>4. CASE SaveChild
    <2>1. PICK c \in Top.todo : Push([Top EXCEPT !.todo = @ \ {c}], c, FALSE)
      BY <1>4 DEF SaveChild
    <2>2. Push([Top EXCEPT !.todo = Top.todo \ {c}, !.item = Top.item], c, FALSE)
      BY <1>1, <1>3, <2>1
    <2> QED
      BY <1>2, <2>2
  <1>5. CASE SaveUp
    <2>1. PICK c \in Top.todo : Push([Top EXCEPT !.todo = {}, !.item = c], c, FALSE)
      BY <1>5 DEF SaveUp
    <2> QED
      BY <1>2, <2>1
  <1>6. CASE SaveTag
    <2>1. PICK c \in Top.todo : Push([Top EXCEPT !.todo = @ \ {c}, !.item = c], c, TRUE)
      BY <1>6 DEF SaveTag
    <2> QED
      BY <1>2, <2>1
  <1> QED
    BY <1>4, <1>5, <1>6

LEMMA SaveStepIInv == SaveIInv /\ [SaveNext]_saveVars => SaveIInv'
  <1> SUFFICES ASSUME SaveIInv, [SaveNext]_saveVars PROVE SaveIInv'
    OBVIOUS
  <1>1. CASE UNCHANGED saveVars
    <2>1. UNCHANGED <<external, slice, stack, verdict, sent>>
      BY <1>1 DEF saveVars, ghosts
    <2>2. \A b \in Entities : CheckedFirst(b)' <=> CheckedFirst(b)
      BY <2>1 DEF CheckedFirst
    <2> QED
      BY <2>1, <2>2 DEF SaveIInv
  <1>2. CASE OwnRow
    BY <1>2, OwnRowIInv
  <1>3. CASE Relations
    BY <1>3, WalkIInv, SettledIInv, DescendsIInv DEF Relations
  <1>4. ASSUME NEW e \in Roots, Save(e) PROVE SaveIInv'
    BY <1>4, SaveStarts
  <1> QED
    BY <1>1, <1>2, <1>3, <1>4, ApplicationIInv DEF SaveNext

\* A Save that may not cascade over what it reaches, at whatever depth, is refused before it
\* sends a statement (relation.go: checkCascade, saver.go).
THEOREM RefusedBeforeAnyWrite == SaveSpec => []RefusedWritesNothing
  <1>1. SaveIInv => RefusedWritesNothing
    BY DEF SaveIInv, RefusedWritesNothing
  <1> QED
    BY <1>1, SaveInitIInv, SaveStepIInv, PTL DEF SaveSpec

-----------------------------------------------------------------------------
(* A Save that succeeds is whole, and one that failed may be repeated.     *)

\* What an entity has is nobody else's: the child's row has one column for the key, and of two
\* that have it the one saved last would take it (relation.go:54-109).
OneOwner == \A d, e \in Entities : d # e => Has[d] \cap Has[e] = {}

\* What the promises are about, in one value.
StoredRows == [fk : Entities \cup {NoEntity}, up : Entities \cup {NoEntity}, n : Nat]
Memories == [key : BOOLEAN, fk : Entities \cup {NoEntity}, up : Entities \cup {NoEntity}, loaded : BOOLEAN]
SaveStates == [mem : [Entities -> Memories], row : [Entities -> StoredRows],
           join : SUBSET (Entities \X Entities),
           slice : [Entities -> (SUBSET Entities) \cup {NoEntity}], unsure : SUBSET Entities,
           keyed : SUBSET Entities]
SaveState == [mem |-> mem, row |-> row, join |-> join, slice |-> slice, unsure |-> unsure,
              keyed |-> before.keyed]

\* The row of e has the belongs-to key that memory had when the Save began.
UpWhole(st, e) ==
    e \in st.unsure \/ e \in Bare \/ e \in Anew \/ (e \in st.keyed => st.row[e].up = Up[e])

\* The child c carries e's key, in memory and in its row; the slice of e is what is linked.
ChildWhole(st, c, e) ==
    /\ st.mem[c].fk = e
    /\ c \in st.unsure \/ c \in Bare \/ c \in Anew \/ (st.row[c].n = 1 /\ st.row[c].fk = e)
    /\ UpWhole(st, c)
TagsWhole(st, e) == {pair \in st.join : pair[1] = e} = {e} \X st.slice[e]

\* What a Save has done of the relations it has left behind, and of the one it is at.
FrameWhole(st, f) ==
    /\ f.at \in {"write", "exists"} => f.left = Kinds(f.e)
    /\ f.at \in {"write", "exists", "walk", "has"} => f.item = NoEntity
    /\ f.at \notin f.left
    /\ f.at = "up" => Up[f.e] # NoEntity /\ (f.todo = {Up[f.e]} \/ (f.todo = {} /\ f.item = Up[f.e]))
    /\ Up[f.e] # NoEntity /\ "up" \notin f.left /\ f.at # "up" =>
          f.e \in ByValue \/ st.mem[f.e].up = Up[f.e]
    /\ f.at \notin {"write", "exists"} => UpWhole(st, f.e)
    /\ f.at = "has" => f.todo \subseteq Has[f.e]
    /\ f.at = "tags" =>
          /\ st.slice[f.e] # NoEntity /\ f.todo \subseteq st.slice[f.e]
          /\ f.item \in st.slice[f.e] \cup {NoEntity}
          /\ \A t \in st.slice[f.e] \ (f.todo \cup {f.item}) : <<f.e, t>> \in st.join
    /\ st.slice[f.e] # NoEntity /\ "tags" \notin f.left /\ f.at # "tags" => TagsWhole(st, f.e)

\* Its children, but for those in but, which are being saved.
HasWhole(st, f, but) ==
    \A c \in Has[f.e] \ but :
        "has" \notin f.left /\ (f.at = "has" => c \notin f.todo) => ChildWhole(st, c, f.e)
Saving(g, f) == IF f.at = "has" /\ g.at = "write" THEN {g.e} ELSE {}

\* The Save g was begun by f.
BegunBy(st, g, f) ==
    /\ f.at \in {"has", "up", "tags"} /\ (g.at = "exists" => f.at = "tags")
    /\ f.at = "has" => g.e \in Has[f.e] /\ st.mem[g.e].fk = f.e

StackWhole(st, s) ==
    /\ s \in Seq(SaveFrame)
    /\ \A i \in 1..Len(s) : FrameWhole(st, s[i])
    /\ \A i \in 1..Len(s) : HasWhole(st, s[i], IF i = 1 THEN {} ELSE Saving(s[i - 1], s[i]))
    /\ \A i \in 2..Len(s) : BegunBy(st, s[i - 1], s[i])
    /\ s # <<>> => s[Len(s)].at # "exists" /\ s[Len(s)].e \notin ByValue

\* What a step of a cascade may not undo.
Keeps(a, b) ==
    /\ \A e \in Entities : \A c \in Has[e] :
          /\ ChildWhole(a, c, e) => ChildWhole(b, c, e)
          /\ a.mem[c].fk = e => b.mem[c].fk = e
    /\ \A e \in Entities :
          /\ Up[e] # NoEntity /\ a.mem[e].up = Up[e] => b.mem[e].up = Up[e]
          /\ UpWhole(a, e) => UpWhole(b, e)
          /\ a.slice[e] # NoEntity =>
                /\ TagsWhole(a, e) => TagsWhole(b, e)
                /\ \A t \in a.slice[e] : <<e, t>> \in a.join => <<e, t>> \in b.join
    /\ b.slice = a.slice

LEMMA FrameKept ==
    ASSUME NEW a, NEW b, Keeps(a, b), NEW f \in SaveFrame
    PROVE  /\ FrameWhole(a, f) => FrameWhole(b, f)
           /\ \A but : HasWhole(a, f, but) => HasWhole(b, f, but)
           /\ \A g : BegunBy(a, g, f) => BegunBy(b, g, f)
  <1>1. f.e \in Entities
    BY DEF SaveFrame
  <1>2. FrameWhole(a, f) => FrameWhole(b, f)
    BY <1>1 DEF FrameWhole, Keeps
  <1>3. \A but : HasWhole(a, f, but) => HasWhole(b, f, but)
    BY <1>1 DEF HasWhole, Keeps
  <1>4. \A g : BegunBy(a, g, f) => BegunBy(b, g, f)
    BY <1>1 DEF BegunBy, Keeps
  <1> QED
    BY <1>2, <1>3, <1>4

LEMMA StackKept ==
    ASSUME NEW a, NEW b, Keeps(a, b), NEW s, StackWhole(a, s)
    PROVE  StackWhole(b, s)
  <1>1. s \in Seq(SaveFrame) /\ \A i \in 1..Len(s) : s[i] \in SaveFrame
    BY ElementOfSeq DEF StackWhole
  <1>6. \A i \in 1..Len(s) : FrameWhole(b, s[i])
    BY <1>1, FrameKept DEF StackWhole
  <1>7. \A i \in 1..Len(s) : HasWhole(b, s[i], IF i = 1 THEN {} ELSE Saving(s[i - 1], s[i]))
    BY <1>1, FrameKept DEF StackWhole
  <1>8. \A i \in 2..Len(s) : BegunBy(b, s[i - 1], s[i])
    <2>1. \A i \in 2..Len(s) : i \in 1..Len(s)
      BY <1>1
    <2> QED
      BY <1>1, <2>1, FrameKept DEF StackWhole
  <1> QED
    BY <1>1, <1>6, <1>7, <1>8 DEF StackWhole

\* The Save on top goes on.
LEMMA StackPut ==
    ASSUME NEW st, NEW s, StackWhole(st, s), s # <<>>, NEW f \in SaveFrame, f.e = s[1].e,
           FrameWhole(st, f), HasWhole(st, f, {}), f.at # "exists",
           f.at = "write" => s[1].at # "write",
           s[1].at = "write" => \A e \in Entities :
              s[1].e \in Has[e] /\ st.mem[s[1].e].fk = e => ChildWhole(st, s[1].e, e)
    PROVE  StackWhole(st, <<f>> \o Tail(s))
  <1> DEFINE r == <<f>> \o Tail(s)
  <1>1. s \in Seq(SaveFrame) /\ Len(s) \in Nat /\ Len(s) > 0
    BY DEF StackWhole
  <1>2. /\ r \in Seq(SaveFrame) /\ Len(r) = Len(s) /\ r # <<>> /\ r[1] = f
        /\ \A i \in 2..Len(s) : r[i] = s[i]
    BY <1>1
  <1> HIDE DEF r
  <1>3. \A i \in 1..Len(s) : i = 1 \/ i \in 2..Len(s)
    BY <1>1
  <1>4. \A i \in 1..Len(r) : FrameWhole(st, r[i])
    BY <1>2, <1>3 DEF StackWhole
  <1>5. \A i \in 2..Len(s) : /\ i = 2 => s[i - 1] = s[1] /\ r[i - 1] = f
                             /\ i # 2 => r[i - 1] = s[i - 1]
                             /\ i # 1 /\ i \in 1..Len(s)
    <2> SUFFICES ASSUME NEW i \in 2..Len(s)
                 PROVE  /\ i = 2 => s[i - 1] = s[1] /\ r[i - 1] = f
                        /\ i # 2 => r[i - 1] = s[i - 1]
                        /\ i # 1 /\ i \in 1..Len(s)
      OBVIOUS
    <2>1. CASE i = 2
      BY <1>1, <1>2, <2>1
    <2>2. CASE i # 2
      <3>1. i - 1 \in 2..Len(s)
        BY <1>1, <2>2
      <3> QED
        BY <1>1, <1>2, <2>2, <3>1
    <2> QED
      BY <2>1, <2>2
  <1>6. ASSUME NEW i \in 2..Len(s)
        PROVE  BegunBy(st, r[i - 1], r[i]) /\ HasWhole(st, r[i], Saving(r[i - 1], r[i]))
    <2>1. BegunBy(st, s[i - 1], s[i]) /\ HasWhole(st, s[i], Saving(s[i - 1], s[i]))
      BY <1>5 DEF StackWhole
    <2>2. s[i].e \in Entities
      <3>1. i \in 1..Len(s)
        BY <1>5
      <3>2. s[i] \in SaveFrame
        BY <1>1, <3>1, ElementOfSeq
      <3> QED
        BY <3>2 DEF SaveFrame
    <2>3. CASE i = 2
      <3>1. BegunBy(st, f, s[i]) /\ s[i - 1] = s[1] /\ r[i] = s[i] /\ r[i - 1] = f
        BY <1>2, <1>5, <2>1, <2>3 DEF BegunBy
      <3>2. CASE s[i].at = "has" /\ s[1].at = "write"
        <4>1. ChildWhole(st, s[1].e, s[i].e)
          BY <2>1, <2>2, <3>1, <3>2 DEF BegunBy
        <4>2. HasWhole(st, s[i], {s[1].e})
          BY <2>1, <3>1, <3>2 DEF Saving
        <4>3. HasWhole(st, s[i], {})
          BY <4>1, <4>2 DEF HasWhole
        <4>4. Saving(f, s[i]) = {}
          BY <3>2 DEF Saving
        <4> QED
          BY <3>1, <4>3, <4>4
      <3>3. CASE s[i].at = "has" /\ s[1].at # "write"
        <4>1. HasWhole(st, s[i], {})
          BY <2>1, <3>1, <3>3 DEF Saving
        <4> QED
          BY <3>1, <4>1 DEF HasWhole
      <3>4. CASE s[i].at # "has"
        BY <2>1, <3>1, <3>4 DEF Saving
      <3> QED
        BY <3>2, <3>3, <3>4
    <2>4. CASE i # 2
      BY <1>2, <1>5, <2>1, <2>4
    <2> QED
      BY <2>3, <2>4
  <1>7. \A i \in 1..Len(r) : HasWhole(st, r[i], IF i = 1 THEN {} ELSE Saving(r[i - 1], r[i]))
    BY <1>2, <1>3, <1>6
  <1>8. r[Len(r)].at # "exists" /\ r[Len(r)].e \notin ByValue
    <2>1. Len(s) \in 2..Len(s) \/ Len(s) = 1
      <3>1. \A n \in Nat : n > 0 => n \in 2..n \/ n = 1
        OBVIOUS
      <3> QED
        BY <1>1, <3>1
    <2> QED
      BY <1>2, <2>1 DEF StackWhole
  <1> QED
    BY <1>2, <1>4, <1>6, <1>7, <1>8 DEF StackWhole, r

\* It begins another.
LEMMA StackPush ==
    ASSUME NEW st, NEW s, StackWhole(st, s), s # <<>>,
           NEW f \in SaveFrame, f.e = s[1].e, f.at = s[1].at, FrameWhole(st, f),
           NEW g \in SaveFrame, FrameWhole(st, g), HasWhole(st, g, {}), BegunBy(st, g, f),
           HasWhole(st, f, Saving(g, f))
    PROVE  StackWhole(st, <<g, f>> \o Tail(s))
  <1> DEFINE r == <<g, f>> \o Tail(s)
  <1>1. s \in Seq(SaveFrame) /\ Len(s) \in Nat /\ Len(s) > 0
    BY DEF StackWhole
  <1>2. /\ r \in Seq(SaveFrame) /\ Len(r) = Len(s) + 1 /\ r # <<>> /\ r[1] = g /\ r[2] = f
        /\ \A i \in 2..Len(s) : r[i + 1] = s[i]
    BY <1>1
  <1> HIDE DEF r
  <1>3. \A i \in 3..Len(r) : /\ r[i] = s[i - 1] /\ i - 1 \in 2..Len(s) /\ i - 1 \in 1..Len(s)
                             /\ i = 3 => r[i - 1] = f /\ s[(i - 1) - 1] = s[1]
                             /\ i # 3 => r[i - 1] = s[(i - 1) - 1]
    <2> SUFFICES ASSUME NEW i \in 3..Len(r)
                 PROVE  /\ r[i] = s[i - 1] /\ i - 1 \in 2..Len(s) /\ i - 1 \in 1..Len(s)
                        /\ i = 3 => r[i - 1] = f /\ s[(i - 1) - 1] = s[1]
                        /\ i # 3 => r[i - 1] = s[(i - 1) - 1]
      OBVIOUS
    <2>1. i - 1 \in 2..Len(s) /\ i - 1 \in 1..Len(s) /\ (i - 1) + 1 = i
      BY <1>1, <1>2
    <2>2. r[i] = s[i - 1]
      BY <1>2, <2>1
    <2>3. CASE i = 3
      BY <1>2, <2>1, <2>2, <2>3
    <2>4. CASE i # 3
      <3>1. (i - 1) - 1 \in 2..Len(s) /\ ((i - 1) - 1) + 1 = i - 1
        BY <1>1, <1>2, <2>4
      <3> QED
        BY <1>2, <2>1, <2>2, <2>4, <3>1
    <2> QED
      BY <2>3, <2>4
  <1>4. \A i \in 1..Len(r) : i = 1 \/ i = 2 \/ i \in 3..Len(r)
    BY <1>1, <1>2
  <1>5. \A i \in 1..Len(r) : FrameWhole(st, r[i])
    BY <1>2, <1>3, <1>4 DEF StackWhole
  <1>6. ASSUME NEW i \in 3..Len(r)
        PROVE  BegunBy(st, r[i - 1], r[i]) /\ HasWhole(st, r[i], Saving(r[i - 1], r[i]))
    <2> DEFINE j == i - 1
    <2>1. j \in 2..Len(s) /\ j \in 1..Len(s) /\ j # 1 /\ r[i] = s[j]
      BY <1>3
    <2>2. BegunBy(st, s[j - 1], s[j]) /\ HasWhole(st, s[j], Saving(s[j - 1], s[j]))
      BY <2>1 DEF StackWhole
    <2>3. CASE i = 3
      <3>1. r[i - 1] = f /\ s[j - 1] = s[1]
        BY <1>3, <2>3
      <3>2. BegunBy(st, f, s[j]) /\ Saving(f, s[j]) = Saving(s[1], s[j])
        BY <2>2, <3>1 DEF BegunBy, Saving
      <3> QED
        BY <2>1, <2>2, <3>1, <3>2
    <2>4. CASE i # 3
      BY <1>3, <2>1, <2>2, <2>4
    <2> QED
      BY <2>3, <2>4
  <1>7. BegunBy(st, r[2 - 1], r[2]) /\ HasWhole(st, r[2], Saving(r[2 - 1], r[2]))
    BY <1>2
  <1>8. \A i \in 1..Len(r) : HasWhole(st, r[i], IF i = 1 THEN {} ELSE Saving(r[i - 1], r[i]))
    BY <1>2, <1>4, <1>6, <1>7
  <1>9. \A i \in 2..Len(r) : BegunBy(st, r[i - 1], r[i])
    <2>1. \A i \in 2..Len(r) : i = 2 \/ i \in 3..Len(r)
      BY <1>1, <1>2
    <2> QED
      BY <1>6, <1>7, <2>1
  <1>10. r[Len(r)].at # "exists" /\ r[Len(r)].e \notin ByValue
    <2>1. CASE Len(s) = 1
      <3>1. r[Len(r)] = f /\ s[Len(s)] = s[1]
        BY <1>2, <2>1
      <3> QED
        BY <3>1 DEF StackWhole
    <2>2. CASE Len(s) # 1
      <3>1. Len(s) \in 2..Len(s)
        <4>1. \A n \in Nat : n > 0 => n \in 2..n \/ n = 1
          OBVIOUS
        <4> QED
          BY <1>1, <2>2, <4>1
      <3>2. r[Len(r)] = s[Len(s)]
        BY <1>2, <3>1
      <3> QED
        BY <3>2 DEF StackWhole
    <2> QED
      BY <2>1, <2>2
  <1> QED
    BY <1>2, <1>5, <1>8, <1>9, <1>10 DEF StackWhole, r

LEMMA RestOfCascade ==
    ASSUME NEW s \in Seq(SaveFrame), s # <<>>, Len(s) \in Nat, Len(s) > 1
    PROVE  /\ Tail(s) \in Seq(SaveFrame) /\ Len(Tail(s)) = Len(s) - 1 /\ Tail(s) # <<>>
           /\ \A i \in 1..(Len(s) - 1) : Tail(s)[i] = s[i + 1]
  <1>1. Tail(s) \in Seq(SaveFrame) /\ Len(Tail(s)) = Len(s) - 1
    OBVIOUS
  <1>2. \A i \in 1..(Len(s) - 1) : Tail(s)[i] = s[i + 1]
    OBVIOUS
  <1>3. Tail(s) # <<>>
    <2>1. Len(s) - 1 # 0
      <3>1. \A n \in Nat : n > 1 => n - 1 # 0
        OBVIOUS
      <3> QED
        BY <3>1
    <2>2. Len(Tail(s)) # 0
      BY <1>1, <2>1
    <2> QED
      BY <1>1, <2>2, EmptySeq
  <1> QED
    BY <1>1, <1>2, <1>3

\* It is done, and the one around it goes on.
LEMMA StackTail ==
    ASSUME NEW st, NEW s, StackWhole(st, s), s # <<>>, Len(s) # 1,
           s[1].at = "write" => s[1].e \in Bare
    PROVE  StackWhole(st, Tail(s))
  <1> DEFINE r == Tail(s)
  <1>1. s \in Seq(SaveFrame) /\ s # <<>> /\ Len(s) \in Nat /\ Len(s) > 1
    <2>1. s \in Seq(SaveFrame) /\ s # <<>>
      BY DEF StackWhole
    <2>2. Len(s) \in Nat \ {0}
      BY <2>1, EmptySeq
    <2>3. \A n \in Nat \ {0} : n # 1 => n > 1
      OBVIOUS
    <2>4. Len(s) > 1
      BY <2>2, <2>3
    <2> QED
      BY <2>1, <2>2, <2>4
  <1>2. /\ r \in Seq(SaveFrame) /\ Len(r) = Len(s) - 1 /\ r # <<>>
        /\ \A i \in 1..(Len(s) - 1) : r[i] = s[i + 1]
    BY <1>1, RestOfCascade
  <1> HIDE DEF r
  <1>3. \A i \in 1..Len(r) : /\ r[i] = s[i + 1] /\ i + 1 \in 2..Len(s) /\ i + 1 \in 1..Len(s)
                             /\ i # 1 => r[i - 1] = s[(i + 1) - 1]
                             /\ i = 1 => s[(i + 1) - 1] = s[1]
    <2> SUFFICES ASSUME NEW i \in 1..Len(r)
                 PROVE  /\ r[i] = s[i + 1] /\ i + 1 \in 2..Len(s) /\ i + 1 \in 1..Len(s)
                        /\ i # 1 => r[i - 1] = s[(i + 1) - 1]
                        /\ i = 1 => s[(i + 1) - 1] = s[1]
      OBVIOUS
    <2>1. r[i] = s[i + 1] /\ i + 1 \in 2..Len(s) /\ i + 1 \in 1..Len(s) /\ (i + 1) - 1 = i
      BY <1>1, <1>2
    <2>2. ASSUME i # 1 PROVE r[i - 1] = s[i]
      <3>1. i - 1 \in 1..(Len(s) - 1) /\ (i - 1) + 1 = i
        BY <1>1, <1>2, <2>2
      <3> QED
        BY <1>2, <3>1
    <2> QED
      BY <2>1, <2>2
  <1>4. \A i \in 1..Len(r) : FrameWhole(st, r[i])
    BY <1>3 DEF StackWhole
  <1>5. \A i \in 1..Len(r) : /\ BegunBy(st, s[(i + 1) - 1], r[i])
                             /\ HasWhole(st, r[i], Saving(s[(i + 1) - 1], r[i]))
    <2> SUFFICES ASSUME NEW i \in 1..Len(r)
                 PROVE  /\ BegunBy(st, s[(i + 1) - 1], r[i])
                        /\ HasWhole(st, r[i], Saving(s[(i + 1) - 1], r[i]))
      OBVIOUS
    <2> DEFINE j == i + 1
    <2>1. j \in 2..Len(s) /\ j \in 1..Len(s) /\ j # 1 /\ r[i] = s[j]
      BY <1>3
    <2> QED
      BY <2>1 DEF StackWhole
  <1>6. HasWhole(st, r[1], {})
    <2>1. 1 \in 1..Len(r)
      BY <1>1, <1>2
    <2>2. BegunBy(st, s[1], r[1]) /\ HasWhole(st, r[1], Saving(s[1], r[1]))
      BY <1>3, <1>5, <2>1
    <2>3. CASE r[1].at = "has" /\ s[1].at = "write"
      <3>1. HasWhole(st, r[1], {s[1].e}) /\ ChildWhole(st, s[1].e, r[1].e)
        BY <2>2, <2>3 DEF Saving, BegunBy, ChildWhole, UpWhole
      <3> QED
        BY <3>1 DEF HasWhole
    <2>4. CASE ~(r[1].at = "has" /\ s[1].at = "write")
      BY <2>2, <2>4 DEF Saving
    <2> QED
      BY <2>3, <2>4
  <1>7. \A i \in 1..Len(r) : HasWhole(st, r[i], IF i = 1 THEN {} ELSE Saving(r[i - 1], r[i]))
    BY <1>3, <1>5, <1>6
  <1>8. \A i \in 2..Len(r) : BegunBy(st, r[i - 1], r[i])
    <2>1. \A i \in 2..Len(r) : i \in 1..Len(r) /\ i # 1
      BY <1>2
    <2> QED
      BY <1>3, <1>5, <2>1
  <1>9. r[Len(r)].at # "exists" /\ r[Len(r)].e \notin ByValue
    <2>1. Len(r) \in 1..Len(r) /\ Len(r) + 1 = Len(s)
      BY <1>1, <1>2
    <2>2. r[Len(r)] = s[Len(s)]
      BY <1>3, <2>1
    <2> QED
      BY <2>2 DEF StackWhole
  <1> QED
    BY <1>2, <1>4, <1>7, <1>8, <1>9 DEF StackWhole, r

\* A frame that has its relations before it.
LEMMA FreshWhole ==
    ASSUME NEW st, NEW f \in SaveFrame, f.left = Kinds(f.e), f.at \in {"write", "exists"},
           f.item = NoEntity, st.slice[f.e] # NoEntity => Tags[f.e] # {}
    PROVE  FrameWhole(st, f) /\ \A but : HasWhole(st, f, but)
  <1>1. /\ "has" \notin f.left => Has[f.e] = {}
        /\ "up" \notin f.left => Up[f.e] = NoEntity
        /\ "tags" \notin f.left => Tags[f.e] = {}
    BY DEF Kinds
  <1>2. f.at \notin f.left
    BY DEF SaveFrame
  <1>3. FrameWhole(st, f)
    BY <1>1, <1>2 DEF FrameWhole
  <1>4. \A but : HasWhole(st, f, but)
    BY <1>1 DEF HasWhole
  <1> QED
    BY <1>3, <1>4

LEMMA FrameIs ==
    ASSUME NEW e \in Entities, NEW tag \in BOOLEAN
    PROVE  /\ Frame(e, tag) \in SaveFrame /\ Frame(e, tag).e = e
           /\ Frame(e, tag).at = IF tag THEN "exists" ELSE "write"
           /\ Frame(e, tag).left = Kinds(e) /\ Frame(e, tag).item = NoEntity
  BY DEF Frame, SaveFrame, Kinds

-----------------------------------------------------------------------------
\* What memory knows of a row, unless it may be wrong.
Sure ==
    \A e \in Entities \ (unsure \cup Anew) :
        /\ row[e].n \in {0, 1} /\ (mem[e].loaded => row[e].n = 1)
        /\ e \notin Natural /\ row[e].n = 1 => mem[e].loaded

\* The parts of SavedOnceAndWhole.
DoneWhole ==
    verdict.how = "ok" /\ verdict.of \notin Bare =>
          LET e == verdict.of
          IN  /\ \A c \in Has[e] \ unsure : c \notin Bare => row[c].n = 1 /\ row[c].fk = e
              /\ Tagged(e) => {pair \in join : pair[1] = e} = {e} \X slice[e]
              /\ \A x \in Has[e] \cup {e} : UpWritten(x)
              /\ Up[e] # NoEntity => mem[e].up = Up[e]
KeyedKnown ==
    /\ before.keyed \in SUBSET Entities
    /\ \A e \in before.keyed : Up[e] # NoEntity /\ mem[e].up = Up[e]
Wanted(pair) == ~Tagged(pair[1]) \/ pair[2] \in slice[pair[1]]
JoinKept ==
    stack # <<>> \/ verdict.how \in {"ok", "failed"} =>
        \A pair \in before.join : Wanted(pair) => pair \in join

Taken == tx = NoEntity \/ tx \in [Entities -> StoredRows] \X SUBSET (Entities \X Entities)

WholeIInv ==
    /\ SaveState \in SaveStates /\ Taken
    /\ \A e \in Entities : Tagged(e) => Tags[e] # {}
    /\ Sure
    /\ StackWhole(SaveState, stack)
    /\ stack # <<>> => verdict.how = "none"
    /\ DoneWhole /\ JoinKept /\ KeyedKnown

LEMMA StateIs ==
    /\ SaveState.mem = mem /\ SaveState.row = row /\ SaveState.join = join /\ SaveState.slice = slice
    /\ SaveState.unsure = unsure /\ SaveState.keyed = before.keyed
    /\ SaveState \in SaveStates <=> /\ mem \in [Entities -> Memories] /\ row \in [Entities -> StoredRows]
                            /\ join \in SUBSET (Entities \X Entities)
                            /\ slice \in [Entities -> (SUBSET Entities) \cup {NoEntity}]
                            /\ unsure \in SUBSET Entities /\ before.keyed \in SUBSET Entities
  BY DEF SaveState, SaveStates

LEMMA StateNext ==
    /\ SaveState'.mem = mem' /\ SaveState'.row = row' /\ SaveState'.join = join' /\ SaveState'.slice = slice'
    /\ SaveState'.unsure = unsure' /\ SaveState'.keyed = before'.keyed
    /\ SaveState' \in SaveStates <=> /\ mem' \in [Entities -> Memories] /\ row' \in [Entities -> StoredRows]
                             /\ join' \in SUBSET (Entities \X Entities)
                             /\ slice' \in [Entities -> (SUBSET Entities) \cup {NoEntity}]
                             /\ unsure' \in SUBSET Entities /\ before'.keyed \in SUBSET Entities
  BY DEF SaveState, SaveStates

\* The Save on top, in this state and after a step that keeps what was done.
LEMMA TopWhole ==
    ASSUME WholeIInv, stack # <<>>
    PROVE  /\ Top = stack[1] /\ Top \in SaveFrame /\ Top.e \in Entities /\ Len(stack) \in Nat \ {0}
           /\ FrameWhole(SaveState, Top) /\ HasWhole(SaveState, Top, {})
           /\ Top.left \subseteq {"has", "up", "tags"} /\ Top.todo \subseteq Entities
  <1>1. stack \in Seq(SaveFrame)
    BY DEF WholeIInv, StackWhole
  <1>2. Len(stack) \in Nat \ {0} /\ Top = stack[1]
    BY <1>1, EmptySeq DEF Top
  <1>3. 1 \in 1..Len(stack)
    BY <1>2
  <1>4. Top \in SaveFrame
    BY <1>1, <1>2, <1>3, ElementOfSeq
  <1>5. FrameWhole(SaveState, Top) /\ HasWhole(SaveState, Top, {})
    BY <1>2, <1>3 DEF WholeIInv, StackWhole
  <1> QED
    BY <1>2, <1>4, <1>5 DEF SaveFrame

\* A step of a cascade.
LEMMA Cascades ==
    ASSUME WholeIInv, stack # <<>>, SaveState' \in SaveStates, Sure',
           UNCHANGED <<slice, before, tx>>, StackWhole(SaveState', stack'),
           \A pair \in join : Wanted(pair) => pair \in join',
           \A e \in Entities : Up[e] # NoEntity /\ mem[e].up = Up[e] => mem'[e].up = Up[e],
           \/ UNCHANGED verdict
           \/ stack' = <<>> /\ verdict'.how \in {"failed", "refused"}
           \/ stack' = <<>> /\ DoneWhole'
    PROVE  WholeIInv'
  <1>1. (\A e \in Entities : Tagged(e) => Tags[e] # {})'
    BY DEF WholeIInv, Tagged
  <1>2. Taken'
    BY DEF WholeIInv, Taken
  <1>3. \A pair \in before'.join : Wanted(pair)' => pair \in join'
    BY DEF WholeIInv, JoinKept, Wanted, Tagged
  <1>4. JoinKept'
    BY <1>3 DEF JoinKept
  <1>5. (stack # <<>> => verdict.how = "none")'
    BY DEF WholeIInv
  <1>6. DoneWhole'
    <2>1. CASE UNCHANGED verdict
      <3>1. verdict'.how = "none"
        BY <2>1 DEF WholeIInv
      <3> QED
        BY <3>1 DEF DoneWhole
    <2>2. CASE stack' = <<>> /\ verdict'.how \in {"failed", "refused"}
      BY <2>2 DEF DoneWhole
    <2> QED
      BY <2>1, <2>2
  <1>7. KeyedKnown'
    BY DEF WholeIInv, KeyedKnown
  <1> QED
    BY <1>1, <1>2, <1>4, <1>5, <1>6, <1>7 DEF WholeIInv

\* A step that leaves the rows alone.
Still == UNCHANGED <<mem, row, join, slice, unsure, before, tx>>

LEMMA StillFacts ==
    ASSUME WholeIInv, Still
    PROVE  /\ SaveState' = SaveState /\ SaveState' \in SaveStates /\ Sure' /\ Keeps(SaveState, SaveState')
           /\ \A pair \in join : Wanted(pair) => pair \in join'
  <1>1. SaveState' = SaveState
    BY DEF Still, SaveState
  <1>2. Sure'
    BY DEF Still, WholeIInv, Sure
  <1>3. Keeps(SaveState, SaveState')
    BY <1>1 DEF Keeps
  <1> QED
    BY <1>1, <1>2, <1>3 DEF WholeIInv, Still

\* It ends in failure, ...
LEMMA FailsWhole ==
    ASSUME WholeIInv, stack # <<>>, SaveState' \in SaveStates, Sure', UNCHANGED <<mem, slice, before, tx>>,
           \A pair \in join : Wanted(pair) => pair \in join',
           NEW how \in {"failed", "refused"}, Ends(how)
    PROVE  WholeIInv'
  <1>1. stack' = <<>> /\ verdict'.how \in {"failed", "refused"}
    BY DEF Ends
  <1>2. StackWhole(SaveState', <<>>)
    BY EmptySeq DEF StackWhole
  <1> QED
    BY <1>1, <1>2, Cascades

LEMMA KeysStay ==
    ASSUME Keeps(SaveState, SaveState')
    PROVE  \A e \in Entities : Up[e] # NoEntity /\ mem[e].up = Up[e] => mem'[e].up = Up[e]
  BY StateIs, StateNext DEF Keeps

\* ... goes on, ...
LEMMA PutWhole ==
    ASSUME WholeIInv, stack # <<>>, SaveState' \in SaveStates, Sure', UNCHANGED <<slice, before, tx, verdict>>,
           \A pair \in join : Wanted(pair) => pair \in join', Keeps(SaveState, SaveState'),
           NEW f \in SaveFrame, f.e = Top.e, Put(f),
           FrameWhole(SaveState', f), HasWhole(SaveState', f, {}), f.at # "exists",
           f.at = "write" => Top.at # "write",
           Top.at = "write" => \A e \in Entities :
              Top.e \in Has[e] /\ SaveState'.mem[Top.e].fk = e => ChildWhole(SaveState', Top.e, e)
    PROVE  WholeIInv'
  <1>1. StackWhole(SaveState', stack)
    BY StackKept DEF WholeIInv
  <1>2. Top = stack[1]
    BY TopWhole
  <1>3. StackWhole(SaveState', <<f>> \o Tail(stack))
    BY <1>1, <1>2, StackPut
  <1>4. \A e \in Entities : Up[e] # NoEntity /\ mem[e].up = Up[e] => mem'[e].up = Up[e]
    BY KeysStay
  <1> QED
    BY <1>3, <1>4, Cascades DEF Put

\* ... begins another, ...
LEMMA PushWhole ==
    ASSUME WholeIInv, stack # <<>>, SaveState' \in SaveStates, Sure', UNCHANGED <<slice, before, tx, verdict>>,
           \A pair \in join : Wanted(pair) => pair \in join', Keeps(SaveState, SaveState'),
           NEW f \in SaveFrame, f.e = Top.e, f.at = Top.at, NEW c \in Entities, NEW tag \in BOOLEAN,
           Push(f, c, tag), FrameWhole(SaveState', f), BegunBy(SaveState', Frame(c, tag), f),
           HasWhole(SaveState', f, Saving(Frame(c, tag), f))
    PROVE  WholeIInv'
  <1> DEFINE g == Frame(c, tag)
  <1>1. StackWhole(SaveState', stack)
    BY StackKept DEF WholeIInv
  <1>2. Top = stack[1]
    BY TopWhole
  <1>3. /\ g \in SaveFrame /\ g.e = c /\ g.at \in {"exists", "write"} /\ g.left = Kinds(c)
        /\ g.item = NoEntity
    BY FrameIs
  <1>4. stack' = <<g, f>> \o Tail(stack) /\ BegunBy(SaveState', g, f) /\ HasWhole(SaveState', f, Saving(g, f))
    BY DEF Push
  <1> HIDE DEF g
  <1>5. SaveState'.slice[c] # NoEntity => Tags[c] # {}
    BY StateNext DEF WholeIInv, Tagged
  <1>6. FrameWhole(SaveState', g) /\ HasWhole(SaveState', g, {})
    BY <1>3, <1>5, FreshWhole
  <1>7. StackWhole(SaveState', <<g, f>> \o Tail(stack))
    BY <1>1, <1>2, <1>3, <1>4, <1>6, StackPush
  <1>8. \A e \in Entities : Up[e] # NoEntity /\ mem[e].up = Up[e] => mem'[e].up = Up[e]
    BY KeysStay
  <1> QED
    BY <1>4, <1>7, <1>8, Cascades

\* ... or is done.
LEMMA ReturnsWhole ==
    ASSUME WholeIInv, stack # <<>>, SaveState' \in SaveStates, Sure', UNCHANGED <<slice, before, tx>>,
           \A pair \in join : Wanted(pair) => pair \in join', Keeps(SaveState, SaveState'),
           SaveReturns, Top.at = "write" => Top.e \in Bare,
           Top.at # "write" => Top.at = "exists" \/ (Top.at = "walk" /\ Top.left = {})
    PROVE  WholeIInv'
  <1>1. StackWhole(SaveState', stack)
    BY StackKept DEF WholeIInv
  <1>2. Top = stack[1] /\ Len(stack) \in Nat \ {0} /\ Top.e \in Entities /\ Top \in SaveFrame
    BY TopWhole
  <1>k. \A e \in Entities : Up[e] # NoEntity /\ mem[e].up = Up[e] => mem'[e].up = Up[e]
    BY KeysStay
  <1>3. CASE Len(stack) # 1
    <2>1. stack' = Tail(stack) /\ UNCHANGED verdict
      BY <1>3 DEF SaveReturns
    <2>2. StackWhole(SaveState', Tail(stack))
      BY <1>1, <1>2, <1>3, StackTail
    <2> QED
      BY <1>k, <2>1, <2>2, Cascades
  <1>4. CASE Len(stack) = 1
    <2>1. stack' = <<>> /\ verdict' = [how |-> "ok", of |-> Top.e]
      BY <1>2, <1>4 DEF SaveReturns, Ends
    <2>2. verdict'.of = Top.e /\ verdict'.how = "ok"
      BY <2>1
    <2>3. StackWhole(SaveState', <<>>)
      BY EmptySeq DEF StackWhole
    <2>4. Top.at # "exists" /\ Top.e \notin ByValue
      BY <1>2, <1>4 DEF WholeIInv, StackWhole
    <2>5. CASE Top.e \in Bare
      <3>1. DoneWhole'
        BY <2>2, <2>5 DEF DoneWhole
      <3> QED
        BY <1>k, <2>1, <2>3, <3>1, Cascades
    <2>6. CASE Top.at = "walk" /\ Top.left = {}
      <3> DEFINE e == Top.e
      <3>1. FrameWhole(SaveState', Top) /\ HasWhole(SaveState', Top, {})
        BY <1>2, FrameKept, TopWhole
      <3>2. \A c \in Has[e] : ChildWhole(SaveState', c, e)
        BY <2>6, <3>1 DEF HasWhole
      <3>3. slice'[e] # NoEntity => TagsWhole(SaveState', e)
        BY <2>6, <3>1, StateNext DEF FrameWhole
      <3>4. Up[e] # NoEntity => mem'[e].up = Up[e]
        BY <2>4, <2>6, <3>1, StateNext DEF FrameWhole
      <3>a. Has[e] \cap Anew = {} /\ e \notin Anew
        BY <1>2, <2>4, SaveConstantsOK DEF Anew
      <3>5. \A c \in Has[e] \ unsure' : c \notin Bare => row'[c].n = 1 /\ row'[c].fk = e
        BY <3>2, <3>a, StateNext DEF ChildWhole
      <3>b. \A x \in Has[e] \cup {e} : UpWhole(SaveState', x)
        BY <2>6, <3>1, <3>2 DEF ChildWhole, FrameWhole
      <3>c. \A x \in Has[e] \cup {e} : UpWritten(x)'
        BY <3>a, <3>b, StateNext DEF UpWhole, UpWritten
      <3>6. slice'[e] # NoEntity => {pair \in join' : pair[1] = e} = {e} \X slice'[e]
        BY <3>3, StateNext DEF TagsWhole
      <3>7. DoneWhole'
        BY <2>2, <3>4, <3>5, <3>6, <3>c DEF DoneWhole, Tagged
      <3> QED
        BY <1>k, <2>1, <2>3, <3>7, Cascades
    <2> QED
      BY <2>4, <2>5, <2>6
  <1> QED
    BY <1>3, <1>4

LEMMA StillFails ==
    ASSUME WholeIInv, stack # <<>>, Still, NEW how \in {"failed", "refused"}, Ends(how)
    PROVE  WholeIInv'
  BY StillFacts, FailsWhole DEF Still

LEMMA StillReturns ==
    ASSUME WholeIInv, stack # <<>>, Still, SaveReturns, Top.at = "write" => Top.e \in Bare,
           Top.at # "write" => Top.at = "exists" \/ (Top.at = "walk" /\ Top.left = {})
    PROVE  WholeIInv'
  BY StillFacts, ReturnsWhole DEF Still

LEMMA StillPut ==
    ASSUME WholeIInv, stack # <<>>, Still, UNCHANGED verdict, Top.at # "write",
           NEW f \in SaveFrame, f.e = Top.e, Put(f),
           FrameWhole(SaveState, f), HasWhole(SaveState, f, {}), f.at # "exists"
    PROVE  WholeIInv'
  BY StillFacts, PutWhole DEF Still

\* The next relation.
LEMMA WalkWhole ==
    ASSUME SaveIInv, WholeIInv, NEW kind \in {"has", "up", "tags"}, Walk(kind)
    PROVE  WholeIInv'
  <1> DEFINE g == [Top EXCEPT !.left = @ \ {kind}]
             f == [Top EXCEPT !.left = @ \ {kind}, !.at = kind]
  <1>1. /\ stack # <<>> /\ Top.at = "walk" /\ kind \in Top.left
        /\ UNCHANGED verdict /\ Still
    BY DEF Walk, Still, ghosts, db
  <1>2. Top \in SaveFrame /\ Top.e \in Entities /\ Top.left \subseteq Kinds(Top.e)
    BY <1>1, TopIs
  <1>3. g \in SaveFrame /\ g.e = Top.e /\ g.left = Top.left \ {kind} /\ g.todo = Top.todo /\ g.item = Top.item
    <2>1. Top.left \ {kind} \in SUBSET {"has", "up", "tags"}
      BY <1>2 DEF SaveFrame
    <2> QED
      BY <1>2, <2>1, FrameLeft
  <1>4. f = [g EXCEPT !.at = kind]
    OBVIOUS
  <1>5. /\ f \in SaveFrame /\ f.e = Top.e /\ f.at = kind /\ f.left = Top.left \ {kind}
        /\ f.todo = Top.todo /\ f.item = Top.item
    <2>1. ASSUME NEW k \in SaveFrame
          PROVE  /\ [k EXCEPT !.at = kind] \in SaveFrame /\ [k EXCEPT !.at = kind].e = k.e
                 /\ [k EXCEPT !.at = kind].at = kind /\ [k EXCEPT !.at = kind].left = k.left
                 /\ [k EXCEPT !.at = kind].todo = k.todo /\ [k EXCEPT !.at = kind].item = k.item
      BY DEF SaveFrame
    <2> HIDE DEF g, f
    <2> QED
      BY <1>3, <1>4, <2>1
  <1>6. \/ kind = "has" /\ Put([f EXCEPT !.todo = Has[Top.e]])
        \/ kind = "up" /\ Put([f EXCEPT !.todo = {Up[Top.e]}])
        \/ kind = "tags" /\ Tagged(Top.e) /\ Put([f EXCEPT !.todo = Kept(Top.e)])
        \/ kind = "tags" /\ ~Tagged(Top.e) /\ Put([f EXCEPT !.at = "walk"])
    BY DEF Walk
  <1> HIDE DEF f, g
  <1>7. FrameWhole(SaveState, Top) /\ HasWhole(SaveState, Top, {})
    BY <1>1, TopWhole
  <1>8. /\ SaveState.slice = slice
        /\ slice[Top.e] \in (SUBSET Entities) \cup {NoEntity}
        /\ Has[Top.e] \in SUBSET Entities /\ Up[Top.e] \in Entities \cup {NoEntity}
    BY <1>2, StateIs, SaveConstantsOK DEF WholeIInv
  <1>9. ASSUME NEW todo \in SUBSET Entities, Put([f EXCEPT !.todo = todo]),
               NEW h, h = [f EXCEPT !.todo = todo],
               kind = "has" => todo = Has[Top.e],
               kind = "up" => todo = {Up[Top.e]} /\ Up[Top.e] # NoEntity,
               kind = "tags" => slice[Top.e] # NoEntity /\ todo = slice[Top.e]
        PROVE  WholeIInv'
    <2>1. /\ h \in SaveFrame /\ h.e = Top.e /\ h.at = kind /\ h.left = Top.left \ {kind}
          /\ h.todo = todo /\ h.item = Top.item
      BY <1>5, <1>9, FrameTodo
    <2>2. FrameWhole(SaveState, h)
      BY <1>1, <1>7, <1>8, <1>9, <2>1 DEF FrameWhole
    <2>3. HasWhole(SaveState, h, {})
      BY <1>1, <1>7, <1>9, <2>1 DEF HasWhole
    <2>4. Put(h)
      BY <1>9
    <2> QED
      BY <1>1, <2>1, <2>2, <2>3, <2>4, StillPut
  <1>10. CASE kind = "has" /\ Put([f EXCEPT !.todo = Has[Top.e]])
    BY <1>8, <1>9, <1>10
  <1>11. CASE kind = "up" /\ Put([f EXCEPT !.todo = {Up[Top.e]}])
    <2>1. Up[Top.e] # NoEntity
      BY <1>1, <1>2, <1>11 DEF Kinds
    <2> QED
      BY <1>8, <1>9, <1>11, <2>1
  <1>12. CASE kind = "tags" /\ Tagged(Top.e) /\ Put([f EXCEPT !.todo = Kept(Top.e)])
    <2>1. slice[Top.e] # NoEntity /\ Kept(Top.e) = slice[Top.e]
      BY <1>12 DEF Kept, Tagged
    <2> QED
      BY <1>8, <1>9, <1>12, <2>1
  <1>13. CASE kind = "tags" /\ ~Tagged(Top.e) /\ Put([f EXCEPT !.at = "walk"])
    <2> DEFINE h == [f EXCEPT !.at = "walk"]
    <2>1. /\ h \in SaveFrame /\ h.e = f.e /\ h.left = f.left /\ h.todo = f.todo /\ h.item = f.item
          /\ h.at = "walk"
      BY <1>5, FrameAt
    <2>2. Put(h)
      BY <1>13
    <2>3. slice[Top.e] = NoEntity
      BY <1>13 DEF Tagged
    <2> HIDE DEF h
    <2>4. FrameWhole(SaveState, h)
      BY <1>1, <1>5, <1>7, <1>8, <1>13, <2>1, <2>3 DEF FrameWhole
    <2>5. HasWhole(SaveState, h, {})
      BY <1>1, <1>5, <1>7, <1>13, <2>1 DEF HasWhole
    <2> QED
      BY <1>1, <1>5, <2>1, <2>2, <2>4, <2>5, StillPut
  <1> QED
    BY <1>6, <1>10, <1>11, <1>12, <1>13

LEMMA SettledWhole ==
    ASSUME SaveIInv, WholeIInv, Walked \/ HasDone \/ NothingToSet \/ Keyless \/ Refuse \/ InsertFails
    PROVE  WholeIInv'
  <1>0. stack # <<>> /\ Still
    BY DEF Walked, HasDone, NothingToSet, Keyless, Refuse, InsertFails, Still, ghosts, db
  <1>1. CASE Walked
    BY <1>0, <1>1, StillReturns DEF Walked
  <1>2. CASE NothingToSet
    BY <1>0, <1>2, StillReturns DEF NothingToSet
  <1>3. CASE Keyless \/ Refuse \/ InsertFails
    <2>1. Ends("refused") \/ Ends("failed")
      BY <1>3 DEF Keyless, Refuse, InsertFails
    <2> QED
      BY <1>0, <2>1, StillFails
  <1>4. CASE HasDone
    <2> DEFINE h == [Top EXCEPT !.at = "walk"]
    <2>1. Top \in SaveFrame /\ Top.at = "has" /\ Top.todo = {} /\ UNCHANGED verdict /\ Put(h)
      BY <1>0, <1>4, TopIs DEF HasDone
    <2>2. /\ h \in SaveFrame /\ h.e = Top.e /\ h.left = Top.left /\ h.todo = Top.todo
          /\ h.item = Top.item /\ h.at = "walk"
      BY <2>1, FrameAt
    <2> HIDE DEF h
    <2>3. FrameWhole(SaveState, Top) /\ HasWhole(SaveState, Top, {}) /\ "walk" \notin Top.left
      BY <1>0, TopWhole
    <2>4. FrameWhole(SaveState, h)
      BY <2>1, <2>2, <2>3 DEF FrameWhole
    <2>5. HasWhole(SaveState, h, {})
      BY <2>1, <2>2, <2>3 DEF HasWhole
    <2> QED
      BY <1>0, <2>1, <2>2, <2>4, <2>5, StillPut
  <1> QED
    BY <1>1, <1>2, <1>3, <1>4

\* What it is related to is saved in turn: what it has, with its key ...
LEMMA SaveChildWhole ==
    ASSUME OneOwner, SaveIInv, WholeIInv, SaveChild
    PROVE  WholeIInv'
  <1> USE SaveConstantsOK
  <1>1. /\ stack # <<>> /\ Top.at = "has"
        /\ UNCHANGED <<row, join, unsure>> /\ UNCHANGED <<slice, before, tx, verdict>>
    BY DEF SaveChild, ghosts, db
  <1>2. PICK c \in Top.todo : /\ mem' = [mem EXCEPT ![c].fk = Top.e]
                              /\ Push([Top EXCEPT !.todo = @ \ {c}], c, FALSE)
    BY DEF SaveChild
  <1>3. /\ Top \in SaveFrame /\ Top.e \in Entities /\ Top.todo \subseteq Entities
        /\ FrameWhole(SaveState, Top) /\ HasWhole(SaveState, Top, {})
    BY <1>1, TopWhole
  <1>4. c \in Entities /\ c \in Has[Top.e]
    BY <1>1, <1>3 DEF FrameWhole
  <1>5. mem \in [Entities -> Memories] /\ SaveState \in SaveStates
    BY StateIs DEF WholeIInv
  <1>6. mem' \in [Entities -> Memories]
    BY <1>2, <1>3, <1>4, <1>5 DEF Memories
  <1>7. \A e \in Entities : /\ mem'[e].fk = (IF e = c THEN Top.e ELSE mem[e].fk)
                            /\ mem'[e].up = mem[e].up /\ mem'[e].loaded = mem[e].loaded
    BY <1>2, <1>4, <1>5 DEF Memories
  <1>8. SaveState' \in SaveStates
    BY <1>1, <1>5, <1>6, StateIs, StateNext
  <1>9. Sure'
    BY <1>1, <1>7 DEF WholeIInv, Sure
  <1>10. Keeps(SaveState, SaveState')
    <2>1. \A e \in Entities : \A d \in Has[e] : mem[d].fk = e => mem'[d].fk = e
      BY <1>3, <1>4, <1>7 DEF OneOwner
    <2> QED
      BY <1>1, <1>7, <2>1, StateIs, StateNext DEF Keeps, ChildWhole, UpWhole, TagsWhole
  <1> DEFINE f == [Top EXCEPT !.todo = @ \ {c}]
  <1>11. /\ f \in SaveFrame /\ f.e = Top.e /\ f.at = Top.at /\ f.left = Top.left
         /\ f.todo = Top.todo \ {c} /\ f.item = Top.item
    BY <1>3, FrameTodo
  <1>12. Push(f, c, FALSE)
    BY <1>2
  <1> HIDE DEF f
  <1>13. FrameWhole(SaveState', Top) /\ HasWhole(SaveState', Top, {})
    BY <1>3, <1>10, FrameKept
  <1>14. FrameWhole(SaveState', f)
    BY <1>1, <1>11, <1>13 DEF FrameWhole
  <1>15. Frame(c, FALSE).e = c /\ Frame(c, FALSE).at = "write"
    BY <1>4, FrameIs
  <1>16. BegunBy(SaveState', Frame(c, FALSE), f)
    BY <1>1, <1>4, <1>7, <1>11, <1>15, StateNext DEF BegunBy
  <1>17. HasWhole(SaveState', f, Saving(Frame(c, FALSE), f))
    <2>1. Saving(Frame(c, FALSE), f) = {c}
      BY <1>1, <1>11, <1>15 DEF Saving
    <2> QED
      BY <1>1, <1>11, <1>13, <2>1 DEF HasWhole
  <1> QED
    BY <1>1, <1>4, <1>8, <1>9, <1>10, <1>11, <1>12, <1>14, <1>16, <1>17, PushWhole

\* ... and what it belongs to, or is tagged with.
LEMMA StillPush ==
    ASSUME WholeIInv, stack # <<>>, Still, UNCHANGED verdict, Top.at # "has",
           NEW f \in SaveFrame, f.e = Top.e, f.at = Top.at, f.left = Top.left,
           NEW c \in Entities, NEW tag \in BOOLEAN,
           Push(f, c, tag), FrameWhole(SaveState, f), BegunBy(SaveState, Frame(c, tag), f)
    PROVE  WholeIInv'
  <1>1. HasWhole(SaveState, Top, {})
    BY TopWhole
  <1>2. HasWhole(SaveState, f, Saving(Frame(c, tag), f))
    BY <1>1 DEF HasWhole, Saving
  <1> QED
    BY <1>2, StillFacts, PushWhole DEF Still

LEMMA DescendsWhole ==
    ASSUME SaveIInv, WholeIInv, SaveUp \/ SaveTag
    PROVE  WholeIInv'
  <1> USE SaveConstantsOK
  <1>1. stack # <<>> /\ UNCHANGED verdict /\ Still /\ Top.at # "has"
    BY DEF SaveUp, SaveTag, Still, ghosts, db
  <1>2. /\ Top \in SaveFrame /\ Top.e \in Entities /\ Top.todo \subseteq Entities
        /\ FrameWhole(SaveState, Top)
    BY <1>1, TopWhole
  <1>3. SaveState.slice = slice /\ slice[Top.e] \in (SUBSET Entities) \cup {NoEntity}
    BY <1>2, StateIs DEF WholeIInv
  <1>4. ASSUME NEW c \in Top.todo, NEW tag \in BOOLEAN, NEW todo \in SUBSET Top.todo,
               Push([Top EXCEPT !.todo = todo, !.item = c], c, tag),
               \/ Top.at = "up" /\ todo = {} /\ ~tag
               \/ Top.at = "tags" /\ todo = Top.todo \ {c} /\ Top.item = NoEntity
        PROVE  WholeIInv'
    <2> DEFINE g == [Top EXCEPT !.todo = todo]
               f == [Top EXCEPT !.todo = todo, !.item = c]
    <2>1. /\ g \in SaveFrame /\ g.e = Top.e /\ g.at = Top.at /\ g.left = Top.left /\ g.todo = todo
          /\ f = [g EXCEPT !.item = c]
      BY <1>2, <1>4, FrameTodo
    <2> HIDE DEF g
    <2>2. c \in Entities
      BY <1>2
    <2>3. /\ f \in SaveFrame /\ f.e = Top.e /\ f.at = Top.at /\ f.left = Top.left
          /\ f.todo = todo /\ f.item = c
      BY <2>1, <2>2, FrameItem
    <2>4. Push(f, c, tag)
      BY <1>4
    <2> HIDE DEF f
    <2>5. FrameWhole(SaveState, f)
      BY <1>2, <1>3, <1>4, <2>2, <2>3 DEF FrameWhole
    <2>6. Frame(c, tag).at = IF tag THEN "exists" ELSE "write"
      BY <2>2, FrameIs
    <2>7. BegunBy(SaveState, Frame(c, tag), f)
      BY <1>4, <2>3, <2>6 DEF BegunBy
    <2> QED
      BY <1>1, <2>2, <2>3, <2>4, <2>5, <2>7, StillPush
  <1>5. CASE SaveUp
    <2>1. PICK c \in Top.todo : Push([Top EXCEPT !.todo = {}, !.item = c], c, FALSE)
      BY <1>5 DEF SaveUp
    <2>2. Top.at = "up" /\ {} \in SUBSET Top.todo /\ FALSE \in BOOLEAN
      BY <1>5 DEF SaveUp
    <2> QED
      BY <1>4, <2>1, <2>2
  <1>6. CASE SaveTag
    <2>1. PICK c \in Top.todo : Push([Top EXCEPT !.todo = Top.todo \ {c}, !.item = c], c, TRUE)
      BY <1>6 DEF SaveTag
    <2>2. /\ Top.at = "tags" /\ Top.item = NoEntity /\ TRUE \in BOOLEAN
          /\ Top.todo \ {c} \in SUBSET Top.todo
      BY <1>6 DEF SaveTag
    <2> QED
      BY <1>4, <2>1, <2>2
  <1> QED
    BY <1>5, <1>6

\* The key of what it belongs to goes into memory.
LEMMA TakeUpWhole ==
    ASSUME SaveIInv, WholeIInv, TakeUp
    PROVE  WholeIInv'
  <1> USE SaveConstantsOK
  <1>1. /\ stack # <<>> /\ Top.at = "up" /\ Top.todo = {}
        /\ mem' = IF Top.item = NoEntity \/ Top.e \in ByValue THEN mem
                  ELSE [mem EXCEPT ![Top.e].up = Top.item]
        /\ Put([Top EXCEPT !.at = "walk", !.item = NoEntity])
        /\ UNCHANGED <<row, join, unsure>> /\ UNCHANGED <<slice, before, tx, verdict>>
    BY DEF TakeUp, ghosts, db
  <1>2. /\ Top \in SaveFrame /\ Top.e \in Entities /\ Top.left \subseteq {"has", "up", "tags"}
        /\ FrameWhole(SaveState, Top) /\ HasWhole(SaveState, Top, {})
    BY <1>1, TopWhole
  <1>3. Top.item = Up[Top.e] /\ Up[Top.e] # NoEntity /\ Up[Top.e] \in Entities
    BY <1>1, <1>2 DEF FrameWhole
  <1>4. mem \in [Entities -> Memories] /\ SaveState \in SaveStates
    BY StateIs DEF WholeIInv
  <1>a. /\ Top.e \in ByValue => mem' = mem
        /\ Top.e \notin ByValue => mem' = [mem EXCEPT ![Top.e].up = Up[Top.e]]
    BY <1>1, <1>3
  <1>b. ASSUME NEW k \in Memories, NEW p \in Entities
        PROVE  /\ [k EXCEPT !.up = p] \in Memories /\ [k EXCEPT !.up = p].up = p
               /\ [k EXCEPT !.up = p].fk = k.fk /\ [k EXCEPT !.up = p].loaded = k.loaded
    BY DEF Memories
  <1>5. mem' \in [Entities -> Memories]
    BY <1>a, <1>b, <1>2, <1>3, <1>4
  <1>6. \A e \in Entities : /\ mem'[e].up = (IF e = Top.e /\ e \notin ByValue THEN Up[e] ELSE mem[e].up)
                            /\ mem'[e].fk = mem[e].fk /\ mem'[e].loaded = mem[e].loaded
    <2> SUFFICES ASSUME NEW e \in Entities
                 PROVE  /\ mem'[e].up = (IF e = Top.e /\ e \notin ByValue THEN Up[e] ELSE mem[e].up)
                        /\ mem'[e].fk = mem[e].fk /\ mem'[e].loaded = mem[e].loaded
      OBVIOUS
    <2>1. CASE e = Top.e /\ e \notin ByValue
      <3>1. mem'[e] = [mem[e] EXCEPT !.up = Up[e]]
        BY <1>a, <1>4, <2>1
      <3>2. mem[e] \in Memories /\ Up[e] \in Entities
        BY <1>3, <1>4, <2>1
      <3> QED
        BY <1>b, <2>1, <3>1, <3>2
    <2>2. CASE ~(e = Top.e /\ e \notin ByValue)
      <3>1. mem'[e] = mem[e]
        BY <1>a, <1>4, <2>2
      <3> QED
        BY <2>2, <3>1
    <2> QED
      BY <2>1, <2>2
  <1>7. SaveState' \in SaveStates
    BY <1>1, <1>4, <1>5, StateIs, StateNext
  <1>8. Sure'
    BY <1>1, <1>6 DEF WholeIInv, Sure
  <1>9. Keeps(SaveState, SaveState')
    <2>1. /\ SaveState'.row = SaveState.row /\ SaveState'.unsure = SaveState.unsure
          /\ SaveState'.keyed = SaveState.keyed /\ SaveState'.join = SaveState.join
          /\ SaveState'.slice = SaveState.slice
          /\ SaveState.mem = mem /\ SaveState'.mem = mem'
      BY <1>1, StateIs, StateNext
    <2>2. \A e \in Entities : UpWhole(SaveState, e) <=> UpWhole(SaveState', e)
      BY <2>1 DEF UpWhole
    <2>3. \A e \in Entities : \A c \in Has[e] :
             /\ ChildWhole(SaveState, c, e) => ChildWhole(SaveState', c, e)
             /\ SaveState.mem[c].fk = e => SaveState'.mem[c].fk = e
      BY <1>6, <2>1, <2>2 DEF ChildWhole
    <2>4. \A e \in Entities : TagsWhole(SaveState, e) <=> TagsWhole(SaveState', e)
      BY <2>1 DEF TagsWhole
    <2>5. \A e \in Entities : mem[e].up = Up[e] => mem'[e].up = Up[e]
      BY <1>6
    <2> QED
      BY <2>1, <2>2, <2>3, <2>4, <2>5 DEF Keeps
  <1> DEFINE g == [Top EXCEPT !.at = "walk"]
             f == [Top EXCEPT !.at = "walk", !.item = NoEntity]
  <1>10. /\ g \in SaveFrame /\ g.e = Top.e /\ g.at = "walk" /\ g.left = Top.left
         /\ f = [g EXCEPT !.item = NoEntity]
    BY <1>2, FrameAt
  <1> HIDE DEF g
  <1>11. /\ f \in SaveFrame /\ f.e = Top.e /\ f.at = "walk" /\ f.left = Top.left /\ f.item = NoEntity
    BY <1>10, FrameItem
  <1>12. Put(f)
    BY <1>1
  <1> HIDE DEF f
  <1>13. FrameWhole(SaveState', Top) /\ HasWhole(SaveState', Top, {})
    BY <1>2, <1>9, FrameKept
  <1>14. (f.e \in ByValue \/ mem'[f.e].up = Up[f.e]) /\ SaveState'.mem = mem'
    BY <1>2, <1>6, <1>11, StateNext
  <1>15. FrameWhole(SaveState', f)
    BY <1>1, <1>2, <1>11, <1>13, <1>14 DEF FrameWhole
  <1>16. HasWhole(SaveState', f, {})
    BY <1>1, <1>11, <1>13 DEF HasWhole
  <1> QED
    BY <1>1, <1>7, <1>8, <1>9, <1>11, <1>12, <1>15, <1>16, PutWhole

\* What a Save learns changes neither key of what the entity belongs to or is had by.
LEMMA LearnsFacts ==
    ASSUME mem \in [Entities -> Memories], NEW e \in Entities, NEW key \in BOOLEAN
    PROVE  /\ Learns(e, key) \in [Entities -> Memories]
           /\ \A d \in Entities : /\ Learns(e, key)[d].fk = mem[d].fk /\ Learns(e, key)[d].up = mem[d].up
                                  /\ d # e => Learns(e, key)[d].loaded = mem[d].loaded
                                  /\ mem[d].loaded => Learns(e, key)[d].loaded
           /\ e \notin Anew \cup Natural => Learns(e, key)[e].loaded
  <1> DEFINE k == mem[e].key \/ (key /\ e \notin ByValue)
             l == mem[e].loaded \/ e \notin ByValue \/ e \in Sharing
             m == [mem[e] EXCEPT !.key = k, !.loaded = l]
  <1>1. mem[e] \in Memories /\ k \in BOOLEAN /\ l \in BOOLEAN
    BY DEF Memories
  <1>2. Learns(e, key) = [mem EXCEPT ![e] = m]
    BY DEF Learns, Memories
  <1>3. (mem[e].loaded => l) /\ (e \notin Anew \cup Natural => l)
    BY DEF Anew
  <1> HIDE DEF k, l
  <1>4. m \in Memories /\ m.fk = mem[e].fk /\ m.up = mem[e].up /\ m.loaded = l
    BY <1>1 DEF Memories
  <1> HIDE DEF m
  <1> QED
    BY <1>2, <1>3, <1>4

\* A tag that is found stored, or is to be saved.
LEMMA ExistsWhole ==
    ASSUME SaveIInv, WholeIInv, Exists
    PROVE  WholeIInv'
  <1>1. /\ stack # <<>> /\ Top.at = "exists"
        /\ UNCHANGED <<row, join, unsure>> /\ UNCHANGED <<slice, before, tx>>
    BY DEF Exists, ghosts, db
  <1>2. /\ Top \in SaveFrame /\ Top.e \in Entities /\ FrameWhole(SaveState, Top)
    BY <1>1, TopWhole
  <1>3. CASE row[Top.e].n > 0 /\ mem' = Learns(Top.e, FALSE) /\ SaveReturns
    <2>1. mem \in [Entities -> Memories] /\ row \in [Entities -> StoredRows] /\ SaveState \in SaveStates
      BY StateIs DEF WholeIInv
    <2>4. /\ mem' \in [Entities -> Memories]
          /\ \A e \in Entities : /\ mem'[e].fk = mem[e].fk /\ mem'[e].up = mem[e].up
                                 /\ e # Top.e => mem'[e].loaded = mem[e].loaded
                                 /\ mem[e].loaded => mem'[e].loaded
      BY <1>2, <1>3, <2>1, LearnsFacts
    <2>5. SaveState' \in SaveStates
      BY <1>1, <2>1, <2>4, StateIs, StateNext
    <2>6. \A e \in Entities \ (unsure \cup Anew) : e = Top.e => row[e].n = 1
      BY <1>3 DEF WholeIInv, Sure
    <2>7. Sure'
      BY <1>1, <2>4, <2>6 DEF WholeIInv, Sure
    <2>8. Keeps(SaveState, SaveState')
      <3>1. \A e \in Entities : mem'[e].fk = mem[e].fk /\ mem'[e].up = mem[e].up
        BY <2>4
      <3>2. Has \in [Entities -> SUBSET Entities]
        BY SaveConstantsOK
      <3> QED
        BY <1>1, <3>1, <3>2, StateIs, StateNext DEF Keeps, ChildWhole, UpWhole, TagsWhole
    <2> QED
      BY <1>1, <1>3, <2>5, <2>7, <2>8, ReturnsWhole
  <1>4. CASE Put([Top EXCEPT !.at = "write"]) /\ UNCHANGED <<mem, verdict>>
    <2> DEFINE f == [Top EXCEPT !.at = "write"]
    <2>1. /\ f \in SaveFrame /\ f.e = Top.e /\ f.at = "write" /\ f.left = Top.left
          /\ f.todo = Top.todo /\ f.item = Top.item
      BY <1>2, FrameAt
    <2>2. Put(f)
      BY <1>4
    <2> HIDE DEF f
    <2>3. Top.left = Kinds(Top.e) /\ Top.item = NoEntity
      BY <1>1, <1>2 DEF FrameWhole
    <2>4. SaveState.slice[f.e] # NoEntity => Tags[f.e] # {}
      BY <1>2, <2>1, StateIs DEF WholeIInv, Tagged
    <2>5. FrameWhole(SaveState, f) /\ HasWhole(SaveState, f, {})
      BY <2>1, <2>3, <2>4, FreshWhole
    <2>6. Still
      BY <1>1, <1>4 DEF Still
    <2> QED
      BY <1>1, <1>4, <2>1, <2>2, <2>5, <2>6, StillPut
  <1>5. CASE Ends("failed") /\ UNCHANGED mem
    <2>1. Still
      BY <1>1, <1>5 DEF Still
    <2> QED
      BY <1>1, <1>5, <2>1, StillFails
  <1> QED
    BY <1>3, <1>4, <1>5 DEF Exists

\* The join rows.
LEMMA LinkWhole ==
    ASSUME SaveIInv, WholeIInv, Link
    PROVE  WholeIInv'
  <1> USE SaveConstantsOK
  <1>1. /\ stack # <<>> /\ Top.at = "tags" /\ Top.item # NoEntity
        /\ UNCHANGED <<mem, row, unsure>> /\ UNCHANGED <<slice, before, tx>>
    BY DEF Link
  <1>2. /\ Top \in SaveFrame /\ Top.e \in Entities
        /\ FrameWhole(SaveState, Top) /\ HasWhole(SaveState, Top, {})
    BY <1>1, TopWhole
  <1>3. /\ SaveState \in SaveStates /\ SaveState.slice = slice /\ SaveState.join = join
        /\ slice[Top.e] \in (SUBSET Entities) \cup {NoEntity}
    BY <1>2, StateIs DEF WholeIInv
  <1>4. /\ slice[Top.e] # NoEntity /\ Top.item \in slice[Top.e] /\ Top.item \in Entities
    BY <1>1, <1>2, <1>3 DEF FrameWhole
  <1>5. CASE /\ join' = join \cup {<<Top.e, Top.item>>} /\ Put([Top EXCEPT !.item = NoEntity])
             /\ UNCHANGED verdict
    <2>1. SaveState' \in SaveStates
      BY <1>1, <1>2, <1>3, <1>4, <1>5, StateIs, StateNext
    <2>2. Sure'
      BY <1>1 DEF WholeIInv, Sure
    <2>3. \A e \in Entities : slice[e] # NoEntity /\ TagsWhole(SaveState, e) => TagsWhole(SaveState', e)
      <3>1. SUFFICES ASSUME NEW e \in Entities, TagsWhole(SaveState, e)
                     PROVE  TagsWhole(SaveState', e)
        OBVIOUS
      <3>2. {pair \in join : pair[1] = e} = {e} \X slice[e]
        BY <3>1, <1>3 DEF TagsWhole
      <3>3. CASE e = Top.e
        <4>1. {pair \in join' : pair[1] = e} = {pair \in join : pair[1] = e}
          BY <1>4, <1>5, <3>2, <3>3
        <4> QED
          BY <1>1, <3>2, <4>1, StateNext DEF TagsWhole
      <3>4. CASE e # Top.e
        <4>1. {pair \in join' : pair[1] = e} = {pair \in join : pair[1] = e}
          BY <1>5, <3>4
        <4> QED
          BY <1>1, <3>2, <4>1, StateNext DEF TagsWhole
      <3> QED
        BY <3>3, <3>4
    <2>4. Keeps(SaveState, SaveState')
      BY <1>1, <1>5, <2>3, StateIs, StateNext DEF Keeps, ChildWhole, UpWhole
    <2> DEFINE f == [Top EXCEPT !.item = NoEntity]
    <2>5. /\ f \in SaveFrame /\ f.e = Top.e /\ f.at = "tags" /\ f.left = Top.left
          /\ f.todo = Top.todo /\ f.item = NoEntity
      BY <1>1, <1>2, FrameItem
    <2>6. Put(f)
      BY <1>5
    <2> HIDE DEF f
    <2>7. FrameWhole(SaveState', Top) /\ HasWhole(SaveState', Top, {})
      BY <1>2, <2>4, FrameKept
    <2>8. SaveState'.slice = slice /\ SaveState'.join = join' /\ <<f.e, Top.item>> \in join'
      BY <1>1, <1>5, <2>5, StateNext
    <2>9. FrameWhole(SaveState', f)
      BY <1>1, <1>3, <1>4, <2>5, <2>7, <2>8 DEF FrameWhole
    <2>10. HasWhole(SaveState', f, {})
      BY <1>1, <2>5, <2>7 DEF HasWhole
    <2> QED
      BY <1>1, <1>5, <2>1, <2>2, <2>4, <2>5, <2>6, <2>9, <2>10, PutWhole
  <1>6. CASE Ends("failed") /\ UNCHANGED join
    <2>1. Still
      BY <1>1, <1>6 DEF Still
    <2> QED
      BY <1>1, <1>6, <2>1, StillFails
  <1> QED
    BY <1>5, <1>6 DEF Link

LEMMA PurgeWhole ==
    ASSUME SaveIInv, WholeIInv, Purge
    PROVE  WholeIInv'
  <1> USE SaveConstantsOK
  <1>1. /\ stack # <<>> /\ Top.at = "tags" /\ Top.item = NoEntity /\ Top.todo = {}
        /\ UNCHANGED <<mem, row, unsure>> /\ UNCHANGED <<slice, before, tx>>
    BY DEF Purge
  <1>2. /\ Top \in SaveFrame /\ Top.e \in Entities /\ Top.left \subseteq {"has", "up", "tags"}
        /\ FrameWhole(SaveState, Top) /\ HasWhole(SaveState, Top, {})
    BY <1>1, TopWhole
  <1>3. /\ SaveState \in SaveStates /\ SaveState.slice = slice /\ SaveState.join = join
        /\ slice[Top.e] \in (SUBSET Entities) \cup {NoEntity}
        /\ join \in SUBSET (Entities \X Entities)
    BY <1>2, StateIs DEF WholeIInv
  <1>4. /\ slice[Top.e] # NoEntity /\ Kept(Top.e) = slice[Top.e] /\ slice[Top.e] \in SUBSET Entities
        /\ \A t \in slice[Top.e] : <<Top.e, t>> \in join
    BY <1>1, <1>2, <1>3 DEF FrameWhole, Kept, Tagged
  <1>5. CASE /\ join' = join \ Stale(Top.e) /\ Put([Top EXCEPT !.at = "walk"]) /\ UNCHANGED verdict
    <2>0. join' = {pair \in join : pair[1] = Top.e => pair[2] \in slice[Top.e]}
      BY <1>4, <1>5 DEF Stale
    <2>1. SaveState' \in SaveStates
      BY <1>1, <1>3, <2>0, StateIs, StateNext
    <2>2. Sure'
      BY <1>1 DEF WholeIInv, Sure
    <2>3. \A e \in Entities : e # Top.e /\ TagsWhole(SaveState, e) => TagsWhole(SaveState', e)
      <3>1. SUFFICES ASSUME NEW e \in Entities, e # Top.e, TagsWhole(SaveState, e)
                     PROVE  TagsWhole(SaveState', e)
        OBVIOUS
      <3>2. {pair \in join' : pair[1] = e} = {pair \in join : pair[1] = e}
        BY <2>0, <3>1
      <3> QED
        BY <1>1, <1>3, <3>1, <3>2, StateNext DEF TagsWhole
    <2>4. TagsWhole(SaveState', Top.e)
      <3>1. \A pair \in join : pair = <<pair[1], pair[2]>>
        BY <1>3
      <3>2. {pair \in join' : pair[1] = Top.e} = {Top.e} \X slice[Top.e]
        BY <1>4, <2>0, <3>1
      <3> QED
        BY <1>1, <3>2, StateNext DEF TagsWhole
    <2>5. \A e \in Entities : slice[e] # NoEntity => \A t \in slice[e] : <<e, t>> \in join => <<e, t>> \in join'
      BY <2>0
    <2>6. Keeps(SaveState, SaveState')
      BY <1>1, <2>3, <2>4, <2>5, StateIs, StateNext DEF Keeps, ChildWhole, UpWhole
    <2>7. \A pair \in join : Wanted(pair) => pair \in join'
      BY <1>4, <2>0 DEF Wanted, Tagged
    <2> DEFINE f == [Top EXCEPT !.at = "walk"]
    <2>8. /\ f \in SaveFrame /\ f.e = Top.e /\ f.at = "walk" /\ f.left = Top.left
          /\ f.todo = Top.todo /\ f.item = NoEntity
      BY <1>1, <1>2, FrameAt
    <2>9. Put(f)
      BY <1>5
    <2> HIDE DEF f
    <2>10. FrameWhole(SaveState', Top) /\ HasWhole(SaveState', Top, {})
      BY <1>2, <2>6, FrameKept
    <2>11. FrameWhole(SaveState', f)
      BY <1>1, <1>2, <2>4, <2>8, <2>10 DEF FrameWhole
    <2>12. HasWhole(SaveState', f, {})
      BY <1>1, <2>8, <2>10 DEF HasWhole
    <2> QED
      BY <1>1, <1>5, <2>1, <2>2, <2>6, <2>7, <2>8, <2>9, <2>11, <2>12, PutWhole
  <1>6. CASE Ends("failed") /\ UNCHANGED join
    <2>1. Still
      BY <1>1, <1>6 DEF Still
    <2> QED
      BY <1>1, <1>6, <2>1, StillFails
  <1> QED
    BY <1>5, <1>6 DEF Purge

\* The entity's own row is written.
LEMMA WritesOn ==
    ASSUME WholeIInv, stack # <<>>, Top.at = "write", mem' \in [Entities -> Memories],
           row' \in [Entities -> StoredRows], UNCHANGED <<join, unsure>>,
           UNCHANGED <<slice, before, tx, verdict>>, Sure',
           \A e \in Entities : mem'[e].fk = mem[e].fk /\ mem'[e].up = mem[e].up,
           \A e \in Entities \ {Top.e} : row'[e] = row[e],
           \/ Top.e \in unsure \/ Top.e \in Bare \/ Top.e \in Anew
           \/ row'[Top.e].n = 1 /\ row'[Top.e].fk = mem[Top.e].fk /\ row'[Top.e].up = mem[Top.e].up,
           Put([Top EXCEPT !.at = "walk"])
    PROVE  WholeIInv'
  <1> USE SaveConstantsOK
  <1>1. /\ Top \in SaveFrame /\ Top.e \in Entities /\ Top.left \subseteq {"has", "up", "tags"}
        /\ FrameWhole(SaveState, Top) /\ HasWhole(SaveState, Top, {})
    BY TopWhole
  <1>2. SaveState' \in SaveStates
    BY StateIs, StateNext DEF WholeIInv
  <1>a. UpWhole(SaveState', Top.e)
    BY <1>1, StateNext DEF UpWhole, WholeIInv, KeyedKnown
  <1>3. \A e \in Entities : mem[Top.e].fk = e => ChildWhole(SaveState', Top.e, e)
    BY <1>1, <1>a, StateNext DEF ChildWhole
  <1>4. Keeps(SaveState, SaveState')
    <2>1. \A e \in Entities : \A c \in Has[e] :
              /\ ChildWhole(SaveState, c, e) => ChildWhole(SaveState', c, e)
              /\ SaveState.mem[c].fk = e => SaveState'.mem[c].fk = e
      <3> SUFFICES ASSUME NEW e \in Entities, NEW c \in Has[e]
                   PROVE  /\ ChildWhole(SaveState, c, e) => ChildWhole(SaveState', c, e)
                          /\ SaveState.mem[c].fk = e => SaveState'.mem[c].fk = e
        OBVIOUS
      <3>1. c \in Entities
        OBVIOUS
      <3>2. SaveState.mem[c].fk = e => SaveState'.mem[c].fk = e
        BY <3>1, StateIs, StateNext
      <3>3. CASE c = Top.e
        BY <1>3, <3>2, <3>3, StateIs DEF ChildWhole
      <3>4. CASE c # Top.e
        BY <3>1, <3>4, StateIs, StateNext DEF ChildWhole, UpWhole
      <3> QED
        BY <3>2, <3>3, <3>4
    <2>2. \A e \in Entities : TagsWhole(SaveState, e) => TagsWhole(SaveState', e)
      BY StateIs, StateNext DEF TagsWhole
    <2>3. \A e \in Entities : UpWhole(SaveState, e) => UpWhole(SaveState', e)
      <3>1. \A e \in Entities \ {Top.e} : UpWhole(SaveState, e) => UpWhole(SaveState', e)
        BY StateIs, StateNext DEF UpWhole
      <3> QED
        BY <1>a, <3>1
    <2> QED
      BY <2>1, <2>2, <2>3, StateIs, StateNext DEF Keeps
  <1> DEFINE f == [Top EXCEPT !.at = "walk"]
  <1>5. /\ f \in SaveFrame /\ f.e = Top.e /\ f.at = "walk" /\ f.left = Top.left
        /\ f.todo = Top.todo /\ f.item = Top.item
    BY <1>1, FrameAt
  <1>6. Put(f)
    OBVIOUS
  <1> HIDE DEF f
  <1>7. FrameWhole(SaveState', Top) /\ HasWhole(SaveState', Top, {})
    BY <1>1, <1>4, FrameKept
  <1>8. FrameWhole(SaveState', f)
    BY <1>1, <1>5, <1>7, <1>a DEF FrameWhole
  <1>9. HasWhole(SaveState', f, {})
    BY <1>5, <1>7 DEF HasWhole
  <1>10. \A e \in Entities : Top.e \in Has[e] /\ SaveState'.mem[Top.e].fk = e => ChildWhole(SaveState', Top.e, e)
    BY <1>1, <1>3, StateNext
  <1>11. \A pair \in join : Wanted(pair) => pair \in join'
    OBVIOUS
  <1> QED
    BY <1>2, <1>4, <1>5, <1>6, <1>8, <1>9, <1>10, <1>11, PutWhole

\* The row the columns make, and what becomes of the others.
LEMMA Written ==
    ASSUME SaveState \in SaveStates, NEW e \in Entities, NEW n \in Nat,
           row' = [row EXCEPT ![e] = Columns(e, n)]
    PROVE  /\ row' \in [Entities -> StoredRows] /\ \A d \in Entities \ {e} : row'[d] = row[d]
           /\ row'[e].n = n /\ row'[e].fk = mem[e].fk /\ row'[e].up = mem[e].up
  <1>1. mem[e] \in Memories /\ row \in [Entities -> StoredRows]
    BY StateIs
  <1>2. /\ Columns(e, n) \in StoredRows /\ Columns(e, n).n = n /\ Columns(e, n).fk = mem[e].fk
        /\ Columns(e, n).up = mem[e].up
    BY <1>1 DEF Columns, StoredRows, Memories
  <1> QED
    BY <1>1, <1>2

LEMMA InsertWhole ==
    ASSUME SaveIInv, WholeIInv, Insert
    PROVE  WholeIInv'
  <1> DEFINE e == Top.e
  <1>1. /\ stack # <<>> /\ Top.at = "write" /\ ~mem[e].loaded /\ (e \in Natural => row[e].n = 0)
        /\ row' = [row EXCEPT ![e] = Columns(e, row[e].n + 1)]
        /\ mem' = Learns(e, TRUE)
        /\ UNCHANGED <<join, unsure>> /\ UNCHANGED <<slice, before, tx, verdict>>
        /\ Put([Top EXCEPT !.at = "walk"])
    BY DEF Insert
  <1>2. e \in Entities /\ SaveState \in SaveStates
    BY <1>1, TopWhole DEF WholeIInv
  <1> HIDE DEF e
  <1>3. mem \in [Entities -> Memories] /\ row \in [Entities -> StoredRows] /\ row[e].n \in Nat
    <2>1. mem \in [Entities -> Memories] /\ row \in [Entities -> StoredRows]
      BY <1>2, StateIs
    <2> QED
      BY <1>2, <2>1 DEF StoredRows
  <1>4. /\ row' \in [Entities -> StoredRows] /\ \A d \in Entities \ {e} : row'[d] = row[d]
        /\ row'[e].n = row[e].n + 1 /\ row'[e].fk = mem[e].fk /\ row'[e].up = mem[e].up
    <2>1. PICK n \in Nat : n = row[e].n + 1
      BY <1>3
    <2>2. row' = [row EXCEPT ![e] = Columns(e, n)]
      BY <1>1, <2>1
    <2>3. /\ row' \in [Entities -> StoredRows] /\ \A d \in Entities \ {e} : row'[d] = row[d]
          /\ row'[e].n = n /\ row'[e].fk = mem[e].fk /\ row'[e].up = mem[e].up
      BY <1>2, <2>2, Written
    <2> QED
      BY <2>1, <2>3
  <1>7. /\ mem' \in [Entities -> Memories]
        /\ \A d \in Entities : mem'[d].fk = mem[d].fk /\ mem'[d].up = mem[d].up
        /\ \A d \in Entities \ {e} : mem'[d].loaded = mem[d].loaded
        /\ e \notin Anew \cup Natural => mem'[e].loaded
    BY <1>1, <1>2, <1>3, LearnsFacts
  <1>8. e \notin unsure \cup Anew => row[e].n = 0
    BY <1>1, <1>2 DEF WholeIInv, Sure
  <1>9. Sure'
    <2>1. \A d \in Entities \ (unsure \cup Anew) : d # e =>
             /\ row'[d].n \in {0, 1} /\ (mem'[d].loaded => row'[d].n = 1)
             /\ d \notin Natural /\ row'[d].n = 1 => mem'[d].loaded
      BY <1>4, <1>7 DEF WholeIInv, Sure
    <2>2. e \notin unsure \cup Anew => row'[e].n = 1
      BY <1>4, <1>8
    <2> QED
      BY <1>1, <1>7, <2>1, <2>2 DEF Sure
  <1>10. e \in unsure \/ e \in Anew \/ (row'[e].n = 1 /\ row'[e].fk = mem[e].fk /\ row'[e].up = mem[e].up)
    BY <1>4, <1>8
  <1> QED
    BY <1>1, <1>4, <1>7, <1>9, <1>10, WritesOn DEF e

LEMMA UpdateWhole ==
    ASSUME SaveIInv, WholeIInv, Update
    PROVE  WholeIInv'
  <1> DEFINE e == Top.e
  <1>1. /\ stack # <<>> /\ Top.at = "write" /\ mem[e].loaded
        /\ row' = IF row[e].n = 0 THEN row ELSE [row EXCEPT ![e] = Columns(e, row[e].n)]
        /\ UNCHANGED <<join, unsure>> /\ UNCHANGED <<slice, before, tx, verdict>> /\ mem' = mem
        /\ Put([Top EXCEPT !.at = "walk"])
    BY DEF Update
  <1>2. e \in Entities /\ SaveState \in SaveStates
    BY <1>1, TopWhole DEF WholeIInv
  <1> HIDE DEF e
  <1>3. mem \in [Entities -> Memories] /\ row \in [Entities -> StoredRows] /\ row[e].n \in Nat
    <2>1. mem \in [Entities -> Memories] /\ row \in [Entities -> StoredRows]
      BY <1>2, StateIs
    <2> QED
      BY <1>2, <2>1 DEF StoredRows
  <1>4. /\ row' \in [Entities -> StoredRows] /\ \A d \in Entities \ {e} : row'[d] = row[d]
        /\ row'[e].n = row[e].n
        /\ row[e].n # 0 => row'[e].fk = mem[e].fk /\ row'[e].up = mem[e].up
    BY <1>1, <1>2, <1>3, Written
  <1>5. e \notin unsure \cup Anew => row[e].n = 1
    BY <1>1, <1>2 DEF WholeIInv, Sure
  <1>6. \A d \in Entities : row'[d].n = row[d].n
    BY <1>4
  <1>7. Sure'
    BY <1>1, <1>6 DEF WholeIInv, Sure
  <1>8. e \in unsure \/ e \in Anew \/ (row'[e].n = 1 /\ row'[e].fk = mem[e].fk /\ row'[e].up = mem[e].up)
    BY <1>4, <1>5
  <1> QED
    BY <1>1, <1>3, <1>4, <1>7, <1>8, WritesOn DEF e

\* It fails with its row written, or not.
LEMMA WriteFailsWhole ==
    ASSUME SaveIInv, WholeIInv, InsertUnheard \/ UpdateFails
    PROVE  WholeIInv'
  <1> DEFINE e == Top.e
  <1>1. /\ stack # <<>> /\ Ends("failed") /\ mem' = mem /\ UNCHANGED join
        /\ UNCHANGED <<slice, before, tx>>
    BY DEF InsertUnheard, UpdateFails
  <1>2. e \in Entities /\ SaveState \in SaveStates
    BY <1>1, TopWhole DEF WholeIInv
  <1>3. /\ mem \in [Entities -> Memories] /\ row \in [Entities -> StoredRows] /\ row[e].n \in Nat
        /\ unsure \in SUBSET Entities
    <2>1. mem \in [Entities -> Memories] /\ row \in [Entities -> StoredRows] /\ unsure \in SUBSET Entities
      BY <1>2, StateIs
    <2> QED
      BY <1>2, <2>1 DEF StoredRows
  <1>4. /\ row' \in [Entities -> StoredRows] /\ unsure' \in SUBSET Entities
        /\ \A d \in Entities \ unsure' : row'[d].n = row[d].n /\ d \notin unsure
    <2>1. CASE InsertUnheard
      <3>1. row' = [row EXCEPT ![e] = Columns(e, row[e].n + 1)] /\ unsure' = unsure \cup {e}
        BY <2>1 DEF InsertUnheard
      <3> HIDE DEF e
      <3>2. PICK n \in Nat : n = row[e].n + 1
        BY <1>3
      <3>3. row' = [row EXCEPT ![e] = Columns(e, n)]
        BY <3>1, <3>2
      <3>4. row' \in [Entities -> StoredRows] /\ \A d \in Entities \ {e} : row'[d] = row[d]
        BY <1>2, <3>3, Written
      <3> QED
        BY <1>2, <1>3, <3>1, <3>4
    <2>2. CASE UpdateFails
      <3>1. /\ \/ row' = row
               \/ row' = [row EXCEPT ![e] = Columns(e, row[e].n)]
            /\ unsure' = unsure
        BY <2>2 DEF UpdateFails
      <3> HIDE DEF e
      <3> QED
        BY <1>2, <1>3, <3>1, Written
    <2> QED
      BY <2>1, <2>2
  <1>5. Sure'
    BY <1>1, <1>4 DEF WholeIInv, Sure
  <1>6. SaveState' \in SaveStates
    BY <1>1, <1>2, <1>4, StateIs, StateNext
  <1>7. \A pair \in join : Wanted(pair) => pair \in join'
    BY <1>1
  <1> QED
    BY <1>1, <1>5, <1>6, <1>7, FailsWhole

LEMMA NoneWhole == \A st : StackWhole(st, <<>>)
  BY EmptySeq DEF StackWhole

LEMMA SaveInitWhole == SaveInit => WholeIInv
  <1> SUFFICES ASSUME SaveInit PROVE WholeIInv
    OBVIOUS
  <1> USE SaveConstantsOK
  <1>1. PICK stored \in {{}, Roots \cup Natural} :
          /\ mem = [e \in Entities |-> [key |-> e \in Natural \cup stored, fk |-> NoEntity, up |-> NoEntity,
                                       loaded |-> e \in stored /\ e \in Roots]]
          /\ row = [e \in Entities |-> IF e \in stored THEN [Nothing EXCEPT !.n = 1] ELSE Nothing]
          /\ join = {pair \in Roots \X Natural : stored # {} /\ pair[2] \in Tags[pair[1]]}
    BY DEF SaveInit
  <1>2. /\ slice = [e \in Entities |-> NoEntity] /\ tx = NoEntity /\ stack = <<>>
        /\ verdict.how = "none" /\ unsure = {} /\ before.keyed = {}
    BY DEF SaveInit
  <1>3. \A e \in Entities : /\ row[e] \in StoredRows /\ row[e].n = IF e \in stored THEN 1 ELSE 0
                            /\ mem[e] \in Memories /\ (mem[e].loaded <=> e \in stored /\ e \in Roots)
    <2> SUFFICES ASSUME NEW e \in Entities
                 PROVE  /\ row[e] \in StoredRows /\ row[e].n = IF e \in stored THEN 1 ELSE 0
                        /\ mem[e] \in Memories /\ (mem[e].loaded <=> e \in stored /\ e \in Roots)
      OBVIOUS
    <2>1. /\ Nothing \in StoredRows /\ Nothing.n = 0
          /\ [Nothing EXCEPT !.n = 1] \in StoredRows /\ [Nothing EXCEPT !.n = 1].n = 1
      BY DEF Nothing, StoredRows
    <2>2. row[e] = IF e \in stored THEN [Nothing EXCEPT !.n = 1] ELSE Nothing
      BY <1>1
    <2>3. mem[e] = [key |-> e \in Natural \cup stored, fk |-> NoEntity, up |-> NoEntity,
                    loaded |-> e \in stored /\ e \in Roots]
      BY <1>1
    <2>4. mem[e] \in Memories /\ (mem[e].loaded <=> e \in stored /\ e \in Roots)
      <3> DEFINE key == e \in Natural \cup stored
                 loaded == e \in stored /\ e \in Roots
      <3>1. mem[e] = [key |-> key, fk |-> NoEntity, up |-> NoEntity, loaded |-> loaded]
        BY <2>3
      <3>2. key \in BOOLEAN /\ loaded \in BOOLEAN
        OBVIOUS
      <3> HIDE DEF key, loaded
      <3>3. mem[e] \in Memories /\ mem[e].loaded = loaded
        BY <3>1, <3>2 DEF Memories
      <3> QED
        BY <3>3 DEF loaded
    <2> QED
      BY <2>1, <2>2, <2>4
  <1>4. mem \in [Entities -> Memories] /\ row \in [Entities -> StoredRows]
    BY <1>1, <1>3
  <1>5. join \in SUBSET (Entities \X Entities)
    BY <1>1
  <1>6. SaveState \in SaveStates
    BY <1>2, <1>4, <1>5, StateIs
  <1>7. Sure
    BY <1>1, <1>3 DEF Sure
  <1>8. \A e \in Entities : ~Tagged(e)
    BY <1>2 DEF Tagged
  <1> QED
    BY <1>2, <1>6, <1>7, <1>8, NoneWhole DEF WholeIInv, Taken, DoneWhole, JoinKept, KeyedKnown

\* Between two Saves.
LEMMA IdleWhole ==
    ASSUME WholeIInv, stack' = <<>>, SaveState' \in SaveStates, Taken', Sure',
           \A e \in Entities : Tagged(e)' => Tags[e] # {},
           before' = before, \A e \in Entities : mem'[e].up = mem[e].up,
           \/ verdict'.how = "none"
           \/ stack = <<>> /\ UNCHANGED <<mem, row, join, slice, unsure, before, verdict>>
    PROVE  WholeIInv'
  <1>1. StackWhole(SaveState', stack')
    BY NoneWhole
  <1>k. KeyedKnown'
    BY DEF WholeIInv, KeyedKnown
  <1>2. CASE verdict'.how = "none"
    BY <1>1, <1>2, <1>k DEF WholeIInv, DoneWhole, JoinKept
  <1>3. CASE stack = <<>> /\ UNCHANGED <<mem, row, join, slice, unsure, before, verdict>>
    <2>1. DoneWhole'
      BY <1>3 DEF WholeIInv, DoneWhole, UpWritten, Tagged
    <2>2. JoinKept'
      BY <1>3 DEF WholeIInv, JoinKept, Wanted, Tagged
    <2> QED
      BY <1>1, <1>k, <2>1, <2>2 DEF WholeIInv
  <1> QED
    BY <1>2, <1>3

LEMMA ApplicationWhole ==
    ASSUME WholeIInv,
           \/ Edit \/ Begin \/ Commit \/ Rollback
           \/ \E e \in Roots : Delete(e) \/ LoadEntity(e)
    PROVE  WholeIInv'
  <1> USE SaveConstantsOK
  <1>0. /\ mem \in [Entities -> Memories] /\ row \in [Entities -> StoredRows]
        /\ join \in SUBSET (Entities \X Entities) /\ unsure \in SUBSET Entities
        /\ slice \in [Entities -> (SUBSET Entities) \cup {NoEntity}]
        /\ Taken /\ Sure /\ \A e \in Entities : Tagged(e) => Tags[e] # {}
        /\ before.keyed \in SUBSET Entities
    BY StateIs DEF WholeIInv
  <1>1. CASE Edit
    <2>1. PICK e \in Roots : /\ Tags[e] # {}
                             /\ \E s \in SUBSET Tags[e] : slice' = [slice EXCEPT ![e] = s]
      BY <1>1 DEF Edit
    <2>2. PICK s \in SUBSET Tags[e] : slice' = [slice EXCEPT ![e] = s]
      BY <2>1
    <2>3. e \in Entities /\ s \in SUBSET Entities
      BY <2>1, <2>2
    <2>4. slice' \in [Entities -> (SUBSET Entities) \cup {NoEntity}]
      BY <1>0, <2>2, <2>3
    <2>5. \A d \in Entities : Tagged(d)' => Tags[d] # {}
      BY <1>0, <2>1, <2>2, <2>3 DEF Tagged
    <2>6. /\ stack' = <<>> /\ verdict'.how = "none"
          /\ UNCHANGED <<mem, row, join, tx, unsure, before>>
      BY <1>1 DEF Edit, db, ghosts
    <2>7. Sure' /\ Taken'
      BY <1>0, <2>6 DEF Sure, Taken
    <2>8. SaveState' \in SaveStates
      BY <1>0, <2>4, <2>6, StateNext
    <2> QED
      BY <2>5, <2>6, <2>7, <2>8, IdleWhole
  <1>2. CASE Begin \/ Commit
    <2>1. /\ stack = <<>> /\ stack' = <<>> /\ UNCHANGED <<mem, row, join, slice, unsure, before, verdict>>
          /\ tx' \in {<<row, join>>, NoEntity}
      BY <1>2 DEF Begin, Commit, db, ghosts
    <2>2. Sure' /\ Taken' /\ \A d \in Entities : Tagged(d)' => Tags[d] # {}
      BY <1>0, <2>1 DEF Sure, Taken, Tagged
    <2>3. SaveState' \in SaveStates
      BY <1>0, <2>1, StateNext
    <2> QED
      BY <2>1, <2>2, <2>3, IdleWhole
  <1>3. CASE Rollback
    <2>1. /\ tx # NoEntity /\ row' = tx[1] /\ join' = tx[2] /\ tx' = NoEntity
          /\ unsure' = unsure \cup {e \in Entities : row[e] # tx[1][e]}
          /\ verdict'.how = "none" /\ UNCHANGED <<mem, slice, before>> /\ stack' = <<>>
      BY <1>3 DEF Rollback
    <2>2. tx \in [Entities -> StoredRows] \X SUBSET (Entities \X Entities)
      BY <1>0, <2>1 DEF Taken
    <2>3. row' \in [Entities -> StoredRows] /\ join' \in SUBSET (Entities \X Entities)
      BY <2>1, <2>2
    <2>4. \A e \in Entities \ unsure' : e \notin unsure /\ row'[e] = row[e]
      BY <2>1
    <2>5. Sure'
      BY <1>0, <2>1, <2>4 DEF Sure
    <2>6. Taken' /\ \A d \in Entities : Tagged(d)' => Tags[d] # {}
      BY <1>0, <2>1 DEF Taken, Tagged
    <2>7. SaveState' \in SaveStates
      BY <1>0, <2>1, <2>3, StateNext
    <2> QED
      BY <2>1, <2>5, <2>6, <2>7, IdleWhole
  <1>4. ASSUME NEW e \in Roots, Delete(e) PROVE WholeIInv'
    <2>1. /\ row' = [row EXCEPT ![e] = Nothing] /\ unsure' = unsure \cup {e}
          /\ verdict'.how = "none" /\ UNCHANGED <<mem, slice, join, tx, before>> /\ stack' = <<>>
      BY <1>4 DEF Delete
    <2>2. Nothing \in StoredRows /\ e \in Entities
      BY DEF Nothing, StoredRows
    <2>3. row' \in [Entities -> StoredRows] /\ unsure' \in SUBSET Entities
      BY <1>0, <2>1, <2>2
    <2>4. Sure'
      BY <1>0, <2>1 DEF Sure
    <2>5. Taken' /\ \A d \in Entities : Tagged(d)' => Tags[d] # {}
      BY <1>0, <2>1 DEF Taken, Tagged
    <2>6. SaveState' \in SaveStates
      BY <1>0, <2>1, <2>3, StateNext
    <2> QED
      BY <2>1, <2>4, <2>5, <2>6, IdleWhole
  <1>5. ASSUME NEW e \in Roots, LoadEntity(e) PROVE WholeIInv'
    <2>1. /\ Tags[e] # {} /\ slice' = [slice EXCEPT ![e] = Joined(e)]
          /\ mem' = [t \in Entities |-> IF t \in Joined(e)
                                        THEN [mem[t] EXCEPT !.key = TRUE, !.loaded = TRUE] ELSE mem[t]]
          /\ verdict'.how = "none" /\ UNCHANGED <<row, join, tx, unsure, before>> /\ stack' = <<>>
      BY <1>5 DEF LoadEntity, db, ghosts
    <2>2. Joined(e) \in SUBSET Entities /\ e \in Entities /\ \A t \in Joined(e) : row[t].n > 0
      BY DEF Joined
    <2>3. slice' \in [Entities -> (SUBSET Entities) \cup {NoEntity}]
      BY <1>0, <2>1, <2>2
    <2>4. ASSUME NEW k \in Memories
          PROVE  LET m == [k EXCEPT !.key = TRUE, !.loaded = TRUE]
                 IN  m \in Memories /\ m.loaded /\ m.up = k.up
      BY DEF Memories
    <2>5. /\ mem' \in [Entities -> Memories]
          /\ \A t \in Entities : IF t \in Joined(e) THEN mem'[t].loaded ELSE mem'[t] = mem[t]
          /\ \A t \in Entities : mem'[t].up = mem[t].up
      BY <1>0, <2>1, <2>4
    <2>6. \A t \in Entities \ (unsure \cup Anew) : t \in Joined(e) => row[t].n = 1
      BY <1>0, <2>2 DEF Sure
    <2>7. Sure'
      BY <1>0, <2>1, <2>5, <2>6 DEF Sure
    <2>8. Taken' /\ \A d \in Entities : Tagged(d)' => Tags[d] # {}
      BY <1>0, <2>1, <2>2 DEF Taken, Tagged
    <2>9. SaveState' \in SaveStates
      BY <1>0, <2>1, <2>3, <2>5, StateNext
    <2> QED
      BY <2>1, <2>5, <2>7, <2>8, <2>9, IdleWhole
  <1> QED
    BY <1>1, <1>2, <1>3, <1>4, <1>5

LEMMA BeginsWhole ==
    ASSUME WholeIInv, NEW e \in Roots, Save(e)
    PROVE  WholeIInv'
  <1> DEFINE f == Frame(e, FALSE)
  <1>1. /\ stack' = <<f>> /\ verdict'.how = "none" /\ before'.join = join /\ before'.keyed = Keyed
        /\ UNCHANGED <<mem, slice, row, join, tx, unsure>>
    BY DEF Save, db
  <1>2. e \in Entities /\ e \notin ByValue
    BY SaveConstantsOK
  <1>3. f \in SaveFrame /\ f.e = e /\ f.at = "write" /\ f.left = Kinds(e) /\ f.item = NoEntity
    BY <1>2, FrameIs
  <1> HIDE DEF f
  <1>4. KeyedKnown' /\ SaveState' \in SaveStates
    <2>1. KeyedKnown'
      BY <1>1 DEF KeyedKnown, Keyed
    <2> QED
      BY <1>1, <2>1, StateIs, StateNext DEF WholeIInv, KeyedKnown
  <1>5. SaveState'.slice[e] # NoEntity => Tags[e] # {}
    BY <1>1, <1>2, StateNext DEF WholeIInv, Tagged
  <1>6. FrameWhole(SaveState', f) /\ HasWhole(SaveState', f, {})
    BY <1>3, <1>5, FreshWhole
  <1>7. StackWhole(SaveState', <<f>>)
    <2>1. <<f>> \in Seq(SaveFrame) /\ Len(<<f>>) = 1 /\ <<f>>[1] = f
      BY <1>3
    <2> QED
      BY <1>2, <1>3, <1>6, <2>1 DEF StackWhole
  <1>8. Sure' /\ Taken' /\ \A d \in Entities : Tagged(d)' => Tags[d] # {}
    BY <1>1 DEF WholeIInv, Sure, Taken, Tagged
  <1>9. DoneWhole' /\ JoinKept'
    BY <1>1 DEF DoneWhole, JoinKept
  <1> QED
    BY <1>1, <1>4, <1>7, <1>8, <1>9 DEF WholeIInv

LEMMA StepWhole == OneOwner /\ SaveIInv /\ WholeIInv /\ [SaveNext]_saveVars => WholeIInv'
  <1> SUFFICES ASSUME OneOwner, SaveIInv, WholeIInv, [SaveNext]_saveVars PROVE WholeIInv'
    OBVIOUS
  <1>1. CASE UNCHANGED saveVars
    <2>1. UNCHANGED <<mem, row, join, slice, unsure, tx, stack, verdict, before>>
      BY <1>1 DEF saveVars, ghosts, db
    <2>2. SaveState' = SaveState
      BY <2>1 DEF SaveState
    <2>3. Sure' /\ Taken' /\ (\A d \in Entities : Tagged(d) => Tags[d] # {})'
      BY <2>1 DEF WholeIInv, Sure, Taken, Tagged
    <2>4. DoneWhole' /\ KeyedKnown'
      BY <2>1 DEF WholeIInv, DoneWhole, UpWritten, KeyedKnown, Tagged
    <2>5. JoinKept'
      BY <2>1 DEF WholeIInv, JoinKept, Wanted, Tagged
    <2> QED
      BY <2>1, <2>2, <2>3, <2>4, <2>5 DEF WholeIInv
  <1>2. CASE OwnRow
    BY <1>2, SettledWhole, InsertWhole, UpdateWhole, WriteFailsWhole DEF OwnRow
  <1>3. CASE Relations
    BY <1>3, WalkWhole, SettledWhole, SaveChildWhole, DescendsWhole, TakeUpWhole, ExistsWhole,
       LinkWhole, PurgeWhole DEF Relations
  <1>4. ASSUME NEW e \in Roots, Save(e) PROVE WholeIInv'
    BY <1>4, BeginsWhole
  <1> QED
    BY <1>1, <1>2, <1>3, <1>4, ApplicationWhole DEF SaveNext

\* Where nothing is had by two: a Save that failed may be repeated, one that succeeded has left
\* the rows and join rows that memory describes, and no wanted join row is ever missing
\* (saver.go:300-350, relation.go:45-238).
THEOREM RepeatableAndWhole == OneOwner => (SaveSpec => []SavedOnceAndWhole)
  <1> SUFFICES ASSUME OneOwner PROVE SaveSpec => []SavedOnceAndWhole
    OBVIOUS
  <1>1. WholeIInv => SavedOnceAndWhole
    <2> SUFFICES ASSUME WholeIInv PROVE SavedOnceAndWhole
      OBVIOUS
    <2>1. \A e \in Entities \ (unsure \cup Anew) : row[e].n <= 1 /\ (mem[e].loaded => row[e].n = 1)
      BY DEF WholeIInv, Sure
    <2> QED
      BY <2>1 DEF WholeIInv, DoneWhole, JoinKept, Wanted, SavedOnceAndWhole
  <1>2. SaveIInv /\ WholeIInv /\ [SaveNext]_saveVars => SaveIInv' /\ WholeIInv'
    BY SaveStepIInv, StepWhole
  <1>3. SaveInit => SaveIInv /\ WholeIInv
    BY SaveInitIInv, SaveInitWhole
  <1> QED
    BY <1>1, <1>2, <1>3, PTL DEF SaveSpec

-----------------------------------------------------------------------------
(* The statement guard.                                                    *)

\* Where an install is: what it loaded matters only until it has swapped.
Installs == {Idling}
              \cup [at : {"swap"}, on : Handles, loaded : SUBSET DSPolicies]
              \cup [at : {"guard", "hook"}, on : Handles]

AHandle == [kind : {"none", "opened", "session", "tx", "conn"}, guarded : BOOLEAN,
            promised : SUBSET DSPolicies]

GuardTypeOK ==
    /\ published \subseteq DSPolicies
    /\ prepared \in BOOLEAN
    /\ handle \in [Handles -> AHandle]
    /\ hooked \subseteq DSPolicies
    /\ install \in [DSPolicies -> Installs]
    /\ statement \in {NoStatement} \cup
          [at : {"sending"}, s : Statements, owed : SUBSET DSPolicies, guarded : BOOLEAN]
    /\ sentOn \subseteq [s : Statements, owed : SUBSET DSPolicies]

\* An install publishes first, guards then, and promises last.
InstalledInOrder ==
    \A p \in DSPolicies :
        /\ install[p].at # "idle" => handle[install[p].on].kind # "none"
        /\ install[p].at \in {"guard", "hook"} => p \in published
        /\ install[p].at = "hook" => handle[install[p].on].guarded

\* What is promised of a handle's pool, and what the callbacks stand for, has been published,
\* and the pool a promise is about is guarded.
PromisesKept ==
    /\ hooked \subseteq published
    /\ \A h \in Handles :
          /\ handle[h].promised \subseteq published
          /\ handle[h].promised # {} => handle[h].guarded

\* The statement on its way: its pool checks everything it is owed, and what no pool refuses
\* the callbacks have let through.
SendingSound ==
    statement # NoStatement =>
        /\ statement.owed \subseteq published
        /\ statement.owed # {} => statement.guarded
        /\ ROnly \in statement.owed /\ statement.s.text = "calls" /\ statement.s.preset
           => statement.s.marked

GuardIInv == GuardTypeOK /\ InstalledInOrder /\ PromisesKept /\ SendingSound /\ NothingRefusedIsSent

-----------------------------------------------------------------------------
LEMMA Rekinded ==
    ASSUME NEW a \in AHandle, NEW kind \in {"none", "opened", "session", "tx", "conn"}
    PROVE  [a EXCEPT !.kind = kind] = [kind |-> kind, guarded |-> a.guarded, promised |-> a.promised]
BY DEF AHandle

LEMMA Repromised ==
    ASSUME NEW a \in AHandle, NEW ps \in SUBSET DSPolicies
    PROVE  [a EXCEPT !.promised = ps] = [kind |-> a.kind, guarded |-> a.guarded, promised |-> ps]
BY DEF AHandle

LEMMA Hooks ==
    ASSUME NEW on \in Handles
    PROVE  [[at |-> "guard", on |-> on] EXCEPT !.at = "hook"] = [at |-> "hook", on |-> on]
<1> DEFINE guard == [at |-> "guard", on |-> on]
<1>1. guard \in [at : {"guard", "hook"}, on : Handles]
  OBVIOUS
<1> HIDE DEF guard
<1>2. guard.on = on
  BY DEF guard
<1>3. [guard EXCEPT !.at = "hook"] = [at |-> "hook", on |-> guard.on]
  BY <1>1
<1> QED BY <1>2, <1>3 DEF guard

LEMMA GuardInitIInv == GuardInit => GuardIInv
<1> SUFFICES ASSUME GuardInit PROVE GuardIInv
  OBVIOUS
<1>1. NoHandle \in AHandle
  BY DEF NoHandle, AHandle
<1> DEFINE first == [kind |-> "opened", guarded |-> FALSE, promised |-> {}]
<1>2. [NoHandle EXCEPT !.kind = "opened"] = first
  BY <1>1, Rekinded DEF NoHandle
<1>3. first \in AHandle
  BY DEF AHandle
<1>4. handle \in [Handles -> AHandle] /\ \A h \in Handles : handle[h].promised = {}
  BY <1>1, <1>2, <1>3 DEF GuardInit, NoHandle
<1>5. GuardTypeOK
  BY <1>4 DEF GuardInit, GuardTypeOK, Installs
<1> QED BY <1>4, <1>5 DEF GuardInit, GuardIInv, InstalledInOrder, PromisesKept, SendingSound,
       NothingRefusedIsSent, Idling

\* What an install says of where it is.
LEMMA InstallFacts ==
    ASSUME GuardTypeOK, NEW p \in DSPolicies
    PROVE  /\ install[p].at \in {"idle", "swap", "guard", "hook"}
           /\ install[p].at # "idle" => install[p].on \in Handles
           /\ install[p].at = "swap" =>
                install[p] = [at |-> "swap", on |-> install[p].on, loaded |-> install[p].loaded]
           /\ install[p].at = "guard" => install[p] = [at |-> "guard", on |-> install[p].on]
BY DEF GuardTypeOK, Installs, Idling

LEMMA GuardStepIInv == ASSUME GuardIInv, [GuardNext]_guardVars PROVE GuardIInv'
<1> USE DEF GuardIInv
<1>a. \A h \in Handles : handle[h] \in AHandle
  BY DEF GuardTypeOK
<1>b. "opened" \in Handles /\ Derived \subseteq Handles
  BY DEF Handles
<1>0. CASE UNCHANGED guardVars
  BY <1>0 DEF guardVars, GuardTypeOK, InstalledInOrder, PromisesKept, SendingSound,
              NothingRefusedIsSent
<1>1. ASSUME NEW h \in Derived, NEW kind \in {"session", "tx"}, Derive(h, kind) PROVE GuardIInv'
  <2> DEFINE copy == [kind |-> kind, guarded |-> handle["opened"].guarded,
                      promised |-> handle["opened"].promised]
  <2>1. copy = [handle["opened"] EXCEPT !.kind = kind] /\ copy \in AHandle
    BY <1>a, <1>b, Rekinded DEF AHandle
  <2>2. handle' = [handle EXCEPT ![h] = copy] /\ handle[h].kind = "none"
    BY <1>1, <2>1 DEF Derive
  <2>3. UNCHANGED <<published, prepared, hooked, install, statement, sentOn>>
    BY <1>1 DEF Derive
  <2>4. GuardTypeOK'
    BY <1>b, <2>1, <2>2, <2>3 DEF GuardTypeOK
  <2>6. InstalledInOrder'
    BY <1>b, <2>2, <2>3, InstallFacts DEF InstalledInOrder, GuardTypeOK
  <2> QED BY <1>b, <2>1, <2>2, <2>3, <2>4, <2>6 DEF PromisesKept, SendingSound, NothingRefusedIsSent, GuardTypeOK
<1>2. ASSUME NEW h \in Derived, Connection(h) PROVE GuardIInv'
  <2> DEFINE conn == [kind |-> "conn", guarded |-> handle[h].guarded, promised |-> handle[h].promised]
  <2>1. conn = [handle[h] EXCEPT !.kind = "conn"] /\ conn \in AHandle
    BY <1>a, <1>b, Rekinded DEF AHandle
  <2>2. handle' = [handle EXCEPT ![h] = conn] /\ handle[h].kind = "none"
    BY <1>2, <2>1 DEF Connection
  <2>3. UNCHANGED <<published, prepared, hooked, install, statement, sentOn>>
    BY <1>2 DEF Connection
  <2>4. GuardTypeOK'
    BY <1>b, <2>1, <2>2, <2>3 DEF GuardTypeOK
  <2>5. InstalledInOrder'
    BY <1>b, <2>2, <2>3, InstallFacts DEF InstalledInOrder, GuardTypeOK
  <2> QED BY <1>b, <2>1, <2>2, <2>3, <2>4, <2>5 DEF PromisesKept, SendingSound, NothingRefusedIsSent, GuardTypeOK
<1>3. ASSUME NEW p \in DSPolicies, NEW h \in Handles, StartInstall(p, h) PROVE GuardIInv'
  <2> DEFINE new == IF p \in published THEN [at |-> "guard", on |-> h]
                    ELSE [at |-> "swap", on |-> h, loaded |-> published]
  <2>1. install' = [install EXCEPT ![p] = new] /\ handle[h].kind # "none"
    BY <1>3 DEF StartInstall
  <2>2. UNCHANGED <<published, prepared, handle, hooked, statement, sentOn>>
    BY <1>3 DEF StartInstall
  <2>3. new \in Installs /\ new.on = h /\ new.at \in {"swap", "guard"} /\ (new.at = "guard" => p \in published)
    BY DEF Installs, GuardTypeOK
  <2> HIDE DEF new
  <2>4. GuardTypeOK'
    BY <2>1, <2>2, <2>3 DEF GuardTypeOK
  <2>5. InstalledInOrder'
    BY <2>1, <2>2, <2>3 DEF InstalledInOrder, GuardTypeOK
  <2> QED BY <2>2, <2>4, <2>5 DEF PromisesKept, SendingSound, NothingRefusedIsSent
<1>4. ASSUME NEW p \in DSPolicies, Enable(p) PROVE GuardIInv'
  <2> DEFINE on == install[p].on
             swapped == [at |-> "guard", on |-> on]
             again == [at |-> "swap", on |-> on, loaded |-> published]
  <2>1. /\ install[p].at = "swap" /\ on \in Handles
        /\ swapped \in Installs /\ again \in Installs
    BY <1>4, InstallFacts DEF Enable, Installs, GuardTypeOK
  <2>2. UNCHANGED <<prepared, handle, hooked, statement, sentOn>>
    BY <1>4 DEF Enable
  <2>3. CASE published = install[p].loaded
    <3>1. published' = published \cup {p} /\ install' = [install EXCEPT ![p] = swapped]
      BY <1>4, <2>3 DEF Enable
    <3>2. GuardTypeOK'
      BY <2>1, <2>2, <3>1 DEF GuardTypeOK
    <3>3. InstalledInOrder'
      BY <2>1, <2>2, <3>1 DEF InstalledInOrder, GuardTypeOK
    <3> QED BY <2>2, <3>1, <3>2, <3>3 DEF PromisesKept, SendingSound, NothingRefusedIsSent
  <2>4. CASE published # install[p].loaded
    <3>1. published' = published /\ install' = [install EXCEPT ![p].loaded = published]
      BY <1>4, <2>4 DEF Enable
    <3>a. install' = [install EXCEPT ![p] = again]
      <4>1. [install[p] EXCEPT !.loaded = published] = again
        BY <2>1, InstallFacts DEF GuardTypeOK
      <4> QED BY <3>1, <4>1
    <3>2. GuardTypeOK'
      BY <2>1, <2>2, <3>1, <3>a DEF GuardTypeOK
    <3>b. again.at = "swap" /\ again.on = on /\ handle[on].kind # "none"
      BY <2>1 DEF InstalledInOrder
    <3> HIDE DEF again, on
    <3>3. InstalledInOrder'
      BY <2>1, <2>2, <3>1, <3>a, <3>b DEF InstalledInOrder, GuardTypeOK
    <3> QED BY <2>2, <3>1, <3>2, <3>3 DEF PromisesKept, SendingSound, NothingRefusedIsSent
  <2> QED BY <2>3, <2>4
<1>5. ASSUME NEW p \in DSPolicies, GuardHandle(p) PROVE GuardIInv'
  <2> DEFINE on == install[p].on
             hooks == [at |-> "hook", on |-> on]
  <2>1. /\ install[p].at = "guard" /\ on \in Handles /\ hooks \in Installs
        /\ [install[p] EXCEPT !.at = "hook"] = hooks
    BY <1>5, InstallFacts, Hooks DEF GuardHandle, Installs
  <2>2. install' = [install EXCEPT ![p] = hooks] /\ UNCHANGED <<published, prepared, hooked, statement, sentOn>>
    BY <1>5, <2>1 DEF GuardHandle
  <2>3. \A h \in Handles : /\ handle'[h] \in AHandle
                           /\ handle'[h].kind = handle[h].kind
                           /\ handle'[h].promised = handle[h].promised
                           /\ handle[h].guarded \/ h = on => handle'[h].guarded
    BY <1>5, <1>a DEF GuardHandle, AHandle, GuardTypeOK
  <2>4. GuardTypeOK'
    <3>1. handle' \in [Handles -> AHandle]
      BY <1>5, <2>3 DEF GuardHandle
    <3> QED BY <2>1, <2>2, <3>1 DEF GuardTypeOK
  <2>5. InstalledInOrder'
    BY <2>1, <2>2, <2>3, InstallFacts DEF InstalledInOrder, GuardTypeOK
  <2> QED BY <2>2, <2>3, <2>4, <2>5 DEF PromisesKept, SendingSound, NothingRefusedIsSent
<1>6. ASSUME NEW p \in DSPolicies, Hook(p) PROVE GuardIInv'
  <2> DEFINE on == install[p].on
  <2>1. install[p].at = "hook" /\ on \in Handles /\ p \in published /\ handle[on].guarded
    BY <1>6, InstallFacts DEF Hook, InstalledInOrder
  <2>2. /\ install' = [install EXCEPT ![p] = Idling] /\ hooked' = hooked \cup {p}
        /\ UNCHANGED <<published, prepared, statement, sentOn>>
    BY <1>6 DEF Hook
  <2> DEFINE more == [kind |-> handle[on].kind, guarded |-> handle[on].guarded,
                      promised |-> handle[on].promised \cup {p}]
  <2>3. handle' = [handle EXCEPT ![on] = more] /\ more \in AHandle
    <3>1. handle[on] \in AHandle /\ handle[on].promised \cup {p} \in SUBSET DSPolicies
      BY <1>a, <2>1 DEF AHandle
    <3>2. [handle[on] EXCEPT !.promised = handle[on].promised \cup {p}] = more
      BY <3>1, Repromised
    <3> QED BY <1>6, <3>1, <3>2 DEF Hook, AHandle
  <2>4. GuardTypeOK'
    BY <2>1, <2>2, <2>3 DEF GuardTypeOK, Installs
  <2>5. InstalledInOrder'
    BY <2>1, <2>2, <2>3, InstallFacts DEF InstalledInOrder, GuardTypeOK, Idling
  <2>6. PromisesKept'
    BY <2>1, <2>2, <2>3 DEF PromisesKept, GuardTypeOK
  <2> QED BY <2>2, <2>4, <2>5, <2>6 DEF SendingSound, NothingRefusedIsSent
<1>7. ASSUME NEW h \in Handles, NEW s \in Statements, Callbacks(h, s) PROVE GuardIInv'
  <2> DEFINE new == [at |-> "sending", s |-> s, owed |-> hooked,
                     guarded |-> handle[h].guarded \/ hooked # {}]
  <2>1. statement' = new /\ ~CallbackRefuses(s)
        /\ UNCHANGED <<published, prepared, handle, hooked, install, sentOn>>
    BY <1>7 DEF Callbacks
  <2>2. GuardTypeOK'
    <3>1. (handle[h].guarded \/ hooked # {}) \in BOOLEAN
      BY <1>a DEF AHandle
    <3> QED BY <2>1, <3>1 DEF GuardTypeOK
  <2>3. ROnly \in hooked /\ s.text = "calls" /\ s.preset => s.marked
    BY <2>1 DEF CallbackRefuses, guardReads, isGormSavepoint, DeepRefused
  <2>4. SendingSound'
    BY <2>1, <2>3 DEF SendingSound, PromisesKept
  <2> QED BY <2>1, <2>2, <2>4 DEF InstalledInOrder, PromisesKept, NothingRefusedIsSent
<1>8. ASSUME NEW h \in Handles, NEW s \in Statements, Direct(h, s) PROVE GuardIInv'
  <2> DEFINE new == [at |-> "sending", s |-> s, owed |-> handle[h].promised, guarded |-> handle[h].guarded]
  <2>1. statement' = new /\ s.via = "direct"
        /\ UNCHANGED <<published, prepared, handle, hooked, install, sentOn>>
    BY <1>8 DEF Direct
  <2>2. GuardTypeOK'
    BY <1>a, <2>1 DEF GuardTypeOK, AHandle
  <2>3. ~s.preset
    BY <2>1 DEF Statements
  <2>4. SendingSound'
    BY <2>1, <2>3 DEF SendingSound, PromisesKept
  <2> QED BY <2>1, <2>2, <2>4 DEF InstalledInOrder, PromisesKept, NothingRefusedIsSent
<1>9. CASE Send
  <2>1. /\ statement # NoStatement /\ statement' = NoStatement
        /\ UNCHANGED <<published, prepared, handle, hooked, install>>
    BY <1>9 DEF Send
  <2> DEFINE s == statement.s
             x == [s |-> s, owed |-> statement.owed]
  <2>2. s \in Statements /\ statement.owed \subseteq DSPolicies
    BY <2>1 DEF GuardTypeOK
  <2>3. GuardTypeOK'
    <3>1. x \in [s : Statements, owed : SUBSET DSPolicies]
      BY <2>2
    <3> QED BY <1>9, <2>1, <3>1 DEF GuardTypeOK, Send
  <2>4. ASSUME statement.owed # {}, ~check(s.text), NEW p \in statement.owed
        PROVE  ~Breaks(p, s)
    BY <2>1, <2>4 DEF Breaks, check, SendingSound, isGormSavepoint, ShapesRefused, SchemaTexts
  <2>5. NothingRefusedIsSent'
    <3>1. CASE sentOn' = sentOn
      BY <3>1 DEF NothingRefusedIsSent
    <3>2. CASE statement.owed # {} /\ ~check(s.text) /\ sentOn' = {x}
      BY <2>4, <3>2 DEF NothingRefusedIsSent
    <3>3. statement.owed # {} => statement.guarded
      BY <2>1 DEF SendingSound
    <3> QED BY <1>9, <3>1, <3>2, <3>3 DEF Send
  <2> QED BY <2>1, <2>3, <2>5 DEF InstalledInOrder, PromisesKept, SendingSound
<1>10. CASE Returns
  BY <1>10 DEF Returns, GuardTypeOK, InstalledInOrder, PromisesKept, SendingSound, NothingRefusedIsSent
<1> QED BY <1>0, <1>1, <1>2, <1>3, <1>4, <1>5, <1>6, <1>7, <1>8, <1>9, <1>10 DEF GuardNext

\* A statement that a published policy refuses is not sent on a pool that owes it, however
\* installs and statements interleave (db.go, policy.go: the guard and its callbacks).
THEOREM NothingRefused == GuardSpec => []NothingRefusedIsSent
<1>1. GuardIInv => NothingRefusedIsSent
  BY DEF GuardIInv
<1> QED BY GuardInitIInv, GuardStepIInv, <1>1, PTL DEF GuardSpec

-----------------------------------------------------------------------------
(* The token source.                                                       *)

Phases == Talking \cup {"free", "store", "publish", "done"}
Acquisition == [phase : Phases, signed : BOOLEAN, cut : BOOLEAN, ok : BOOLEAN]
PCs == {"idle", "lock", "wait", "dial", "last"}
Call == [pc : PCs, slot : Slots \cup {None}, again : BOOLEAN]

TokenTypeOK ==
    /\ inflight \in Slots \cup {None} /\ retryIn \in Nat
    /\ tok = None \/ tok \in [left : Nat, refresh : Nat]
    /\ acq \in [Slots -> Acquisition]
    /\ caller \in [Callers -> Call]

\* The record this process was built with is of the account configured, or of nobody.
RecordFits == record # None => SignsInAs(record, wanted)

\* The acquisition in flight is the one that talks to the credential or has a result to store.
OneInFlight == \A s \in Slots : (acq[s].phase \in Talking \cup {"store"}) <=> inflight = s

\* Whoever is signed in is known to the source, or was signed in by the acquisition in flight.
SignedInIsKnown == person => authenticated \/ \E s \in Slots : inflight = s /\ acq[s].signed

\* An acquisition on its way to the prompt is the first there is, and was not cut short.
PromptsAreFirst ==
    \A s \in Slots : /\ acq[s].phase \in Asking => ~person /\ ~acq[s].cut
                     /\ acq[s].phase = "resume" => record # None

\* Whoever waits does so for an acquisition.
WaitersWait == \A c \in Callers : caller[c].pc = "wait"
                   => caller[c].slot \in Slots /\ acq[caller[c].slot].phase # "free"

TokenIInv == TokenTypeOK /\ RecordFits /\ OneInFlight /\ SignedInIsKnown /\ PromptsAreFirst /\ WaitersWait

LEMMA TokenParts ==
    ASSUME TokenIInv
    PROVE  /\ TokenTypeOK /\ RecordFits /\ OneInFlight /\ SignedInIsKnown /\ PromptsAreFirst /\ WaitersWait
           /\ acq \in [Slots -> Acquisition] /\ caller \in [Callers -> Call]
           /\ None \notin Slots /\ inflight \in Slots \cup {None}
  BY TokenConstantsOK DEF TokenIInv, TokenTypeOK

LEMMA TokenRest ==
    /\ Free \in Acquisition /\ Free.phase = "free" /\ ~Free.signed /\ ~Free.cut
    /\ AtRest \in Call /\ AtRest.pc = "idle"
  BY DEF Free, Acquisition, Phases, AtRest, Call, PCs

\* A caller that takes the lock again, and asks for its token a second time.
LEMMA CallAgain ==
    ASSUME NEW r \in Call
    PROVE  /\ [r EXCEPT !.pc = "lock", !.again = TRUE] \in Call
           /\ [r EXCEPT !.pc = "lock", !.again = TRUE].pc = "lock"
  <1> DEFINE g == [r EXCEPT !.pc = "lock"]
  <1>1. g \in Call /\ g.pc = "lock"
    BY DEF Call, PCs
  <1>2. [r EXCEPT !.pc = "lock", !.again = TRUE] = [g EXCEPT !.again = TRUE]
    OBVIOUS
  <1> HIDE DEF g
  <1> QED
    BY <1>1, <1>2 DEF Call

\* An acquisition that goes on to phase p, and with what else it learnt.
LEMMA AcqTo ==
    ASSUME NEW a \in Acquisition, NEW p \in Phases
    PROVE  /\ [a EXCEPT !.phase = p] \in Acquisition /\ [a EXCEPT !.phase = p].phase = p
           /\ [a EXCEPT !.phase = p].signed = a.signed /\ [a EXCEPT !.phase = p].cut = a.cut
  BY DEF Acquisition

LEMMA AcqOver ==
    ASSUME NEW a \in Acquisition, NEW v \in BOOLEAN
    PROVE  /\ [a EXCEPT !.phase = "store", !.ok = v] \in Acquisition
           /\ [a EXCEPT !.phase = "store", !.ok = v].phase = "store"
           /\ [a EXCEPT !.phase = "store", !.ok = v].signed = a.signed
  <1> DEFINE g == [a EXCEPT !.phase = "store"]
  <1>1. g \in Acquisition /\ g.phase = "store" /\ g.signed = a.signed
    BY DEF Acquisition, Phases
  <1>2. [a EXCEPT !.phase = "store", !.ok = v] = [g EXCEPT !.ok = v]
    OBVIOUS
  <1> HIDE DEF g
  <1> QED
    BY <1>1, <1>2 DEF Acquisition

LEMMA AcqCut ==
    ASSUME NEW a \in Acquisition
    PROVE  /\ [a EXCEPT !.phase = "store", !.cut = TRUE] \in Acquisition
           /\ [a EXCEPT !.phase = "store", !.cut = TRUE].phase = "store"
  <1> DEFINE g == [a EXCEPT !.phase = "store"]
  <1>1. g \in Acquisition /\ g.phase = "store"
    BY DEF Acquisition, Phases
  <1>2. [a EXCEPT !.phase = "store", !.cut = TRUE] = [g EXCEPT !.cut = TRUE]
    OBVIOUS
  <1> HIDE DEF g
  <1> QED
    BY <1>1, <1>2 DEF Acquisition

LEMMA AcqSignedIn ==
    ASSUME NEW a \in Acquisition
    PROVE  /\ [a EXCEPT !.phase = "token", !.signed = TRUE] \in Acquisition
           /\ [a EXCEPT !.phase = "token", !.signed = TRUE].phase = "token"
           /\ [a EXCEPT !.phase = "token", !.signed = TRUE].signed
  <1> DEFINE g == [a EXCEPT !.phase = "token"]
  <1>1. g \in Acquisition /\ g.phase = "token"
    BY DEF Acquisition, Phases, Talking
  <1>2. [a EXCEPT !.phase = "token", !.signed = TRUE] = [g EXCEPT !.signed = TRUE]
    OBVIOUS
  <1> HIDE DEF g
  <1> QED
    BY <1>1, <1>2 DEF Acquisition

LEMMA SignedOk ==
    ASSUME NEW a \in Acquisition
    PROVE  /\ [a EXCEPT !.phase = "store", !.ok = TRUE, !.signed = TRUE] \in Acquisition
           /\ [a EXCEPT !.phase = "store", !.ok = TRUE, !.signed = TRUE].phase = "store"
           /\ [a EXCEPT !.phase = "store", !.ok = TRUE, !.signed = TRUE].signed
  <1> DEFINE g == [a EXCEPT !.phase = "store", !.ok = TRUE]
  <1>1. g \in Acquisition /\ g.phase = "store"
    <2>1. TRUE \in BOOLEAN
      OBVIOUS
    <2> QED
      BY <2>1, AcqOver
  <1>2. [a EXCEPT !.phase = "store", !.ok = TRUE, !.signed = TRUE] = [g EXCEPT !.signed = TRUE]
    OBVIOUS
  <1> HIDE DEF g
  <1> QED
    BY <1>1, <1>2 DEF Acquisition

LEMMA TokenInitIInv == TokenInit => TokenIInv
  <1> SUFFICES ASSUME TokenInit PROVE TokenIInv
    OBVIOUS
  <1>1. \A s \in Slots : acq[s] = Free
    BY DEF TokenInit
  <1>2. \A c \in Callers : caller[c] = AtRest
    BY DEF TokenInit
  <1>3. TokenTypeOK
    BY TokenRest DEF TokenInit, TokenTypeOK
  <1>4. RecordFits
    BY DEF TokenInit, ReadRecord, RecordFits
  <1>5. OneInFlight /\ SignedInIsKnown /\ PromptsAreFirst
    BY <1>1, TokenRest, TokenConstantsOK
       DEF TokenInit, OneInFlight, SignedInIsKnown, PromptsAreFirst, Talking, Asking
  <1>6. WaitersWait
    BY <1>2, TokenRest DEF WaitersWait
  <1> QED
    BY <1>3, <1>4, <1>5, <1>6 DEF TokenIInv

LEMMA RestartIInv == TokenIInv /\ Restart => TokenIInv'
  <1> SUFFICES ASSUME TokenIInv, Restart PROVE TokenIInv'
    OBVIOUS
  <1>1. \A s \in Slots : acq'[s] = Free
    BY DEF Restart
  <1>2. \A c \in Callers : caller'[c] = AtRest
    BY DEF Restart
  <1>3. TokenTypeOK'
    BY TokenRest DEF Restart, TokenTypeOK
  <1>4. RecordFits'
    BY DEF Restart, ReadRecord, RecordFits
  <1>5. OneInFlight' /\ SignedInIsKnown' /\ PromptsAreFirst'
    BY <1>1, TokenRest, TokenConstantsOK
       DEF Restart, OneInFlight, SignedInIsKnown, PromptsAreFirst, Talking, Asking
  <1>6. WaitersWait'
    BY <1>2, TokenRest DEF WaitersWait
  <1> QED
    BY <1>3, <1>4, <1>5, <1>6 DEF TokenIInv

LEMMA TickIInv == TokenIInv /\ Tick => TokenIInv'
  <1> SUFFICES ASSUME TokenIInv, Tick PROVE TokenIInv'
    OBVIOUS
  <1>1. /\ tok' = Aged(tok) /\ retryIn' = Less(retryIn)
        /\ UNCHANGED <<record, wanted, authenticated, inflight, person, acq, caller>>
    BY DEF Tick, config
  <1>2. \A n \in Nat : Less(n) \in Nat
    BY DEF Less
  <1>3. TokenTypeOK'
    BY <1>1, <1>2 DEF TokenIInv, TokenTypeOK, Aged
  <1> QED
    BY <1>1, <1>3 DEF TokenIInv, RecordFits, OneInFlight, SignedInIsKnown, PromptsAreFirst, WaitersWait

\* The state that callers share, and do not change by moving.
Shared == <<record, wanted, tok, authenticated, inflight, retryIn, person>>

\* A caller that moves, and does not wait where it goes; what it alone waited for may go.
LEMMA CallerMoves ==
    ASSUME TokenIInv, NEW c \in Callers, NEW r \in Call, r.pc # "wait",
           caller' = [caller EXCEPT ![c] = r], UNCHANGED Shared, acq' = acq \/ acq' = Left(c)
    PROVE  TokenIInv'
  <1>1. /\ TokenTypeOK /\ RecordFits /\ OneInFlight /\ SignedInIsKnown /\ PromptsAreFirst /\ WaitersWait
        /\ acq \in [Slots -> Acquisition] /\ caller \in [Callers -> Call]
    BY TokenParts
  <1>2. /\ acq' \in [Slots -> Acquisition]
        /\ \A s \in Slots : \/ acq'[s] = acq[s]
                            \/ acq[s].phase = "done" /\ acq'[s] = Free /\ Waiters(s) = {c}
    BY <1>1, TokenRest DEF Left
  <1>3. /\ caller' \in [Callers -> Call]
        /\ \A b \in Callers : caller'[b] = IF b = c THEN r ELSE caller[b]
    BY <1>1
  <1>4. TokenTypeOK'
    BY <1>1, <1>2, <1>3 DEF TokenTypeOK, Shared
  <1>5. OneInFlight' /\ PromptsAreFirst'
    BY <1>1, <1>2, TokenRest DEF OneInFlight, PromptsAreFirst, Shared, Talking, Asking
  <1>6. SignedInIsKnown'
    BY <1>1, <1>2 DEF SignedInIsKnown, OneInFlight, Shared, Talking, Asking
  <1>7. WaitersWait'
    BY <1>1, <1>2, <1>3 DEF WaitersWait, Waiters
  <1> QED
    BY <1>1, <1>4, <1>5, <1>6, <1>7 DEF TokenIInv, RecordFits, Shared

\* A caller that waits for the acquisition in flight.
LEMMA CallerJoins ==
    ASSUME TokenIInv, NEW c \in Callers, NEW r \in Call, r.slot = inflight, inflight # None,
           caller' = [caller EXCEPT ![c] = r], UNCHANGED Shared, UNCHANGED acq
    PROVE  TokenIInv'
  <1>1. /\ TokenTypeOK /\ RecordFits /\ OneInFlight /\ SignedInIsKnown /\ PromptsAreFirst /\ WaitersWait
        /\ caller \in [Callers -> Call] /\ inflight \in Slots
    BY TokenParts
  <1>2. /\ caller' \in [Callers -> Call]
        /\ \A b \in Callers : caller'[b] = IF b = c THEN r ELSE caller[b]
    BY <1>1
  <1>3. acq[inflight].phase # "free"
    BY <1>1 DEF OneInFlight, Talking, Asking
  <1>4. TokenTypeOK'
    BY <1>1, <1>2 DEF TokenTypeOK, Shared
  <1>5. WaitersWait'
    BY <1>1, <1>2, <1>3 DEF WaitersWait
  <1> QED
    BY <1>1, <1>4, <1>5 DEF TokenIInv, RecordFits, OneInFlight, SignedInIsKnown, PromptsAreFirst, Shared

\* An acquisition starts, for a caller that waits for it or has its token already.
LEMMA AcquisitionStarts ==
    ASSUME TokenIInv, NEW s \in Slots, Started(s), inflight = None,
           NEW c \in Callers, NEW r \in Call, r.pc = "wait" => r.slot = s,
           caller' = [caller EXCEPT ![c] = r],
           UNCHANGED <<record, wanted, tok, authenticated, retryIn, person>>
    PROVE  TokenIInv'
  <1>1. /\ TokenTypeOK /\ RecordFits /\ OneInFlight /\ SignedInIsKnown /\ PromptsAreFirst /\ WaitersWait
        /\ acq \in [Slots -> Acquisition] /\ caller \in [Callers -> Call] /\ None \notin Slots
    BY TokenParts
  <1> DEFINE signIn == interactive /\ ~authenticated
             p == IF ~signIn THEN "request" ELSE IF record # None THEN "resume" ELSE "check"
             a == [Free EXCEPT !.phase = p]
  <1>2. inflight' = s /\ acq' = [acq EXCEPT ![s] = a]
    BY DEF Started
  <1>3. p \in Talking /\ p \in Phases
    BY DEF Talking, Asking, Phases
  <1>4. a \in Acquisition /\ a.phase = p /\ ~a.cut
    <2> HIDE DEF p
    <2>1. [Free EXCEPT !.phase = p] \in Acquisition /\ [Free EXCEPT !.phase = p].phase = p
          /\ [Free EXCEPT !.phase = p].cut = Free.cut
      BY <1>3, AcqTo, TokenRest
    <2> QED
      BY <2>1, TokenRest
  <1>5. (p \in Asking => ~authenticated) /\ (p = "resume" => record # None) /\ p # "free"
    BY DEF Asking
  <1> HIDE DEF p, a
  <1>6. \A q \in Slots : acq'[q] = IF q = s THEN a ELSE acq[q]
    BY <1>1, <1>2
  <1>7. /\ caller' \in [Callers -> Call]
        /\ \A b \in Callers : caller'[b] = IF b = c THEN r ELSE caller[b]
    BY <1>1
  <1>8. /\ \A q \in Slots : acq[q].phase \notin Talking \cup {"store"}
        /\ person => authenticated
    BY <1>1 DEF OneInFlight, SignedInIsKnown
  <1>9. TokenTypeOK'
    BY <1>1, <1>2, <1>4, <1>7 DEF TokenTypeOK
  <1>10. OneInFlight'
    BY <1>2, <1>3, <1>4, <1>6, <1>8 DEF OneInFlight
  <1>11. SignedInIsKnown'
    BY <1>8 DEF SignedInIsKnown
  <1>12. PromptsAreFirst'
    BY <1>1, <1>4, <1>5, <1>6, <1>8 DEF PromptsAreFirst
  <1>13. WaitersWait'
    BY <1>1, <1>4, <1>5, <1>6, <1>7 DEF WaitersWait
  <1> QED
    BY <1>1, <1>9, <1>10, <1>11, <1>12, <1>13 DEF TokenIInv, RecordFits

\* The acquisition in flight goes on to r.
LEMMA AcquisitionGoesOn ==
    ASSUME TokenIInv, NEW s \in Slots, acq[s].phase \in Talking, NEW r \in Acquisition,
           r.phase \in Talking \cup {"store"}, acq' = [acq EXCEPT ![s] = r],
           UNCHANGED <<record, wanted, tok, authenticated, inflight, retryIn, caller>>,
           person' => authenticated \/ r.signed,
           r.phase \in Asking => ~person' /\ ~r.cut,
           r.phase = "resume" => record # None
    PROVE  TokenIInv'
  <1>1. /\ TokenTypeOK /\ RecordFits /\ OneInFlight /\ PromptsAreFirst /\ WaitersWait
        /\ acq \in [Slots -> Acquisition] /\ caller \in [Callers -> Call] /\ None \notin Slots
    BY TokenParts
  <1>2. inflight = s /\ \A q \in Slots \ {s} : acq[q].phase \notin Talking \cup {"store"}
    BY <1>1 DEF OneInFlight
  <1>3. \A q \in Slots : acq'[q] = IF q = s THEN r ELSE acq[q]
    BY <1>1
  <1>4. TokenTypeOK'
    BY <1>1 DEF TokenTypeOK
  <1>5. OneInFlight'
    BY <1>1, <1>2, <1>3 DEF OneInFlight
  <1>6. SignedInIsKnown'
    BY <1>2, <1>3 DEF SignedInIsKnown
  <1>7. PromptsAreFirst'
    BY <1>1, <1>2, <1>3 DEF PromptsAreFirst, Talking, Asking
  <1>8. WaitersWait'
    <2>1. r.phase # "free"
      BY DEF Talking, Asking
    <2> QED
      BY <1>1, <1>3, <2>1 DEF WaitersWait
  <1> QED
    BY <1>1, <1>4, <1>5, <1>6, <1>7, <1>8 DEF TokenIInv, RecordFits

LEMMA ConnectIInv ==
    ASSUME TokenIInv, NEW c \in Callers, Connect(c)
    PROVE  TokenIInv'
  <1> DEFINE r == [AtRest EXCEPT !.pc = "lock"]
  <1>1. r \in Call /\ r.pc = "lock"
    BY DEF AtRest, Call, PCs
  <1>2. caller' = [caller EXCEPT ![c] = r] /\ UNCHANGED Shared /\ UNCHANGED acq
    BY DEF Connect, Shared, config, source
  <1> HIDE DEF r
  <1> QED
    BY <1>1, <1>2, CallerMoves

\* Where Move takes a caller.
LEMMA MoveFacts ==
    ASSUME TokenIInv, NEW c \in Callers, NEW p \in PCs, NEW sl \in Slots \cup {None}, Move(c, p, sl)
    PROVE  \E r \in Call : caller' = [caller EXCEPT ![c] = r] /\ r.pc = p /\ r.slot = sl
  <1>1. ASSUME NEW k \in Call
        PROVE  /\ [k EXCEPT !.pc = p, !.slot = sl] \in Call
               /\ [k EXCEPT !.pc = p, !.slot = sl].pc = p /\ [k EXCEPT !.pc = p, !.slot = sl].slot = sl
    <2> DEFINE g == [k EXCEPT !.pc = p]
    <2>1. g \in Call /\ g.pc = p
      BY DEF Call
    <2>2. [k EXCEPT !.pc = p, !.slot = sl] = [g EXCEPT !.slot = sl]
      OBVIOUS
    <2> HIDE DEF g
    <2> QED
      BY <2>1, <2>2 DEF Call
  <1>2. caller[c] \in Call
    BY TokenParts
  <1>3. caller' = [caller EXCEPT ![c] = [caller[c] EXCEPT !.pc = p, !.slot = sl]]
    BY DEF Move
  <1>4. /\ [caller[c] EXCEPT !.pc = p, !.slot = sl] \in Call
        /\ [caller[c] EXCEPT !.pc = p, !.slot = sl].pc = p
        /\ [caller[c] EXCEPT !.pc = p, !.slot = sl].slot = sl
    BY <1>1, <1>2
  <1> QED
    BY <1>3, <1>4

LEMMA LookIInv ==
    ASSUME TokenIInv, NEW c \in Callers, Look(c)
    PROVE  TokenIInv'
  <1>1. UNCHANGED <<record, wanted, tok, authenticated, retryIn, person>>
    BY DEF Look, config
  <1>2. {"dial", "wait"} \subseteq PCs
    BY DEF PCs
  <1>3. CASE Move(c, "dial", None) /\ UNCHANGED <<inflight, acq>>
    <2>1. PICK r \in Call : caller' = [caller EXCEPT ![c] = r] /\ r.pc = "dial"
      BY <1>2, <1>3, MoveFacts
    <2> QED
      BY <1>1, <1>3, <2>1, CallerMoves DEF Shared
  <1>4. CASE Move(c, "dial", None) /\ inflight = None /\ \E s \in Slots : Started(s)
    <2>1. PICK r \in Call : caller' = [caller EXCEPT ![c] = r] /\ r.pc = "dial"
      BY <1>2, <1>4, MoveFacts
    <2> QED
      BY <1>1, <1>4, <2>1, AcquisitionStarts
  <1>5. ASSUME NEW s \in Slots, Started(s), Move(c, "wait", s), inflight = None
        PROVE  TokenIInv'
    <2>1. PICK r \in Call : caller' = [caller EXCEPT ![c] = r] /\ r.pc = "wait" /\ r.slot = s
      BY <1>2, <1>5, MoveFacts
    <2> QED
      BY <1>1, <1>5, <2>1, AcquisitionStarts
  <1>6. CASE inflight # None /\ Move(c, "wait", inflight) /\ UNCHANGED <<inflight, acq>>
    <2>1. inflight \in Slots
      BY <1>6, TokenParts
    <2>2. PICK r \in Call : caller' = [caller EXCEPT ![c] = r] /\ r.slot = inflight
      BY <1>2, <1>6, <2>1, MoveFacts
    <2> QED
      BY <1>1, <1>6, <2>2, CallerJoins DEF Shared
  <1> QED
    BY <1>3, <1>4, <1>5, <1>6 DEF Look

\* Where LoginFailed leaves a caller.
LEMMA FailedIsAtRest ==
    ASSUME NEW c \in Callers, LoginFailed(c)
    PROVE  caller' = [caller EXCEPT ![c] = AtRest] /\ AtRest \in Call /\ AtRest.pc # "wait"
  BY TokenRest DEF LoginFailed

LEMMA AnsweredIInv ==
    ASSUME TokenIInv, NEW c \in Callers, Answered(c)
    PROVE  TokenIInv'
  <1>1. PICK pc \in {"dial", "last"} : Move(c, pc, None)
    BY DEF Answered
  <1>2. pc \in PCs /\ pc # "wait"
    BY DEF PCs
  <1>3. PICK r \in Call : caller' = [caller EXCEPT ![c] = r] /\ r.pc = pc
    BY <1>1, <1>2, MoveFacts
  <1>4. UNCHANGED Shared /\ acq' = Left(c)
    BY DEF Answered, Shared, config
  <1> QED
    BY <1>2, <1>3, <1>4, CallerMoves

LEMMA GiveUpIInv ==
    ASSUME TokenIInv, NEW c \in Callers, GiveUp(c)
    PROVE  TokenIInv'
  <1>1. UNCHANGED Shared /\ acq' = Left(c) /\ LoginFailed(c)
    BY DEF GiveUp, Shared, config
  <1> QED
    BY <1>1, FailedIsAtRest, CallerMoves

LEMMA LastLookIInv ==
    ASSUME TokenIInv, NEW c \in Callers, LastLook(c)
    PROVE  TokenIInv'
  <1>1. UNCHANGED Shared /\ UNCHANGED acq
    BY DEF LastLook, Shared, config, source
  <1>2. CASE Move(c, "dial", None)
    <2>1. PICK r \in Call : caller' = [caller EXCEPT ![c] = r] /\ r.pc = "dial"
      BY <1>2, MoveFacts DEF PCs
    <2> QED
      BY <1>1, <2>1, CallerMoves
  <1>3. CASE LoginFailed(c)
    BY <1>1, <1>3, FailedIsAtRest, CallerMoves
  <1> QED
    BY <1>2, <1>3 DEF LastLook

LEMMA WarmedIInv ==
    ASSUME TokenIInv, NEW c \in Callers, Warmed(c)
    PROVE  TokenIInv'
  <1>1. /\ UNCHANGED Shared /\ UNCHANGED acq
        /\ caller' = [caller EXCEPT ![c] = AtRest] /\ AtRest \in Call /\ AtRest.pc # "wait"
    BY TokenRest DEF Warmed, Shared, config, source
  <1> QED
    BY <1>1, CallerMoves

LEMMA ConnectLoginIInv ==
    ASSUME TokenIInv, NEW c \in Callers, ConnectLogin(c)
    PROVE  TokenIInv'
  <1>1. /\ UNCHANGED Shared /\ UNCHANGED acq /\ caller[c] \in Call /\ caller[c].pc = "dial"
    BY TokenParts DEF ConnectLogin, Shared, config, source
  <1>2. CASE LoginFailed(c) \/ caller' = [caller EXCEPT ![c] = AtRest]
    BY <1>1, <1>2, FailedIsAtRest, TokenRest, CallerMoves
  <1>3. CASE caller' = [caller EXCEPT ![c].again = FALSE]
    <2> DEFINE r == [caller[c] EXCEPT !.again = FALSE]
    <2>1. r \in Call /\ r.pc = "dial"
      BY <1>1 DEF Call
    <2>2. caller' = [caller EXCEPT ![c] = r]
      BY <1>3
    <2> HIDE DEF r
    <2> QED
      BY <1>1, <2>1, <2>2, CallerMoves
  <1>4. CASE caller' = [caller EXCEPT ![c].pc = "lock", ![c].again = TRUE]
    <2> DEFINE r == [caller[c] EXCEPT !.pc = "lock", !.again = TRUE]
    <2>1. "lock" \in PCs /\ TRUE \in BOOLEAN
      BY DEF PCs
    <2>2. r \in Call /\ r.pc = "lock"
      BY <1>1, CallAgain
    <2>3. caller' = [caller EXCEPT ![c] = r]
      BY <1>4
    <2> HIDE DEF r
    <2> QED
      BY <1>1, <2>2, <2>3, CallerMoves
  <1> QED
    BY <1>2, <1>3, <1>4 DEF ConnectLogin

LEMMA RequestIInv ==
    ASSUME TokenIInv, NEW s \in Slots, Request(s) \/ Token(s)
    PROVE  TokenIInv'
  <1>1. PICK ok \in BOOLEAN : Over(s, ok)
    BY DEF Request, Token
  <1> DEFINE r == [acq[s] EXCEPT !.phase = "store", !.ok = ok]
  <1>2. acq[s] \in Acquisition /\ acq[s].phase \in {"request", "token"} /\ inflight = s
    BY TokenParts DEF Request, Token, OneInFlight, Talking
  <1>3. "store" \in Phases
    BY DEF Phases
  <1>4. r \in Acquisition /\ r.phase = "store" /\ r.signed = acq[s].signed
    BY <1>2, <1>3, AcqOver
  <1>5. acq' = [acq EXCEPT ![s] = r]
    BY <1>1 DEF Over
  <1>6. UNCHANGED <<record, wanted, tok, authenticated, inflight, retryIn, caller, person>>
    BY DEF Request, Token, config
  <1> HIDE DEF r
  <1>7. person' => authenticated \/ r.signed
    BY <1>2, <1>4, <1>6, TokenParts DEF SignedInIsKnown
  <1>8. /\ acq[s].phase \in Talking /\ r.phase \in Talking \cup {"store"}
        /\ r.phase \notin Asking /\ r.phase # "resume"
    BY <1>2, <1>4 DEF Talking, Asking
  <1> QED
    BY <1>4, <1>5, <1>6, <1>7, <1>8, AcquisitionGoesOn

LEMMA ResumeIInv ==
    ASSUME TokenIInv, NEW s \in Slots, Resume(s)
    PROVE  TokenIInv'
  <1>1. /\ acq[s] \in Acquisition /\ acq[s].phase = "resume" /\ acq[s].phase \in Talking
        /\ ~person /\ ~acq[s].cut
    BY TokenParts DEF Resume, PromptsAreFirst, Talking, Asking
  <1>2. UNCHANGED <<record, wanted, tok, authenticated, inflight, retryIn, caller>>
    BY DEF Resume, config
  <1>3. "store" \in Phases /\ "check" \in Phases
    BY DEF Phases, Talking, Asking
  <1>4. CASE acq' = [acq EXCEPT ![s].phase = "store", ![s].ok = TRUE, ![s].signed = TRUE]
    <2> DEFINE r == [acq[s] EXCEPT !.phase = "store", !.ok = TRUE, !.signed = TRUE]
    <2>1. r \in Acquisition /\ r.phase = "store" /\ r.signed
      BY <1>1, SignedOk
    <2>2. acq' = [acq EXCEPT ![s] = r]
      BY <1>4
    <2> HIDE DEF r
    <2>3. r.phase \in Talking \cup {"store"} /\ r.phase \notin Asking /\ r.phase # "resume"
      BY <2>1 DEF Asking
    <2> QED
      BY <1>1, <1>2, <2>1, <2>2, <2>3, AcquisitionGoesOn
  <1>5. CASE acq' = [acq EXCEPT ![s].phase = "store", ![s].cut = TRUE] /\ UNCHANGED person
    <2> DEFINE r == [acq[s] EXCEPT !.phase = "store", !.cut = TRUE]
    <2>1. r \in Acquisition /\ r.phase = "store"
      BY <1>1, <1>3, AcqCut
    <2>2. acq' = [acq EXCEPT ![s] = r]
      BY <1>5
    <2> HIDE DEF r
    <2>3. r.phase \in Talking \cup {"store"} /\ r.phase \notin Asking /\ r.phase # "resume"
      BY <2>1 DEF Asking
    <2> QED
      BY <1>1, <1>2, <1>5, <2>1, <2>2, <2>3, AcquisitionGoesOn
  <1>6. CASE acq' = [acq EXCEPT ![s].phase = "check"] /\ UNCHANGED person
    <2> DEFINE r == [acq[s] EXCEPT !.phase = "check"]
    <2>1. r \in Acquisition /\ r.phase = "check" /\ ~r.cut
      BY <1>1, <1>3, AcqTo
    <2>2. acq' = [acq EXCEPT ![s] = r]
      BY <1>6
    <2> HIDE DEF r
    <2>3. r.phase \in Talking \cup {"store"} /\ r.phase # "resume"
      BY <2>1 DEF Talking, Asking
    <2> QED
      BY <1>1, <1>2, <1>6, <2>1, <2>2, <2>3, AcquisitionGoesOn
  <1> QED
    BY <1>4, <1>5, <1>6 DEF Resume

LEMMA CheckIInv ==
    ASSUME TokenIInv, NEW s \in Slots, Check(s)
    PROVE  TokenIInv'
  <1>1. /\ acq[s] \in Acquisition /\ acq[s].phase = "check" /\ acq[s].phase \in Talking
        /\ ~person /\ ~acq[s].cut
    BY TokenParts DEF Check, PromptsAreFirst, Talking, Asking
  <1>2. UNCHANGED <<record, wanted, tok, authenticated, inflight, retryIn, caller, person>>
    BY DEF Check, config
  <1>3. "store" \in Phases /\ "prompt" \in Phases
    BY DEF Phases, Talking, Asking
  <1>4. CASE acq' = [acq EXCEPT ![s].phase = "prompt"]
    <2> DEFINE r == [acq[s] EXCEPT !.phase = "prompt"]
    <2>1. r \in Acquisition /\ r.phase = "prompt" /\ ~r.cut
      BY <1>1, <1>3, AcqTo
    <2>2. acq' = [acq EXCEPT ![s] = r]
      BY <1>4
    <2> HIDE DEF r
    <2>3. r.phase \in Talking \cup {"store"} /\ r.phase # "resume"
      BY <2>1 DEF Talking, Asking
    <2> QED
      BY <1>1, <1>2, <2>1, <2>2, <2>3, AcquisitionGoesOn
  <1>5. CASE acq' = [acq EXCEPT ![s].phase = "store", ![s].cut = TRUE]
    <2> DEFINE r == [acq[s] EXCEPT !.phase = "store", !.cut = TRUE]
    <2>1. r \in Acquisition /\ r.phase = "store"
      BY <1>1, <1>3, AcqCut
    <2>2. acq' = [acq EXCEPT ![s] = r]
      BY <1>5
    <2> HIDE DEF r
    <2>3. r.phase \in Talking \cup {"store"} /\ r.phase \notin Asking /\ r.phase # "resume"
      BY <2>1 DEF Asking
    <2> QED
      BY <1>1, <1>2, <2>1, <2>2, <2>3, AcquisitionGoesOn
  <1> QED
    BY <1>4, <1>5 DEF Check

LEMMA PromptIInv ==
    ASSUME TokenIInv, NEW s \in Slots, Prompt(s)
    PROVE  TokenIInv'
  <1>1. /\ acq[s] \in Acquisition /\ acq[s].phase = "prompt" /\ acq[s].phase \in Talking /\ ~person
    BY TokenParts DEF Prompt, PromptsAreFirst, Talking, Asking
  <1>2. UNCHANGED <<record, wanted, tok, authenticated, inflight, retryIn, caller>>
    BY DEF Prompt
  <1>3. "store" \in Phases /\ "token" \in Phases
    BY DEF Phases, Talking, Asking
  <1>4. CASE acq' = [acq EXCEPT ![s].phase = "token", ![s].signed = TRUE]
    <2> DEFINE r == [acq[s] EXCEPT !.phase = "token", !.signed = TRUE]
    <2>1. r \in Acquisition /\ r.phase = "token" /\ r.signed
      BY <1>1, <1>3, AcqSignedIn
    <2>2. acq' = [acq EXCEPT ![s] = r]
      BY <1>4
    <2> HIDE DEF r
    <2>3. r.phase \in Talking \cup {"store"} /\ r.phase \notin Asking /\ r.phase # "resume"
      BY <2>1 DEF Talking, Asking
    <2> QED
      BY <1>1, <1>2, <2>1, <2>2, <2>3, AcquisitionGoesOn
  <1>5. CASE acq' = [acq EXCEPT ![s].phase = "store"] /\ UNCHANGED person
    <2> DEFINE r == [acq[s] EXCEPT !.phase = "store"]
    <2>1. r \in Acquisition /\ r.phase = "store"
      BY <1>1, <1>3, AcqTo
    <2>2. acq' = [acq EXCEPT ![s] = r]
      BY <1>5
    <2> HIDE DEF r
    <2>3. r.phase \in Talking \cup {"store"} /\ r.phase \notin Asking /\ r.phase # "resume"
      BY <2>1 DEF Asking
    <2> QED
      BY <1>1, <1>2, <1>5, <2>1, <2>2, <2>3, AcquisitionGoesOn
  <1> QED
    BY <1>4, <1>5 DEF Prompt

LEMMA StoreIInv ==
    ASSUME TokenIInv, NEW s \in Slots, Store(s)
    PROVE  TokenIInv'
  <1>1. /\ TokenTypeOK /\ RecordFits /\ OneInFlight /\ SignedInIsKnown /\ PromptsAreFirst /\ WaitersWait
        /\ acq \in [Slots -> Acquisition] /\ caller \in [Callers -> Call] /\ None \notin Slots
    BY TokenParts
  <1> DEFINE r == [acq[s] EXCEPT !.phase = "publish"]
  <1>2. /\ inflight' = None /\ UNCHANGED <<record, wanted, person, caller>>
        /\ acq[s].phase = "store" /\ authenticated' = (authenticated \/ acq[s].signed)
        /\ acq' = [acq EXCEPT ![s] = r]
    BY DEF Store, config
  <1>3. "publish" \in Phases
    BY DEF Phases
  <1>4. r \in Acquisition /\ r.phase = "publish"
    BY <1>1, <1>3, AcqTo
  <1> HIDE DEF r
  <1>5. inflight = s /\ \A q \in Slots \ {s} : acq[q].phase \notin Talking \cup {"store"}
    BY <1>1, <1>2 DEF OneInFlight
  <1>6. \A q \in Slots : acq'[q] = IF q = s THEN r ELSE acq[q]
    BY <1>1, <1>2
  <1>7. TokenTypeOK'
    <2>1. (tok' = None \/ tok' \in [left : Nat, refresh : Nat]) /\ retryIn' \in Nat
      <3>1. \A t \in TokensGranted : t \in [left : Nat, refresh : Nat]
        BY TokenConstantsOK
      <3> QED
        BY <1>1, <3>1, TokenConstantsOK DEF Store, Cache, TokenTypeOK
    <2> QED
      BY <1>1, <1>2, <1>4, <2>1 DEF TokenTypeOK
  <1>8. OneInFlight'
    BY <1>1, <1>2, <1>4, <1>5, <1>6 DEF OneInFlight, Talking, Asking
  <1>9. SignedInIsKnown'
    BY <1>1, <1>2, <1>5 DEF SignedInIsKnown
  <1>10. PromptsAreFirst'
    BY <1>1, <1>2, <1>4, <1>6 DEF PromptsAreFirst, Asking
  <1>11. WaitersWait'
    BY <1>1, <1>2, <1>4, <1>6 DEF WaitersWait
  <1> QED
    BY <1>1, <1>2, <1>7, <1>8, <1>9, <1>10, <1>11 DEF TokenIInv, RecordFits

LEMMA PublishIInv ==
    ASSUME TokenIInv, NEW s \in Slots, Publish(s)
    PROVE  TokenIInv'
  <1>1. /\ TokenTypeOK /\ RecordFits /\ OneInFlight /\ SignedInIsKnown /\ PromptsAreFirst /\ WaitersWait
        /\ acq \in [Slots -> Acquisition] /\ caller \in [Callers -> Call] /\ None \notin Slots
    BY TokenParts
  <1> DEFINE r == IF Waiters(s) = {} THEN Free ELSE [acq[s] EXCEPT !.phase = "done"]
  <1>2. /\ UNCHANGED <<record, wanted, person, caller, inflight, authenticated, tok, retryIn>>
        /\ acq[s].phase = "publish" /\ acq' = [acq EXCEPT ![s] = r]
    BY DEF Publish, config
  <1>3. "done" \in Phases
    BY DEF Phases
  <1>4. r \in Acquisition /\ r.phase \in {"free", "done"} /\ (r.phase = "free" => Waiters(s) = {})
    BY <1>1, <1>3, AcqTo, TokenRest
  <1> HIDE DEF r
  <1>5. inflight # s
    BY <1>1, <1>2 DEF OneInFlight, Talking, Asking
  <1>6. \A q \in Slots : acq'[q] = IF q = s THEN r ELSE acq[q]
    BY <1>1, <1>2
  <1>7. TokenTypeOK'
    BY <1>1, <1>2, <1>4 DEF TokenTypeOK
  <1>8. OneInFlight'
    BY <1>1, <1>2, <1>4, <1>5, <1>6 DEF OneInFlight, Talking, Asking
  <1>9. SignedInIsKnown'
    BY <1>1, <1>2, <1>5, <1>6 DEF SignedInIsKnown
  <1>10. PromptsAreFirst'
    BY <1>1, <1>2, <1>4, <1>6 DEF PromptsAreFirst, Asking
  <1>11. WaitersWait'
    BY <1>1, <1>2, <1>4, <1>6 DEF WaitersWait, Waiters
  <1> QED
    BY <1>1, <1>2, <1>7, <1>8, <1>9, <1>10, <1>11 DEF TokenIInv, RecordFits

LEMMA TokenStepIInv == TokenIInv /\ [TokenNext]_tokenVars => TokenIInv'
  <1> SUFFICES ASSUME TokenIInv, [TokenNext]_tokenVars PROVE TokenIInv'
    OBVIOUS
  <1>1. CASE UNCHANGED <<record, wanted, source, caller>>
    BY <1>1 DEF source, TokenIInv, TokenTypeOK, RecordFits, OneInFlight, SignedInIsKnown,
                PromptsAreFirst, WaitersWait
  <1>2. UNCHANGED tokenVars \/ Close => UNCHANGED <<record, wanted, source, caller>>
    BY DEF tokenVars, config, Close
  <1>3. CASE \E c \in Callers : Connect(c) \/ Look(c) \/ GiveUp(c) \/ CallerStep(c)
    BY <1>3, ConnectIInv, LookIInv, GiveUpIInv, AnsweredIInv, LastLookIInv, WarmedIInv,
       ConnectLoginIInv DEF CallerStep
  <1>4. CASE \E s \in Slots : Acquire(s)
    BY <1>4, RequestIInv, ResumeIInv, CheckIInv, PromptIInv, StoreIInv, PublishIInv DEF Acquire
  <1> QED
    BY <1>1, <1>2, <1>3, <1>4, RestartIInv, TickIInv DEF TokenNext

LEMMA TokenIInvSuffices == TokenIInv => AcquisitionsSound
  <1> SUFFICES ASSUME TokenIInv PROVE AcquisitionsSound
    OBVIOUS
  <1>1. RecordFits /\ OneInFlight /\ PromptsAreFirst /\ WaitersWait /\ inflight \in Slots \cup {None}
    BY TokenParts
  <1>2. PersonAskedOnce
    BY <1>1 DEF PersonAskedOnce, OneInFlight, PromptsAreFirst, Asking
  <1>3. ResumesAsConfigured
    BY <1>1 DEF ResumesAsConfigured, PromptsAreFirst, RecordFits
  <1>4. WaitersAreAnswered
    BY <1>1 DEF WaitersAreAnswered, WaitersWait, OneInFlight
  <1> QED
    BY <1>2, <1>3, <1>4 DEF AcquisitionsSound

\* One acquisition at a time, a person asked at most once, a sign-in as configured, and no
\* waiter forgotten (token_source.go).
THEOREM OneAcquisition == TokenSpec => []AcquisitionsSound
  <1> QED
    BY TokenIInvSuffices, TokenInitIInv, TokenStepIInv, PTL DEF TokenSpec

\* Only a look starts an acquisition, and it starts none while an outage is waited out.
LEMMA LooksStart ==
    ASSUME TokenIInv, [TokenNext]_tokenVars, inflight = None, inflight' # None
    PROVE  retryIn = 0 \/ ~Usable(tok, LastResort)
  <1>1. retryIn \in Nat
    BY DEF TokenIInv, TokenTypeOK
  <1>2. \E c \in Callers : Look(c)
    <2>1. ~UNCHANGED inflight
      OBVIOUS
    <2>2. \A c \in Callers : ~(Connect(c) \/ GiveUp(c) \/ CallerStep(c))
      BY <2>1 DEF Connect, GiveUp, CallerStep, Answered, LastLook, Warmed, ConnectLogin, source
    <2>3. \A s \in Slots : ~Acquire(s)
      BY <2>1 DEF Acquire, Request, Resume, Check, Prompt, Token, Store, Publish
    <2>4. ~Restart /\ ~Tick /\ ~Close /\ ~UNCHANGED tokenVars
      BY <2>1 DEF Restart, Tick, Close, tokenVars, source
    <2> QED
      BY <2>2, <2>3, <2>4 DEF TokenNext
  <1>3. PICK c \in Callers : Look(c)
    BY <1>2
  <1> QED
    BY <1>1, <1>3 DEF Look, Serves, Usable

\* While the cached token is still good, a failed renewal is waited out (token_source.go).
THEOREM OutagesAreWaitedOut == TokenSpec => OutageNotHammered
  <1>1. TokenIInv /\ [TokenNext]_tokenVars
        => [(inflight = None /\ inflight' # None) => (retryIn = 0 \/ ~Usable(tok, LastResort))]_tokenVars
    BY LooksStart
  <1> QED
    BY <1>1, TokenInitIInv, TokenStepIInv, PTL DEF TokenSpec, OutageNotHammered

-----------------------------------------------------------------------------
(* The memory store.                                                       *)

MemoryTypeOK ==
    /\ tombstones \in [DOMAIN tombstones -> 0..Retention] /\ IsFiniteSet(DOMAIN tombstones)
    /\ revocations \in [DOMAIN revocations -> 1..Retention] /\ IsFiniteSet(DOMAIN revocations)

\* The revocations no older than that of id.
NoOlder(rev, id) == {i \in DOMAIN rev \ {id} : rev[i] >= rev[id]}

\* A tombstone that has not run out is of a revocation, and ends with it.
TombstonesAreRevocations ==
    \A id \in DOMAIN tombstones : tombstones[id] > 0
        => id \in DOMAIN revocations /\ revocations[id] = tombstones[id]

\* A revocation that fewer others follow than the set holds has its tombstone.
RecentAreRemembered ==
    \A id \in DOMAIN revocations : Cardinality(NoOlder(revocations, id)) < MaxTombstones
        => id \in DOMAIN tombstones /\ tombstones[id] = revocations[id]

\* What the store holds has no tombstone that still stands.
HeldAreFree == \A id \in DOMAIN held \cap DOMAIN tombstones : tombstones[id] = 0

MemoryIInv == MemoryTypeOK /\ TombstonesAreRevocations /\ RecentAreRemembered /\ HeldAreFree

\* us is ts without some of what has run out.
Thinned(ts, us) ==
    /\ us \in [DOMAIN us -> 0..Retention] /\ IsFiniteSet(DOMAIN us)
    /\ DOMAIN us \subseteq DOMAIN ts
    /\ \A id \in DOMAIN us : us[id] = ts[id]
    /\ \A id \in DOMAIN ts : ts[id] > 0 => id \in DOMAIN us

LEMMA OffFacts ==
    ASSUME NEW f, NEW ids
    PROVE  /\ DOMAIN Off(f, ids) = DOMAIN f \ ids
           /\ \A id \in DOMAIN f \ ids : Off(f, ids)[id] = f[id]
  BY DEF Off

LEMMA WithFacts ==
    ASSUME NEW f, NEW id, NEW v
    PROVE  /\ DOMAIN With(f, id, v) = DOMAIN f \cup {id}
           /\ With(f, id, v)[id] = v
           /\ \A i \in DOMAIN f \ {id} : With(f, id, v)[i] = f[i]
  BY DEF With

LEMMA ThinnedItself ==
    ASSUME NEW ts, ts \in [DOMAIN ts -> 0..Retention], IsFiniteSet(DOMAIN ts)
    PROVE  Thinned(ts, ts)
  BY DEF Thinned

\* Sweeping takes only what has run out.
LEMMA SweepThins ==
    ASSUME NEW ts, ts \in [DOMAIN ts -> 0..Retention], IsFiniteSet(DOMAIN ts), TombstonesSwept(ts)
    PROVE  Thinned(ts, tombstones')
  <1>1. CASE tombstones' = ts
    BY <1>1, ThinnedItself
  <1>2. CASE tombstones' = Off(ts, {id \in DOMAIN ts : ts[id] = 0})
    <2> DEFINE gone == {id \in DOMAIN ts : ts[id] = 0}
               us == Off(ts, gone)
    <2>1. DOMAIN us = DOMAIN ts \ gone /\ \A id \in DOMAIN ts \ gone : us[id] = ts[id]
      BY OffFacts
    <2>2. us = [id \in DOMAIN ts \ gone |-> ts[id]]
      BY DEF Off
    <2>3. us \in [DOMAIN us -> 0..Retention]
      <3> HIDE DEF gone
      <3> QED
        BY <2>2
    <2>4. IsFiniteSet(DOMAIN us)
      BY <2>1, FS_Subset
    <2>5. \A id \in DOMAIN ts : ts[id] > 0 => id \notin gone
      OBVIOUS
    <2> QED
      BY <1>2, <2>1, <2>3, <2>4, <2>5 DEF Thinned
  <1> QED
    BY <1>1, <1>2 DEF TombstonesSwept

\* A step that revokes nothing.
LEMMA NothingRevoked ==
    ASSUME MemoryIInv, Thinned(tombstones, tombstones'), UNCHANGED revocations,
           \A id \in DOMAIN held' : id \in DOMAIN tombstones => tombstones[id] = 0
    PROVE  MemoryIInv'
  <1>1. MemoryTypeOK /\ TombstonesAreRevocations /\ RecentAreRemembered /\ HeldAreFree
    BY DEF MemoryIInv
  <1>2. MemoryTypeOK'
    BY <1>1 DEF MemoryTypeOK, Thinned
  <1>3. TombstonesAreRevocations'
    BY <1>1 DEF TombstonesAreRevocations, Thinned
  <1>4. RecentAreRemembered'
    <2>1. \A id \in DOMAIN revocations : revocations[id] > 0
      BY <1>1 DEF MemoryTypeOK
    <2> QED
      BY <1>1, <2>1 DEF RecentAreRemembered, Thinned
  <1>5. HeldAreFree'
    BY DEF HeldAreFree, Thinned
  <1> QED
    BY <1>2, <1>3, <1>4, <1>5 DEF MemoryIInv

LEMMA MemoryInitIInv == MemoryInit => MemoryIInv
  <1> SUFFICES ASSUME MemoryInit PROVE MemoryIInv
    OBVIOUS
  <1>1. DOMAIN held = {} /\ DOMAIN tombstones = {} /\ DOMAIN revocations = {}
    BY DEF MemoryInit
  <1>2. tombstones \in [{} -> 0..Retention] /\ revocations \in [{} -> 1..Retention]
    BY DEF MemoryInit
  <1> QED
    BY <1>1, <1>2, FS_EmptySet
       DEF MemoryIInv, MemoryTypeOK, TombstonesAreRevocations, RecentAreRemembered, HeldAreFree

LEMMA ElapseIInv ==
    ASSUME MemoryIInv, Elapse
    PROVE  MemoryIInv'
  <1>1. MemoryTypeOK /\ TombstonesAreRevocations /\ RecentAreRemembered /\ HeldAreFree
    BY DEF MemoryIInv
  <1> DEFINE left == {i \in DOMAIN revocations : revocations[i] > 1}
  <1>2. /\ DOMAIN tombstones' = DOMAIN tombstones /\ DOMAIN held' = DOMAIN held
        /\ \A id \in DOMAIN tombstones : tombstones'[id] = Sooner(tombstones[id])
        /\ DOMAIN revocations' = left /\ \A id \in left : revocations'[id] = revocations[id] - 1
        /\ revocations' = [id \in left |-> revocations[id] - 1]
    BY DEF Elapse
  <1>3. /\ \A id \in DOMAIN tombstones : tombstones[id] \in 0..Retention
        /\ \A id \in DOMAIN revocations : revocations[id] \in 1..Retention
    BY <1>1 DEF MemoryTypeOK
  <1>4. \A n \in 0..Retention : Sooner(n) \in 0..Retention /\ Sooner(n) = IF n = 0 THEN 0 ELSE n - 1
    BY MemoryAssumption DEF Sooner
  <1>5. MemoryTypeOK'
    <2>1. tombstones' \in [DOMAIN tombstones' -> 0..Retention]
      BY <1>3, <1>4 DEF Elapse
    <2>2. \A id \in left : revocations[id] - 1 \in 1..Retention
      BY <1>3, MemoryAssumption
    <2>3. revocations' \in [DOMAIN revocations' -> 1..Retention]
      <3> HIDE DEF left
      <3> QED
        BY <1>2, <2>2
    <2>4. IsFiniteSet(left)
      BY <1>1, FS_Subset DEF MemoryTypeOK
    <2> QED
      BY <1>1, <1>2, <2>1, <2>3, <2>4 DEF MemoryTypeOK
  <1>6. TombstonesAreRevocations'
    <2> SUFFICES ASSUME NEW id \in DOMAIN tombstones, tombstones'[id] > 0
                 PROVE  id \in left /\ revocations'[id] = tombstones'[id]
      BY <1>2 DEF TombstonesAreRevocations
    <2>1. tombstones'[id] = tombstones[id] - 1 /\ tombstones[id] > 1
      BY <1>2, <1>3, <1>4, MemoryAssumption
    <2>2. id \in DOMAIN revocations /\ revocations[id] = tombstones[id]
      BY <1>1, <1>3, <2>1, MemoryAssumption DEF TombstonesAreRevocations
    <2> QED
      BY <1>2, <2>1, <2>2
  <1>7. RecentAreRemembered'
    <2> SUFFICES ASSUME NEW id \in left, Cardinality(NoOlder(revocations', id)) < MaxTombstones
                 PROVE  id \in DOMAIN tombstones /\ tombstones'[id] = revocations'[id]
      BY <1>2 DEF RecentAreRemembered
    <2>1. NoOlder(revocations', id) = NoOlder(revocations, id)
      <3>1. \A i \in DOMAIN revocations : revocations[i] >= revocations[id] => i \in left
        BY <1>3, MemoryAssumption
      <3>2. \A i \in left : revocations'[i] >= revocations'[id] <=> revocations[i] >= revocations[id]
        BY <1>2, <1>3, MemoryAssumption
      <3> QED
        BY <1>2, <3>1, <3>2 DEF NoOlder
    <2>2. id \in DOMAIN tombstones /\ tombstones[id] = revocations[id]
      BY <1>1, <2>1 DEF RecentAreRemembered
    <2>3. tombstones'[id] = IF tombstones[id] = 0 THEN 0 ELSE tombstones[id] - 1
      BY <1>2, <1>3, <1>4, <2>2
    <2> QED
      BY <1>2, <1>3, <2>2, <2>3, MemoryAssumption
  <1>8. HeldAreFree'
    BY <1>1, <1>2 DEF HeldAreFree, Sooner
  <1> QED
    BY <1>5, <1>6, <1>7, <1>8 DEF MemoryIInv

LEMMA AddSessionIInv ==
    ASSUME MemoryIInv, NEW id, NEW left, AddSession(id, left)
    PROVE  MemoryIInv'
  <1>1. MemoryTypeOK /\ HeldAreFree
    BY DEF MemoryIInv
  <1> DEFINE stored == With(held, id, left)
  <1>2. DOMAIN stored = DOMAIN held \cup {id}
    BY WithFacts
  <1>3. DOMAIN held' \subseteq DOMAIN held \cup {id}
    <2>1. CASE held' = stored
      BY <1>2, <2>1
    <2>2. CASE held' = Off(stored, Expired(stored))
      <3> HIDE DEF stored
      <3> QED
        BY <1>2, <2>2, OffFacts
    <2> QED
      BY <2>1, <2>2 DEF AddSession
  <1>4. Thinned(tombstones, tombstones')
    BY <1>1, ThinnedItself, SweepThins DEF AddSession, MemoryTypeOK
  <1>5. UNCHANGED revocations /\ (id \in DOMAIN tombstones => tombstones[id] = 0)
    BY DEF AddSession
  <1>6. \A i \in DOMAIN held' : i \in DOMAIN tombstones => tombstones[i] = 0
    BY <1>1, <1>3, <1>5 DEF HeldAreFree
  <1> QED
    BY <1>4, <1>5, <1>6, NothingRevoked

LEMMA SetExpiryIInv ==
    ASSUME MemoryIInv, NEW id, NEW left, SetExpiry(id, left)
    PROVE  MemoryIInv'
  <1>1. MemoryTypeOK /\ HeldAreFree
    BY DEF MemoryIInv
  <1>2. DOMAIN held' = DOMAIN held /\ UNCHANGED revocations
    BY DEF SetExpiry
  <1>3. Thinned(tombstones, tombstones')
    BY <1>1, ThinnedItself DEF SetExpiry, MemoryTypeOK
  <1>4. \A i \in DOMAIN held' : i \in DOMAIN tombstones => tombstones[i] = 0
    BY <1>1, <1>2 DEF HeldAreFree
  <1> QED
    BY <1>2, <1>3, <1>4, NothingRevoked

LEMMA ClearIInv ==
    ASSUME MemoryIInv, ClearExpiredSessions
    PROVE  MemoryIInv'
  <1>1. MemoryTypeOK /\ HeldAreFree
    BY DEF MemoryIInv
  <1>2. DOMAIN held' \subseteq DOMAIN held /\ UNCHANGED revocations
    <2> DEFINE gone == Expired(held)
    <2>1. held' = Off(held, gone) /\ UNCHANGED revocations
      BY DEF ClearExpiredSessions
    <2> HIDE DEF gone
    <2>2. DOMAIN Off(held, gone) = DOMAIN held \ gone
      BY OffFacts
    <2> QED
      BY <2>1, <2>2
  <1>3. Thinned(tombstones, tombstones')
    BY <1>1, SweepThins DEF ClearExpiredSessions, MemoryTypeOK
  <1>4. \A i \in DOMAIN held' : i \in DOMAIN tombstones => tombstones[i] = 0
    BY <1>1, <1>2 DEF HeldAreFree
  <1> QED
    BY <1>2, <1>3, <1>4, NothingRevoked

\* Making room takes one tombstone at most, and only one that as many others follow as the set
\* holds: those that stay, and the one the room is for.
LEMMA EvictionTakesTheOldest ==
    ASSUME MemoryIInv, NEW room \in EvictOldest(tombstones)
    PROVE  /\ room \in [DOMAIN room -> 0..Retention] /\ IsFiniteSet(DOMAIN room)
           /\ DOMAIN room \subseteq DOMAIN tombstones
           /\ \A i \in DOMAIN room : room[i] = tombstones[i]
           /\ \A i \in DOMAIN tombstones \ DOMAIN room :
                 /\ Cardinality(DOMAIN tombstones) >= MaxTombstones
                 /\ \A j \in DOMAIN tombstones : tombstones[i] <= tombstones[j]
                 /\ DOMAIN room = DOMAIN tombstones \ {i}
  <1>1. MemoryTypeOK
    BY DEF MemoryIInv
  <1>2. CASE room = tombstones
    BY <1>1, <1>2 DEF MemoryTypeOK
  <1>3. CASE room # tombstones
    <2>1. PICK i \in DOMAIN tombstones :
             /\ room = Off(tombstones, {i})
             /\ \A j \in DOMAIN tombstones : tombstones[i] <= tombstones[j]
             /\ ~(Cardinality(DOMAIN tombstones) < MaxTombstones)
      BY <1>3 DEF EvictOldest
    <2>2. DOMAIN room = DOMAIN tombstones \ {i} /\ \A j \in DOMAIN tombstones \ {i} : room[j] = tombstones[j]
      BY <2>1, OffFacts
    <2>3. IsFiniteSet(DOMAIN room)
      BY <1>1, <2>2, FS_Subset DEF MemoryTypeOK
    <2>4. room \in [DOMAIN room -> 0..Retention]
      BY <1>1, <2>1 DEF MemoryTypeOK, Off
    <2>5. Cardinality(DOMAIN tombstones) \in Nat
      BY <1>1, FS_CardinalityType DEF MemoryTypeOK
    <2> QED
      BY <2>1, <2>2, <2>3, <2>4, <2>5, MemoryAssumption
  <1> QED
    BY <1>2, <1>3

\* Cardinalities of the two sets that the revocation of id0 compares.
LEMMA FullMeansFollowed ==
    ASSUME NEW S, IsFiniteSet(S), NEW i \in S, NEW x, x \notin S, NEW T, IsFiniteSet(T),
           (S \ {i}) \cup {x} \subseteq T
    PROVE  Cardinality(T) >= Cardinality(S) /\ Cardinality(T) \in Nat
  <1>1. IsFiniteSet(S \ {i}) /\ Cardinality(S \ {i}) = Cardinality(S) - 1 /\ Cardinality(S) \in Nat
    BY FS_RemoveElement, FS_CardinalityType
  <1>2. IsFiniteSet((S \ {i}) \cup {x}) /\ Cardinality((S \ {i}) \cup {x}) = Cardinality(S \ {i}) + 1
    BY <1>1, FS_AddElement
  <1>3. Cardinality((S \ {i}) \cup {x}) <= Cardinality(T) /\ Cardinality(T) \in Nat
    BY FS_Subset, FS_CardinalityType
  <1> QED
    BY <1>1, <1>2, <1>3

\* A revocation that still stands behind fewer others than the set holds is not the one evicted.
LEMMA RecentStays ==
    ASSUME MemoryIInv, NEW id \in DOMAIN held, NEW room \in EvictOldest(tombstones),
           NEW rev, rev = With(revocations, id, Retention),
           NEW j \in DOMAIN revocations \ {id}, Cardinality(NoOlder(rev, j)) < MaxTombstones
    PROVE  j \in DOMAIN room /\ tombstones[j] = revocations[j]
  <1>1. MemoryTypeOK /\ TombstonesAreRevocations /\ RecentAreRemembered /\ HeldAreFree
    BY DEF MemoryIInv
  <1>2. /\ DOMAIN rev = DOMAIN revocations \cup {id} /\ rev[id] = Retention
        /\ \A i \in DOMAIN revocations \ {id} : rev[i] = revocations[i]
    BY DEF With
  <1>3. /\ \A i \in DOMAIN tombstones : tombstones[i] \in 0..Retention
        /\ \A i \in DOMAIN revocations : revocations[i] \in 1..Retention
        /\ IsFiniteSet(DOMAIN tombstones) /\ IsFiniteSet(DOMAIN revocations)
    BY <1>1 DEF MemoryTypeOK
  <1>4. IsFiniteSet(NoOlder(rev, j))
    <2>1. NoOlder(rev, j) \in SUBSET (DOMAIN revocations \cup {id})
      BY <1>2 DEF NoOlder
    <2>2. IsFiniteSet(DOMAIN revocations \cup {id})
      BY <1>3, FS_AddElement
    <2> QED
      BY <2>1, <2>2, FS_Subset
  <1>5. NoOlder(revocations, j) \subseteq NoOlder(rev, j)
    <2> SUFFICES ASSUME NEW i \in DOMAIN revocations, i # j, revocations[i] >= revocations[j]
                 PROVE  i \in NoOlder(rev, j)
      BY DEF NoOlder
    <2>1. rev[i] >= rev[j]
      BY <1>2, <1>3, MemoryAssumption
    <2> QED
      BY <1>2, <2>1 DEF NoOlder
  <1>6. /\ Cardinality(NoOlder(revocations, j)) <= Cardinality(NoOlder(rev, j))
        /\ IsFiniteSet(NoOlder(revocations, j))
    BY <1>4, <1>5, FS_Subset
  <1>7. Cardinality(NoOlder(revocations, j)) < MaxTombstones
    BY <1>4, <1>6, FS_CardinalityType, MemoryAssumption
  <1>8. j \in DOMAIN tombstones /\ tombstones[j] = revocations[j]
    BY <1>1, <1>7 DEF RecentAreRemembered
  <1>9. j \in DOMAIN room
    <2> SUFFICES ASSUME j \notin DOMAIN room PROVE FALSE
      OBVIOUS
    <2>1. /\ Cardinality(DOMAIN tombstones) >= MaxTombstones
          /\ \A i \in DOMAIN tombstones : tombstones[j] <= tombstones[i]
      BY <1>8, EvictionTakesTheOldest
    <2>2. \A i \in DOMAIN tombstones : /\ i \in DOMAIN revocations
                                     /\ revocations[i] = tombstones[i] /\ tombstones[i] > 0
                                     /\ revocations[i] >= revocations[j]
      BY <1>1, <1>3, <1>8, <2>1, MemoryAssumption DEF TombstonesAreRevocations
    <2>3. id \notin DOMAIN tombstones
      BY <1>1, <1>3, <2>2 DEF HeldAreFree
    <2>4. (DOMAIN tombstones \ {j}) \cup {id} \subseteq NoOlder(rev, j)
      <3>1. \A i \in DOMAIN tombstones \ {j} : i \in NoOlder(rev, j)
        BY <1>2, <2>2, <2>3 DEF NoOlder
      <3>2. id \in NoOlder(rev, j)
        BY <1>2, <1>3, MemoryAssumption DEF NoOlder
      <3> QED
        BY <3>1, <3>2
    <2>5. /\ Cardinality(NoOlder(rev, j)) >= Cardinality(DOMAIN tombstones)
          /\ Cardinality(NoOlder(rev, j)) \in Nat
      BY <1>3, <1>4, <1>8, <2>3, <2>4, FullMeansFollowed
    <2> QED
      BY <1>3, <2>1, <2>5, FS_CardinalityType, MemoryAssumption
  <1> QED
    BY <1>8, <1>9

LEMMA RevokeIInv ==
    ASSUME MemoryIInv, NEW id, Revoke(id)
    PROVE  MemoryIInv'
  <1>1. MemoryTypeOK /\ TombstonesAreRevocations /\ RecentAreRemembered /\ HeldAreFree
    BY DEF MemoryIInv
  <1>2. held' = Off(held, {id}) /\ DOMAIN held' = DOMAIN held \ {id}
    BY OffFacts DEF Revoke
  <1>3. CASE id \notin DOMAIN held
    <2>1. Thinned(tombstones, tombstones') /\ UNCHANGED revocations
      BY <1>1, <1>3, SweepThins DEF Revoke, MemoryTypeOK
    <2>2. \A i \in DOMAIN held' : i \in DOMAIN tombstones => tombstones[i] = 0
      BY <1>1, <1>2 DEF HeldAreFree
    <2> QED
      BY <2>1, <2>2, NothingRevoked
  <1>4. CASE id \in DOMAIN held
    <2>1. PICK room \in EvictOldest(tombstones) : TombstonesSwept(With(room, id, Retention))
      BY <1>4 DEF Revoke
    <2> DEFINE ts == With(room, id, Retention)
    <2>2. revocations' = With(revocations, id, Retention)
      BY <1>4 DEF Revoke
    <2>3. /\ DOMAIN revocations' = DOMAIN revocations \cup {id} /\ revocations'[id] = Retention
          /\ \A i \in DOMAIN revocations \ {id} : revocations'[i] = revocations[i]
      BY <2>2 DEF With
    <2>4. /\ room \in [DOMAIN room -> 0..Retention] /\ IsFiniteSet(DOMAIN room)
          /\ DOMAIN room \subseteq DOMAIN tombstones
          /\ \A i \in DOMAIN room : room[i] = tombstones[i]
      BY EvictionTakesTheOldest
    <2>5. /\ DOMAIN ts = DOMAIN room \cup {id} /\ ts[id] = Retention
          /\ \A i \in DOMAIN room \ {id} : ts[i] = room[i]
      BY DEF With
    <2>6. ts \in [DOMAIN ts -> 0..Retention] /\ IsFiniteSet(DOMAIN ts)
      <3>1. \A i \in DOMAIN ts : ts[i] \in 0..Retention
        <4> HIDE DEF ts
        <4> QED
          BY <2>4, <2>5, MemoryAssumption
      <3>2. ts = [i \in DOMAIN ts |-> ts[i]]
        BY DEF With
      <3> HIDE DEF ts
      <3>3. IsFiniteSet(DOMAIN ts)
        BY <2>4, <2>5, FS_AddElement
      <3> QED
        BY <3>1, <3>2, <3>3
    <2> HIDE DEF ts
    <2>7. Thinned(ts, tombstones')
      <3>1. TombstonesSwept(ts)
        BY <2>1 DEF ts
      <3> QED
        BY <2>6, <3>1, SweepThins
    <2>8. MemoryTypeOK'
      <3>1. IsFiniteSet(DOMAIN revocations')
        BY <1>1, <2>3, FS_AddElement DEF MemoryTypeOK
      <3>2. \A i \in DOMAIN revocations' : revocations'[i] \in 1..Retention
        BY <1>1, <2>3, MemoryAssumption DEF MemoryTypeOK
      <3>3. revocations' = [i \in DOMAIN revocations' |-> revocations'[i]]
        BY <2>2 DEF With
      <3>4. revocations' \in [DOMAIN revocations' -> 1..Retention]
        BY <3>2, <3>3
      <3> QED
        BY <2>7, <3>1, <3>4 DEF MemoryTypeOK, Thinned
    <2>9. TombstonesAreRevocations'
      BY <1>1, <2>3, <2>4, <2>5, <2>7 DEF TombstonesAreRevocations, Thinned
    <2>10. RecentAreRemembered'
      <3> SUFFICES ASSUME NEW j \in DOMAIN revocations \cup {id},
                          Cardinality(NoOlder(revocations', j)) < MaxTombstones
                   PROVE  j \in DOMAIN tombstones' /\ tombstones'[j] = revocations'[j]
        BY <2>3 DEF RecentAreRemembered
      <3>1. CASE j = id
        BY <2>3, <2>5, <2>7, <3>1, MemoryAssumption DEF Thinned
      <3>2. CASE j # id
        <4>1. j \in DOMAIN revocations \ {id}
          BY <3>2
        <4>2. j \in DOMAIN room /\ tombstones[j] = revocations[j]
          BY <1>4, <2>2, <4>1, RecentStays
        <4>3. ts[j] = revocations[j] /\ revocations[j] > 0 /\ j \in DOMAIN ts
          BY <1>1, <2>4, <2>5, <4>1, <4>2, MemoryAssumption DEF MemoryTypeOK
        <4> QED
          BY <2>3, <2>7, <4>1, <4>3 DEF Thinned
      <3> QED
        BY <3>1, <3>2
    <2>11. HeldAreFree'
      BY <1>1, <1>2, <2>4, <2>5, <2>7 DEF HeldAreFree, Thinned
    <2> QED
      BY <2>8, <2>9, <2>10, <2>11 DEF MemoryIInv
  <1> QED
    BY <1>3, <1>4

LEMMA MemoryStepIInv == MemoryIInv /\ [MemoryNext]_memoryVars => MemoryIInv'
  <1> SUFFICES ASSUME MemoryIInv, [MemoryNext]_memoryVars PROVE MemoryIInv'
    OBVIOUS
  <1>1. CASE UNCHANGED memoryVars
    BY <1>1 DEF memoryVars, MemoryIInv, MemoryTypeOK, TombstonesAreRevocations,
                RecentAreRemembered, HeldAreFree
  <1>2. CASE MemoryNext
    BY <1>2, ElapseIInv, AddSessionIInv, SetExpiryIInv, ClearIInv, RevokeIInv DEF MemoryNext
  <1> QED
    BY <1>1, <1>2

\* A revoked session is not put back by whoever still holds it, while its retention runs and
\* the set has room for it (memory_session.go).
THEOREM RevokedIsOut == MemorySpec => []RevokedStaysOut
  <1>1. MemoryIInv => RevokedStaysOut
    <2> SUFFICES ASSUME MemoryIInv, NEW id \in DOMAIN revocations,
                        Cardinality(NoOlder(revocations, id)) < MaxTombstones
                 PROVE  id \notin DOMAIN held
      BY DEF RevokedStaysOut, NoOlder
    <2>1. id \in DOMAIN tombstones /\ tombstones[id] = revocations[id] /\ revocations[id] # 0
      BY DEF MemoryIInv, MemoryTypeOK, RecentAreRemembered
    <2> QED
      BY <2>1 DEF MemoryIInv, HeldAreFree
  <1> QED
    BY <1>1, MemoryInitIInv, MemoryStepIInv, PTL DEF MemorySpec

-----------------------------------------------------------------------------
(* The limiter.                                                            *)

LimitTypeOK ==
    /\ DOMAIN bucket \subseteq Keys
    /\ \A k \in DOMAIN bucket :
          bucket[k] \in [tokens : 0..Capacity(k), refilled : 0..Window[k], seen : 0..(2 * Longest + 1)]
    /\ ideal \in [Keys -> Nat]

\* A bucket has been refilled since it was seen, up to what fills it whatever it held.
FillsWhileIdle ==
    \A k \in DOMAIN bucket : bucket[k].refilled = Lesser(bucket[k].seen, Window[k])

LimitIInv == LimitTypeOK /\ FillsWhileIdle /\ SweepUnseen

LEMMA LongestWindow ==
    /\ Longest \in Nat \ {0}
    /\ \A k \in Keys : Window[k] <= Longest
  <1> DEFINE windows == {Window[k] : k \in Keys}
  <1>1. \E w \in windows : \A k \in Keys : Window[k] <= w
    BY LimitAssumption
  <1>2. Longest \in windows /\ \A k \in Keys : Window[k] <= Longest
    BY <1>1 DEF Longest
  <1> QED
    BY <1>2, LimitAssumption

\* Arithmetic of a fill: from where it stops it is full whatever was there, and until then a
\* unit of time adds Burst.
LEMMA Filling ==
    ASSUME NEW b \in Nat, NEW w \in Nat, NEW r \in 0..w, NEW t \in Nat
    PROVE  /\ r * b \in Nat /\ b * w \in Nat /\ w * b = b * w /\ (r + 1) * b = r * b + b
           /\ 0 * b = 0
  OBVIOUS

LEMMA CapacityFacts ==
    ASSUME NEW k \in Keys
    PROVE  /\ Capacity(k) \in Nat /\ Burst[k] \in Nat /\ Window[k] \in Nat \ {0}
           /\ Window[k] * Burst[k] = Capacity(k)
  BY LimitAssumption DEF Capacity

\* A full bucket: one that has been refilled for a window.
LEMMA FullAfterAWindow ==
    ASSUME NEW k \in Keys, NEW b, b.tokens \in Nat, b.refilled = Window[k]
    PROVE  Refilled(b, k) = Capacity(k)
  BY CapacityFacts DEF Refilled, Lesser

\* A unit of time adds Burst to a bucket, until it is full.
LEMMA FillsByBurst ==
    ASSUME NEW k \in Keys, NEW b, b.tokens \in Nat, b.refilled \in 0..Window[k],
           NEW c, c.tokens = b.tokens, c.refilled = Lesser(b.refilled + 1, Window[k])
    PROVE  Refilled(c, k) = Lesser(Refilled(b, k) + Burst[k], Capacity(k))
  <1>1. /\ Capacity(k) \in Nat /\ Burst[k] \in Nat /\ Window[k] \in Nat \ {0}
        /\ Window[k] * Burst[k] = Capacity(k)
    BY CapacityFacts
  <1>2. CASE b.refilled = Window[k]
    <2>1. c.refilled = Window[k]
      BY <1>1, <1>2 DEF Lesser
    <2>2. Refilled(c, k) = Capacity(k) /\ Refilled(b, k) = Capacity(k)
      BY <1>2, <2>1, FullAfterAWindow
    <2> QED
      BY <1>1, <2>2 DEF Lesser
  <1>3. CASE b.refilled # Window[k]
    <2>1. c.refilled = b.refilled + 1 /\ b.refilled \in Nat
      <3>1. b.refilled \in Nat /\ b.refilled < Window[k]
        BY <1>1, <1>3
      <3>2. b.refilled + 1 <= Window[k]
        BY <1>1, <3>1
      <3>3. Lesser(b.refilled + 1, Window[k]) = b.refilled + 1
        BY <1>1, <3>1, <3>2 DEF Lesser
      <3> QED
        BY <3>1, <3>3
    <2> DEFINE x == b.refilled * Burst[k]
    <2>2. x \in Nat /\ (b.refilled + 1) * Burst[k] = x + Burst[k]
      BY <1>1, <2>1
    <2> HIDE DEF x
    <2>3. /\ Refilled(b, k) = Lesser(b.tokens + x, Capacity(k))
          /\ Refilled(c, k) = Lesser(b.tokens + (x + Burst[k]), Capacity(k))
      BY <2>1, <2>2 DEF Refilled, x
    <2> QED
      BY <1>1, <2>2, <2>3 DEF Lesser
  <1> QED
    BY <1>2, <1>3

LEMMA RefilledType ==
    ASSUME NEW k \in Keys, NEW b, b.tokens \in Nat, b.refilled \in 0..Window[k]
    PROVE  Refilled(b, k) \in 0..Capacity(k)
  <1>1. /\ Capacity(k) \in Nat /\ Burst[k] \in Nat /\ Window[k] \in Nat
    BY CapacityFacts
  <1>2. b.refilled * Burst[k] \in Nat
    BY <1>1
  <1> QED
    BY <1>1, <1>2 DEF Refilled, Lesser

\* What a sweep leaves: some buckets, as they were; and of the ones it takes that belong to a
\* shortest window, none that was not full.
LEMMA SweepTakesFull ==
    ASSUME LimitIInv, NEW k0 \in Keys
    PROVE  /\ DOMAIN Swept(Window[k0]) \subseteq DOMAIN bucket
           /\ \A k \in DOMAIN Swept(Window[k0]) : Swept(Window[k0])[k] = bucket[k]
           /\ \A k \in DOMAIN bucket \ DOMAIN Swept(Window[k0]) :
                 (\A j \in Keys : Window[k] <= Window[j]) => ideal[k] = Capacity(k)
  <1> DEFINE w == Window[k0]
             idle == {j \in DOMAIN bucket : Idle(bucket[j].seen, w)}
  <1>1. /\ DOMAIN Swept(w) \subseteq DOMAIN bucket
        /\ \A k \in DOMAIN Swept(w) : Swept(w)[k] = bucket[k]
        /\ \A k \in DOMAIN bucket \ DOMAIN Swept(w) : Idle(bucket[k].seen, w)
    BY DEF Swept
  <1>2. ASSUME NEW k \in DOMAIN bucket, Idle(bucket[k].seen, w), \A j \in Keys : Window[k] <= Window[j]
        PROVE  ideal[k] = Capacity(k)
    <2>1. /\ k \in Keys /\ bucket[k].tokens \in Nat /\ bucket[k].seen \in Nat
          /\ bucket[k].refilled = Lesser(bucket[k].seen, Window[k])
          /\ ideal[k] = Refilled(bucket[k], k)
      <3>1. k \in Keys
        BY DEF LimitIInv, LimitTypeOK
      <3>2. /\ bucket[k] \in [tokens : 0..Capacity(k), refilled : 0..Window[k], seen : 0..(2 * Longest + 1)]
            /\ bucket[k].refilled = Lesser(bucket[k].seen, Window[k])
        BY DEF LimitIInv, LimitTypeOK, FillsWhileIdle
      <3>3. ideal[k] = Refilled(bucket[k], k)
        BY <1>2, <3>1 DEF LimitIInv, SweepUnseen
      <3>4. 0..Capacity(k) \subseteq Nat /\ 0..(2 * Longest + 1) \subseteq Nat
        OBVIOUS
      <3> QED
        BY <3>1, <3>2, <3>3, <3>4
    <2>2. Window[k] <= w /\ bucket[k].seen > 2 * w /\ w \in Nat /\ Window[k] \in Nat
      BY <1>2, <2>1, CapacityFacts DEF Idle
    <2>3. bucket[k].refilled = Window[k]
      BY <2>1, <2>2 DEF Lesser
    <2> QED
      BY <2>1, <2>3, FullAfterAWindow
  <1> QED
    BY <1>1, <1>2

LEMMA LimitInitIInv == LimitInit => LimitIInv
  <1> SUFFICES ASSUME LimitInit PROVE LimitIInv
    OBVIOUS
  <1>1. DOMAIN bucket = {}
    BY DEF LimitInit
  <1>2. \A k \in Keys : ideal[k] = Capacity(k) /\ Capacity(k) \in Nat
    BY CapacityFacts DEF LimitInit
  <1>3. ideal \in [Keys -> Nat]
    BY <1>2 DEF LimitInit
  <1> QED
    BY <1>1, <1>2, <1>3 DEF LimitIInv, LimitTypeOK, FillsWhileIdle, SweepUnseen

\* A bucket a unit of time later.
Older(b, k) == [b EXCEPT !.refilled = Lesser(@ + 1, Window[k]), !.seen = Lesser(@ + 1, 2 * Longest + 1)]

LEMMA OlderFacts ==
    ASSUME NEW k \in Keys,
           NEW b \in [tokens : 0..Capacity(k), refilled : 0..Window[k], seen : 0..(2 * Longest + 1)]
    PROVE  /\ Older(b, k) \in [tokens : 0..Capacity(k), refilled : 0..Window[k], seen : 0..(2 * Longest + 1)]
           /\ Older(b, k).tokens = b.tokens
           /\ Older(b, k).refilled = Lesser(b.refilled + 1, Window[k])
           /\ Older(b, k).seen = Lesser(b.seen + 1, 2 * Longest + 1)
  <1> DEFINE g == [b EXCEPT !.refilled = Lesser(b.refilled + 1, Window[k])]
  <1>1. Older(b, k) = [g EXCEPT !.seen = Lesser(b.seen + 1, 2 * Longest + 1)]
    BY DEF Older
  <1>2. /\ Lesser(b.refilled + 1, Window[k]) \in 0..Window[k]
        /\ Lesser(b.seen + 1, 2 * Longest + 1) \in 0..(2 * Longest + 1)
    BY CapacityFacts, LongestWindow DEF Lesser
  <1>3. /\ g \in [tokens : 0..Capacity(k), refilled : 0..Window[k], seen : 0..(2 * Longest + 1)]
        /\ g.tokens = b.tokens /\ g.refilled = Lesser(b.refilled + 1, Window[k])
    BY <1>2
  <1> HIDE DEF g
  <1> QED
    BY <1>1, <1>2, <1>3

LEMMA PassIInv ==
    ASSUME LimitIInv, Pass
    PROVE  LimitIInv'
  <1>1. /\ DOMAIN bucket \subseteq Keys /\ ideal \in [Keys -> Nat]
        /\ \A k \in DOMAIN bucket :
              /\ bucket[k] \in [tokens : 0..Capacity(k), refilled : 0..Window[k], seen : 0..(2 * Longest + 1)]
              /\ bucket[k].refilled = Lesser(bucket[k].seen, Window[k])
    BY DEF LimitIInv, LimitTypeOK, FillsWhileIdle
  <1>2. /\ DOMAIN bucket' = DOMAIN bucket
        /\ \A k \in DOMAIN bucket : bucket'[k] = Older(bucket[k], k)
        /\ ideal' = [k \in Keys |-> Lesser(ideal[k] + Burst[k], Capacity(k))]
    BY DEF Pass, Older
  <1>3. \A k \in DOMAIN bucket :
           /\ bucket'[k] \in [tokens : 0..Capacity(k), refilled : 0..Window[k], seen : 0..(2 * Longest + 1)]
           /\ bucket'[k].tokens = bucket[k].tokens
           /\ bucket'[k].refilled = Lesser(bucket[k].refilled + 1, Window[k])
           /\ bucket'[k].seen = Lesser(bucket[k].seen + 1, 2 * Longest + 1)
    BY <1>1, <1>2, OlderFacts
  <1>4. \A k \in Keys : Lesser(ideal[k] + Burst[k], Capacity(k)) \in Nat
    BY <1>1, CapacityFacts DEF Lesser
  <1>5. LimitTypeOK'
    BY <1>1, <1>2, <1>3, <1>4 DEF LimitTypeOK
  <1>6. FillsWhileIdle'
    <2> SUFFICES ASSUME NEW k \in DOMAIN bucket
                 PROVE  bucket'[k].refilled = Lesser(bucket'[k].seen, Window[k])
      BY <1>2 DEF FillsWhileIdle
    <2>1. k \in Keys /\ bucket[k].seen \in 0..(2 * Longest + 1)
      BY <1>1
    <2>2. Window[k] \in Nat /\ Window[k] <= Longest /\ Longest \in Nat
      BY <2>1, CapacityFacts, LongestWindow
    <2> QED
      BY <1>1, <1>3, <2>1, <2>2 DEF Lesser
  <1>7. SweepUnseen'
    <2> SUFFICES ASSUME NEW k \in Keys, \A j \in Keys : Window[k] <= Window[j]
                 PROVE  ideal'[k] = IF k \in DOMAIN bucket THEN Refilled(bucket'[k], k) ELSE Capacity(k)
      BY <1>2 DEF SweepUnseen
    <2>1. ideal[k] = IF k \in DOMAIN bucket THEN Refilled(bucket[k], k) ELSE Capacity(k)
      BY DEF LimitIInv, SweepUnseen
    <2>2. CASE k \in DOMAIN bucket
      <3>1. /\ bucket[k].tokens \in Nat /\ bucket[k].refilled \in 0..Window[k]
            /\ bucket'[k].tokens = bucket[k].tokens
            /\ bucket'[k].refilled = Lesser(bucket[k].refilled + 1, Window[k])
        BY <1>1, <1>3, <2>2
      <3>2. Refilled(bucket'[k], k) = Lesser(Refilled(bucket[k], k) + Burst[k], Capacity(k))
        BY <3>1, FillsByBurst
      <3> QED
        BY <1>2, <2>1, <2>2, <3>2
    <2>3. CASE k \notin DOMAIN bucket
      BY <1>2, <2>1, <2>3, CapacityFacts DEF Lesser
    <2> QED
      BY <2>2, <2>3
  <1> QED
    BY <1>5, <1>6, <1>7 DEF LimitIInv

LEMMA AllowIInv ==
    ASSUME LimitIInv, NEW k0 \in Keys, Allow(k0)
    PROVE  LimitIInv'
  <1> DEFINE kept == Swept(Window[k0])
             tokens == IF k0 \in DOMAIN kept THEN Refilled(kept[k0], k0) ELSE Capacity(k0)
             left == IF tokens >= Window[k0] THEN tokens - Window[k0] ELSE tokens
             made == [tokens |-> left, refilled |-> 0, seen |-> 0]
  <1>1. /\ DOMAIN bucket \subseteq Keys /\ ideal \in [Keys -> Nat]
        /\ \A k \in DOMAIN bucket :
              /\ bucket[k] \in [tokens : 0..Capacity(k), refilled : 0..Window[k], seen : 0..(2 * Longest + 1)]
              /\ bucket[k].refilled = Lesser(bucket[k].seen, Window[k])
    BY DEF LimitIInv, LimitTypeOK, FillsWhileIdle
  <1>2. /\ DOMAIN kept \subseteq DOMAIN bucket
        /\ \A k \in DOMAIN kept : kept[k] = bucket[k]
        /\ \A k \in DOMAIN bucket \ DOMAIN kept :
              (\A j \in Keys : Window[k] <= Window[j]) => ideal[k] = Capacity(k)
    BY SweepTakesFull
  <1>3. /\ DOMAIN bucket' = DOMAIN kept \cup {k0}
        /\ \A j \in DOMAIN kept \cup {k0} : bucket'[j] = IF j = k0 THEN made ELSE kept[j]
        /\ ideal' = IF ideal[k0] >= Window[k0] THEN [ideal EXCEPT ![k0] = ideal[k0] - Window[k0]] ELSE ideal
    BY DEF Allow
  <1> HIDE DEF kept
  <1>4. /\ Capacity(k0) \in Nat /\ Window[k0] \in Nat \ {0} /\ Burst[k0] \in Nat /\ Longest \in Nat
    BY CapacityFacts, LongestWindow
  <1>5. tokens \in 0..Capacity(k0)
    <2>1. CASE k0 \in DOMAIN kept
      <3>1. kept[k0].tokens \in Nat /\ kept[k0].refilled \in 0..Window[k0]
        BY <1>1, <1>2, <2>1
      <3> QED
        BY <2>1, <3>1, RefilledType
    <2>2. CASE k0 \notin DOMAIN kept
      BY <1>4, <2>2
    <2> QED
      BY <2>1, <2>2
  <1> HIDE DEF tokens
  <1>6. left \in 0..Capacity(k0) /\ left = IF tokens >= Window[k0] THEN tokens - Window[k0] ELSE tokens
    BY <1>4, <1>5
  <1> HIDE DEF left
  <1>7. /\ made.tokens = left /\ made.refilled = 0 /\ made.seen = 0
        /\ made \in [tokens : 0..Capacity(k0), refilled : 0..Window[k0], seen : 0..(2 * Longest + 1)]
    BY <1>4, <1>6
  <1> HIDE DEF made
  <1>8. LimitTypeOK'
    <2>1. ideal' \in [Keys -> Nat]
      BY <1>1, <1>3, <1>4
    <2> QED
      BY <1>1, <1>2, <1>3, <1>7, <2>1 DEF LimitTypeOK
  <1>9. FillsWhileIdle'
    <2>1. made.refilled = Lesser(made.seen, Window[k0])
      BY <1>4, <1>7 DEF Lesser
    <2> QED
      BY <1>1, <1>2, <1>3, <2>1 DEF FillsWhileIdle
  <1>10. SweepUnseen'
    <2> SUFFICES ASSUME NEW k \in Keys, \A j \in Keys : Window[k] <= Window[j]
                 PROVE  ideal'[k] = IF k \in DOMAIN kept \cup {k0} THEN Refilled(bucket'[k], k) ELSE Capacity(k)
      BY <1>3 DEF SweepUnseen
    <2>1. ideal[k] = IF k \in DOMAIN bucket THEN Refilled(bucket[k], k) ELSE Capacity(k)
      BY DEF LimitIInv, SweepUnseen
    <2>2. CASE k = k0
      <3>1. ideal[k0] = tokens
        BY <1>2, <2>1, <2>2 DEF tokens
      <3>2. ideal'[k0] = left
        BY <1>1, <1>3, <1>6, <3>1
      <3>3. Refilled(made, k0) = left
        <4>1. 0 * Burst[k0] = 0
          BY <1>4
        <4> QED
          BY <1>4, <1>6, <1>7, <4>1 DEF Refilled, Lesser
      <3> QED
        BY <1>3, <2>2, <3>2, <3>3
    <2>3. CASE k # k0
      <3>1. ideal'[k] = ideal[k]
        BY <1>1, <1>3, <2>3
      <3> QED
        BY <1>2, <1>3, <2>1, <2>3, <3>1
    <2> QED
      BY <2>2, <2>3
  <1> QED
    BY <1>8, <1>9, <1>10 DEF LimitIInv

LEMMA LimitStepIInv == LimitIInv /\ [LimitNext]_limitVars => LimitIInv'
  <1> SUFFICES ASSUME LimitIInv, [LimitNext]_limitVars PROVE LimitIInv'
    OBVIOUS
  <1>1. CASE UNCHANGED limitVars
    BY <1>1 DEF limitVars, LimitIInv, LimitTypeOK, FillsWhileIdle, SweepUnseen
  <1>2. CASE LimitNext
    BY <1>2, PassIInv, AllowIInv DEF LimitNext
  <1> QED
    BY <1>1, <1>2

\* Dropping an idle bucket is not seen: a key has the tokens it would have had if every bucket
\* were kept (rate_limit_store.go).
THEOREM NobodyCanTell == LimitSpec => []SweepUnseen
  <1>1. LimitIInv => SweepUnseen
    BY DEF LimitIInv
  <1> QED
    BY <1>1, LimitInitIInv, LimitStepIInv, PTL DEF LimitSpec
=============================================================================
