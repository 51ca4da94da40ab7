------------------------------ MODULE OrmSave ------------------------------
(***************************************************************************)
(* ORM.Save and Delete of an entity, and the cascade over its relations    *)
(* statement by statement: the entity's own row, the rows of what it has,  *)
(* the row of what it belongs to, and the join rows of its tags.  Nothing  *)
(* makes the statements one unit but a transaction of the caller's, which  *)
(* the entity in memory does not take part in.                             *)
(*                                                                         *)
(* A frame is one Save under way; the cascade nests them.                  *)
(***************************************************************************)
EXTENDS Integers, Sequences, FiniteSets

CONSTANTS
    Entities,
    NoEntity,
    Has,            \* e -> what e has one or many of: their rows carry e's key
    Up,             \* e -> what e belongs to, or NoEntity
    Tags,           \* e -> what its many-to-many slice may hold
    ByValue,        \* entities that their slice holds as values: a Save saves a copy of them,
    Sharing,        \* and of these, the ones whose copies share their EntityMeta
    Natural,        \* entities whose key the application sets; the others' is generated
    Bare,           \* entities with no column but their key
    OptedIn,        \* entities whose CascadeSaves returns true
    Externals,      \* \subseteq BOOLEAN: the kinds of datasource, external_schema or ours
    Limit,          \* bind parameters one statement may have
    Roots,          \* what the application saves and deletes
    MaxSaves        \* bound on the application's Saves

ASSUME SaveConstantsOK ==
    /\ NoEntity \notin Entities
    /\ Has \in [Entities -> SUBSET Entities] /\ Tags \in [Entities -> SUBSET Entities]
    /\ Up \in [Entities -> Entities \cup {NoEntity}]
    /\ Natural \subseteq Entities /\ Bare \subseteq Entities /\ OptedIn \subseteq Entities
    /\ ByValue \subseteq Entities \ Roots /\ Sharing \subseteq ByValue
    /\ \A e \in Entities : Has[e] \cap ByValue = {} /\ Up[e] \notin ByValue
    /\ Externals \subseteq BOOLEAN /\ Limit \in Nat
    /\ Roots \subseteq Entities /\ MaxSaves \in Nat

VARIABLES
    external,       \* the datasource is an external_schema one
    mem,            \* the entities in memory: key set, IsLoaded, foreign keys
    slice,          \* e -> its many-to-many slice; NoEntity is nil and never loaded
    row,            \* the rows an entity has, and the foreign keys they hold
    join,           \* the join table
    tx,             \* what the caller's transaction began with, or NoEntity
    stack,          \* the Saves under way, innermost first
    saves,          \* Saves begun
    verdict,        \* how the last Save ended, and of what
    before,         \* ghost: when it began, the join table, and whose belongs-to key memory had
    sent,           \* ghost: it has sent a write
    unsure          \* ghost: entities whose row memory is wrong about (INSERT unheard of,
                    \* row deleted, or rolled back)

db == <<row, join>>
ghosts == <<before, sent, unsure>>
saveVars == <<external, mem, slice, db, tx, stack, saves, verdict, ghosts>>

---------------------------------------------------------------------------
\* What a many-to-many slice would write: a slice that is set, though empty (relationWouldBeWritten).
Tagged(e) == slice[e] # NoEntity
Kept(e) == IF Tagged(e) THEN slice[e] ELSE {}

Writes(e) == Has[e] # {} \/ Up[e] # NoEntity \/ Tagged(e)

Related(e) == Has[e] \cup Kept(e) \cup ({Up[e]} \ {NoEntity})

\* The walk of checkCascadeFrom: what is reached from e, which is in every set that has e and
\* all that is related to its members.
Reached(e) ==
    {x \in Entities : \A S \in SUBSET Entities :
        (e \in S /\ \A y \in S : Related(y) \subseteq S) => x \in S}

\* What may not be cascaded over: the relations of an entity that has not opted in, on a
\* schema that is not ours, or more kept join rows than the one DELETE can name.
MayNotCascade(e) == \/ external /\ Writes(e) /\ e \notin OptedIn
                    \/ Kept(e) # {} /\ Cardinality(Kept(e)) + 1 > Limit

\* Fault: the entity answers for its own relations only; theirs are asked when they are saved.
RefusedShallow(e) == MayNotCascade(e)

\* checkCascade: refused as a whole, before the first statement.
SaveRefused(e) == \E x \in Entities : MayNotCascade(x) /\ x \in Reached(e)

---------------------------------------------------------------------------
Top == Head(stack)

\* The relations of an entity's schema.
Kinds(e) == {k \in {"has", "up", "tags"} : CASE k = "has" -> Has[e] # {}
                                              [] k = "up" -> Up[e] # NoEntity
                                              [] k = "tags" -> Tags[e] # {}}

Frame(e, tag) == [e |-> e, at |-> IF tag THEN "exists" ELSE "write", left |-> Kinds(e),
                  todo |-> {}, item |-> NoEntity]

Put(f) == stack' = <<f>> \o Tail(stack)
Push(f, e, tag) == stack' = <<Frame(e, tag), f>> \o Tail(stack)

\* A Save that fails fails every Save it was part of.
Ends(how) == stack' = <<>> /\ verdict' = [how |-> how, of |-> stack[Len(stack)].e]

\* A Save that is done: the one around it goes on.
SaveReturns == IF Len(stack) = 1 THEN Ends("ok") ELSE stack' = Tail(stack) /\ UNCHANGED verdict

Nothing == [n |-> 0, fk |-> NoEntity, up |-> NoEntity]

\* Nothing is stored yet; or the roots were, with what has a key of its own for a tag, and have
\* just been found.
SaveInit ==
    /\ external \in Externals
    /\ \E stored \in {{}, Roots \cup Natural} :
          /\ mem = [e \in Entities |-> [key |-> e \in Natural \cup stored, fk |-> NoEntity, up |-> NoEntity,
                                       loaded |-> e \in stored /\ e \in Roots]]
          /\ row = [e \in Entities |-> IF e \in stored THEN [Nothing EXCEPT !.n = 1] ELSE Nothing]
          /\ join = {pair \in Roots \X Natural : stored # {} /\ pair[2] \in Tags[pair[1]]}
    /\ slice = [e \in Entities |-> NoEntity]
    /\ tx = NoEntity /\ stack = <<>> /\ saves = 0
    /\ verdict = [how |-> "none", of |-> NoEntity]
    /\ before = [join |-> {}, keyed |-> {}] /\ sent = FALSE /\ unsure = {}

\* The related rows of a many-to-many relation, read through the join table.
Joined(e) == {t \in Entities : <<e, t>> \in join /\ row[t].n > 0}

\* LoadRelation, which reads a relation once: the slice is the application's from then on, an
\* empty one too.
LoadEntity(e) ==
    /\ stack = <<>> /\ mem[e].loaded /\ Tags[e] # {} /\ ~Tagged(e)
    /\ slice' = [slice EXCEPT ![e] = Joined(e)]
    /\ mem' = [t \in Entities |-> IF t \in Joined(e) THEN [mem[t] EXCEPT !.key = TRUE, !.loaded = TRUE]
                                                     ELSE mem[t]]
    /\ verdict' = [how |-> "none", of |-> NoEntity]
    /\ UNCHANGED <<external, db, tx, stack, saves, ghosts>>

\* The application gives an entity another slice, and saves.
Edit ==
    /\ stack = <<>>
    /\ \E e \in Roots : Tags[e] # {} /\ \E s \in SUBSET Tags[e] : slice' = [slice EXCEPT ![e] = s]
    /\ verdict' = [how |-> "none", of |-> NoEntity]
    /\ UNCHANGED <<external, mem, db, tx, stack, ghosts, saves>>

\* Entities that hold the key of what they belong to.
Keyed == {e \in Entities : Up[e] # NoEntity /\ mem[e].up = Up[e]}

Save(e) ==
    /\ stack = <<>>
    /\ saves < MaxSaves /\ saves' = saves + 1
    /\ stack' = <<Frame(e, FALSE)>>
    /\ verdict' = [how |-> "none", of |-> NoEntity]
    /\ before' = [join |-> join, keyed |-> Keyed] /\ sent' = FALSE
    /\ UNCHANGED <<external, mem, slice, db, tx, unsure>>

\* Delete, by every key column: the entity in memory stays loaded.
Delete(e) ==
    /\ stack = <<>> /\ mem[e].key /\ row[e].n > 0
    /\ row' = [row EXCEPT ![e] = Nothing]
    /\ unsure' = unsure \cup {e}
    /\ verdict' = [how |-> "none", of |-> NoEntity]
    /\ UNCHANGED <<external, mem, slice, join, tx, stack, before, sent, saves>>

\* The caller's own transaction. A rollback, the caller's or the server's, leaves memory alone.
Begin == /\ stack = <<>> /\ tx = NoEntity
         /\ tx' = <<row, join>>
         /\ UNCHANGED <<external, mem, slice, db, stack, verdict, ghosts, saves>>
Commit == /\ stack = <<>> /\ tx # NoEntity
          /\ tx' = NoEntity
          /\ UNCHANGED <<external, mem, slice, db, stack, verdict, ghosts, saves>>
Rollback ==
    /\ stack = <<>> /\ tx # NoEntity
    /\ row' = tx[1] /\ join' = tx[2] /\ tx' = NoEntity
    /\ unsure' = unsure \cup {e \in Entities : row[e] # tx[1][e]}
    /\ verdict' = [how |-> "none", of |-> NoEntity]
    /\ UNCHANGED <<external, mem, slice, stack, before, sent, saves>>

---------------------------------------------------------------------------
(* One Save: its own row.                                                   *)

\* An update without a key names no row (pkPredicate).
Keyless ==
    /\ stack # <<>> /\ Top.at = "write" /\ mem[Top.e].loaded /\ ~mem[Top.e].key
    /\ Ends("failed")
    /\ UNCHANGED <<external, mem, slice, db, tx, ghosts, saves>>

\* createEntity and updateEntity refuse before their statement. An update with nothing to set
\* comes back first, and neither asks nor walks.
Refuse ==
    /\ stack # <<>> /\ Top.at = "write"
    /\ ~(mem[Top.e].loaded /\ (Top.e \in Bare \/ ~mem[Top.e].key)) /\ SaveRefused(Top.e)
    /\ Ends("refused")
    /\ UNCHANGED <<external, mem, slice, db, tx, ghosts, saves>>

NothingToSet ==
    /\ stack # <<>> /\ Top.at = "write" /\ mem[Top.e].loaded /\ mem[Top.e].key /\ Top.e \in Bare
    /\ SaveReturns
    /\ UNCHANGED <<external, mem, slice, db, tx, ghosts, saves>>

\* What a Save learns of an entity: the slice's own element, when that is a value, learns of its
\* copy only what is written through a shared EntityMeta.
Learns(e, key) == [mem EXCEPT ![e].key = @ \/ (key /\ e \notin ByValue),
                              ![e].loaded = @ \/ e \notin ByValue \/ e \in Sharing]

\* The row an entity's columns make.
Columns(e, n) == [n |-> n, fk |-> mem[e].fk, up |-> mem[e].up]

\* The INSERT is not executed: the engine refuses it, a key that is taken included.
InsertFails ==
    /\ stack # <<>> /\ Top.at = "write" /\ ~mem[Top.e].loaded /\ ~SaveRefused(Top.e)
    /\ Ends("failed")
    /\ UNCHANGED <<external, mem, slice, db, tx, ghosts, saves>>

\* The INSERT is executed: its key comes back and the entity is loaded, whatever becomes of
\* its relations ...
Insert ==
    /\ stack # <<>> /\ Top.at = "write" /\ ~mem[Top.e].loaded /\ ~SaveRefused(Top.e)
    /\ Top.e \in Natural => row[Top.e].n = 0
    /\ row' = [row EXCEPT ![Top.e] = Columns(Top.e, @.n + 1)]
    /\ sent' = TRUE
    /\ mem' = Learns(Top.e, TRUE)
    /\ Put([Top EXCEPT !.at = "walk"])
    /\ UNCHANGED <<external, slice, join, tx, verdict, before, unsure, saves>>

\* ... or the key cannot be read back, and the row is there without the entity knowing.
InsertUnheard ==
    /\ stack # <<>> /\ Top.at = "write" /\ ~mem[Top.e].loaded /\ ~SaveRefused(Top.e)
    /\ Top.e \in Natural => row[Top.e].n = 0
    /\ row[Top.e].n < 2
    /\ row' = [row EXCEPT ![Top.e] = Columns(Top.e, @.n + 1)]
    /\ sent' = TRUE /\ unsure' = unsure \cup {Top.e}
    /\ Ends("failed")
    /\ UNCHANGED <<external, mem, slice, join, tx, before, saves>>

\* The UPDATE by key. Save asks for no row: one that matches none is a success.
Update ==
    /\ stack # <<>> /\ Top.at = "write" /\ mem[Top.e].loaded /\ mem[Top.e].key
    /\ Top.e \notin Bare /\ ~SaveRefused(Top.e)
    /\ row' = IF row[Top.e].n = 0 THEN row ELSE [row EXCEPT ![Top.e] = Columns(Top.e, @.n)]
    /\ sent' = TRUE
    /\ Put([Top EXCEPT !.at = "walk"])
    /\ UNCHANGED <<external, mem, slice, join, tx, verdict, before, unsure, saves>>

\* The UPDATE fails, or the SELECT that reads the server's columns back after it does.
UpdateFails ==
    /\ stack # <<>> /\ Top.at = "write" /\ mem[Top.e].loaded /\ mem[Top.e].key
    /\ Top.e \notin Bare /\ ~SaveRefused(Top.e)
    /\ \/ UNCHANGED <<row, sent>>
       \/ /\ row' = IF row[Top.e].n = 0 THEN row ELSE [row EXCEPT ![Top.e] = Columns(Top.e, @.n)]
          /\ sent' = TRUE
    /\ Ends("failed")
    /\ UNCHANGED <<external, mem, slice, join, tx, before, unsure, saves>>

---------------------------------------------------------------------------
(* SaveRelations, over a map: in any order.                                 *)

\* The next relation: the entities to save through it.
Walk(kind) ==
    /\ stack # <<>> /\ Top.at = "walk" /\ kind \in Top.left
    /\ LET f == [Top EXCEPT !.left = @ \ {kind}, !.at = kind]
       IN  CASE kind = "has" -> Put([f EXCEPT !.todo = Has[Top.e]])
             [] kind = "up" -> Put([f EXCEPT !.todo = {Up[Top.e]}])
             [] kind = "tags" /\ Tagged(Top.e) -> Put([f EXCEPT !.todo = Kept(Top.e)])
             [] OTHER -> Put([f EXCEPT !.at = "walk"])
    /\ UNCHANGED <<external, mem, slice, db, tx, verdict, ghosts, saves>>

Walked ==
    /\ stack # <<>> /\ Top.at = "walk" /\ Top.left = {}
    /\ SaveReturns
    /\ UNCHANGED <<external, mem, slice, db, tx, ghosts, saves>>

\* What the entity has gets its key, and is saved.
SaveChild ==
    /\ stack # <<>> /\ Top.at = "has"
    /\ \E c \in Top.todo :
          /\ mem' = [mem EXCEPT ![c].fk = Top.e]
          /\ Push([Top EXCEPT !.todo = @ \ {c}], c, FALSE)
    /\ UNCHANGED <<external, slice, db, tx, verdict, ghosts, saves>>

\* What it belongs to is saved, after the entity's own row was written ...
SaveUp ==
    /\ stack # <<>> /\ Top.at = "up"
    /\ \E p \in Top.todo : Push([Top EXCEPT !.todo = {}, !.item = p], p, FALSE)
    /\ UNCHANGED <<external, mem, slice, db, tx, verdict, ghosts, saves>>

\* ... and its key goes into the entity's foreign key in memory.
TakeUp ==
    /\ stack # <<>> /\ Top.at = "up" /\ Top.todo = {}
    /\ mem' = IF Top.item = NoEntity \/ Top.e \in ByValue THEN mem ELSE [mem EXCEPT ![Top.e].up = Top.item]
    /\ Put([Top EXCEPT !.at = "walk", !.item = NoEntity])
    /\ UNCHANGED <<external, slice, db, tx, verdict, ghosts, saves>>

HasDone ==
    /\ stack # <<>> /\ Top.at = "has" /\ Top.todo = {}
    /\ Put([Top EXCEPT !.at = "walk"])
    /\ UNCHANGED <<external, mem, slice, db, tx, verdict, ghosts, saves>>

\* A tag: saved, ...
SaveTag ==
    /\ stack # <<>> /\ Top.at = "tags" /\ Top.item = NoEntity
    /\ \E t \in Top.todo : Push([Top EXCEPT !.todo = @ \ {t}, !.item = t], t, TRUE)
    /\ UNCHANGED <<external, mem, slice, db, tx, verdict, ghosts, saves>>

\* ... unless it has a key that is found stored already (saveManyToManyRelatedEntity), ...
Exists ==
    /\ stack # <<>> /\ Top.at = "exists"
    /\ LET t == Top.e
           asks == mem[t].key /\ ~mem[t].loaded
       IN  \/ /\ asks /\ row[t].n > 0
              /\ mem' = Learns(t, FALSE)
              /\ SaveReturns
           \/ /\ ~(asks /\ row[t].n > 0)
              /\ Put([Top EXCEPT !.at = "write"])
              /\ UNCHANGED <<mem, verdict>>
           \/ asks /\ Ends("failed") /\ UNCHANGED mem
    /\ UNCHANGED <<external, slice, db, tx, ghosts, saves>>

\* ... and linked, which a row that is there already leaves as it is.
Link ==
    /\ stack # <<>> /\ Top.at = "tags" /\ Top.item # NoEntity
    /\ \/ /\ join' = join \cup {<<Top.e, Top.item>>}
          /\ sent' = TRUE
          /\ Put([Top EXCEPT !.item = NoEntity])
          /\ UNCHANGED verdict
       \/ Ends("failed") /\ UNCHANGED <<join, sent>>
    /\ UNCHANGED <<external, mem, slice, row, tx, before, unsure, saves>>

Stale(e) == {pair \in join : pair[1] = e /\ pair[2] \notin Kept(e)}

\* Fault: the kept rows are named several to a DELETE, and each DELETE takes the rest.
PurgeInChunks ==
    /\ stack # <<>> /\ Top.at = "tags" /\ Top.item = NoEntity /\ Top.todo = {}
    /\ \E t \in Kept(Top.e) \cup {NoEntity} : join' = {pair \in join : pair[1] # Top.e \/ pair[2] = t}
    /\ sent' = TRUE /\ Put([Top EXCEPT !.at = "walk"])
    /\ UNCHANGED <<external, mem, slice, row, tx, verdict, before, unsure, saves>>

\* The rows no longer in the slice go, in one DELETE.
Purge ==
    /\ stack # <<>> /\ Top.at = "tags" /\ Top.item = NoEntity /\ Top.todo = {}
    /\ \/ /\ join' = join \ Stale(Top.e)
          /\ sent' = TRUE
          /\ Put([Top EXCEPT !.at = "walk"])
          /\ UNCHANGED verdict
       \/ Ends("failed") /\ UNCHANGED <<join, sent>>
    /\ UNCHANGED <<external, mem, slice, row, tx, before, unsure, saves>>

---------------------------------------------------------------------------
OwnRow == Keyless \/ Refuse \/ NothingToSet \/ InsertFails \/ Insert \/ InsertUnheard \/ Update \/ UpdateFails
Relations == \/ \E kind \in {"has", "up", "tags"} : Walk(kind)
             \/ Walked \/ SaveChild \/ HasDone \/ SaveUp \/ TakeUp
             \/ SaveTag \/ Exists \/ Link \/ Purge

SaveNext == \/ Edit \/ Begin \/ Commit \/ Rollback
        \/ \E e \in Roots : Save(e) \/ Delete(e) \/ LoadEntity(e)
        \/ OwnRow \/ Relations

SaveSpec == SaveInit /\ [][SaveNext]_saveVars

---------------------------------------------------------------------------

\* A Save that is refused, at whatever depth of the cascade the reason lies, has written
\* nothing (relation.go:240-296, saver.go:190-200, 440-444).
RefusedWritesNothing == verdict.how = "refused" => ~sent

\* The elements that every Save inserts again: the slice's own never learns that it is stored.
Anew == ByValue \ (Sharing \cup Natural)

\* What is certain of the belongs-to key in an entity's row: it is there if memory had it when
\* the Save began.
UpWritten(e) == e \in before.keyed /\ e \notin unsure \cup Bare => row[e].up = Up[e]

\* A Save that failed may be repeated: no entity gets a second row, unless an INSERT was never
\* heard of or a slice holds the entity as a value without key and metadata; and one that
\* succeeded has left the rows the entities in memory describe: those of what the entity has,
\* carrying its key, exactly its tags in the join table, and, in its own row and in theirs, the
\* key of what they belong to, if memory had that key when the Save began: the Save that learns
\* it has written the row by then, and leaves the key to the next (saver.go:300-350,
\* relation.go:45-238).  While it runs, and whatever fails half way, the join table never lacks a
\* row that was there before and that the slice still holds: stale rows go last, in one DELETE,
\* and not at all through a slice nobody loaded or set (relation.go:206-238, 1955-1968).
SavedOnceAndWhole ==
    /\ \A e \in Entities \ (unsure \cup Anew) : row[e].n <= 1 /\ (mem[e].loaded => row[e].n = 1)
    /\ verdict.how = "ok" /\ verdict.of \notin Bare =>
          LET e == verdict.of
          IN  /\ \A c \in Has[e] \ unsure : c \notin Bare => row[c].n = 1 /\ row[c].fk = e
              /\ Tagged(e) => {pair \in join : pair[1] = e} = {e} \X slice[e]
              /\ \A x \in Has[e] \cup {e} : UpWritten(x)
              /\ Up[e] # NoEntity => mem[e].up = Up[e]
    /\ (stack # <<>> \/ verdict.how \in {"ok", "failed"}) =>
          \A pair \in before.join : ~Tagged(pair[1]) \/ pair[2] \in slice[pair[1]] => pair \in join
=============================================================================
