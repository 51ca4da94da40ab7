--------------------------- MODULE SessionRecord ---------------------------
(***************************************************************************)
(* The contents of one stored session and the copies the replicas work on. *)
(*                                                                         *)
(* Each replica keeps one DbSessionEntity for the session, shared by all   *)
(* its requests.  A setter changes that copy, marks the column dirty, logs *)
(* attribute changes, and then writes it back: under the id lock, from a   *)
(* snapshot, with the columns that changed and, when one of them carries   *)
(* authority (user_id, attributes), under a version guard.  A write that   *)
(* loses the version race re-reads the row, adopts it, replays its own     *)
(* changes and tries again (auth/db_session.go, auth/session_mediator.go,  *)
(* db/orm/saver.go).                                                       *)
(*                                                                         *)
(* The row already exists: SessionMediator models how rows come and go.    *)
(* Expiry and last activity are one column, "beat", without a value: they  *)
(* are written without a guard and decide nothing here.                    *)
(***************************************************************************)
EXTENDS Integers, FiniteSets

CONSTANTS
    Replicas, Requests, Home,  \* Home[q]: the replica that runs request q
    Users,                     \* values of user_id
    Keys, Values,              \* the attribute bag
    Conflicts,                 \* sessionConflictRetries
    MaxOps,                    \* bound: operations in a behaviour
    None, Keep                 \* absent; "the log has no entry for this key"

ASSUME HomeAssumption == Home \in [Requests -> Replicas]
ASSUME BoundsAssumption == Conflicts \in Nat /\ MaxOps \in Nat
ASSUME NoneAssumption ==
    /\ None \notin Values \cup Users \cup Requests \cup Nat
    /\ Keep \notin Values \cup {None}

VARIABLES
    row,       \* the stored row, or None once it was deleted
    copy,      \* copy[r]: the entity of replica r
    lock,      \* lock[r]: the request of r that holds the id lock, or None
    req,       \* req[q]: where request q is, and its snapshot
    ops,       \* operations so far, for the bound
    unlanded   \* history: changes set at r that no successful write carried

vars == <<row, copy, lock, req, ops, unlanded>>

Columns == {"userId", "attributes", "beat"}
\* sessionStateColumns: what an authorization decision turns on.
StateColumns == {"userId", "attributes"}

Attributes == [Keys -> Values \cup {None}]
\* The replay log, by its effect: the last thing it does to each key.
AttrOps == [Keys -> Values \cup {None, Keep}]
NoOps == [k \in Keys |-> Keep]

replayAttributeOps(attributes, log) ==
    [k \in Keys |-> IF log[k] = Keep THEN attributes[k] ELSE log[k]]

Row == [userId : Users, attributes : Attributes, version : Nat]
Copy == [userId : Users, attributes : Attributes, version : Nat,
         dirty : SUBSET Columns, attrOps : AttrOps, failed : BOOLEAN]
\* written = {}: no set of columns was named, so the ORM writes them all.
Snap == [userId : Users, attributes : Attributes, version : Nat,
         written : SUBSET Columns, guard : Nat \cup {None}, attrOps : AttrOps]
PCs == {"idle", "held", "find", "mark", "save", "write", "probe", "reread",
        "settle"}
Request == [pc : PCs, snap : Snap \cup {None}, tries : Nat]
Change == [user : Users \cup {None}, attributes : AttrOps]
NoChange == [user |-> None, attributes |-> NoOps]

\* Absent is not a record of any of these kinds.
ASSUME NoRecordAssumption == None \notin Row \cup Copy \cup Snap

TypeOK ==
    /\ row \in Row \cup {None}
    /\ copy \in [Replicas -> Copy \cup {None}]
    /\ lock \in [Replicas -> Requests \cup {None}]
    /\ req \in [Requests -> Request]
    /\ ops \in Nat
    /\ unlanded \in [Replicas -> Change]

Idle == [pc |-> "idle", snap |-> None, tries |-> 0]

Init ==
    /\ row \in [userId : Users, attributes : {[k \in Keys |-> None]}, version : {0}]
    /\ copy = [r \in Replicas |-> None]
    /\ lock = [r \in Replicas |-> None]
    /\ req = [q \in Requests |-> Idle]
    /\ ops = 0
    /\ unlanded = [r \in Replicas |-> NoChange]

-----------------------------------------------------------------------------
Here(q) == Home[q]
At(q, p) == req[q].pc = p
Goto(q, p) == req' = [req EXCEPT ![q].pc = p]
Acquire(q) == lock[Here(q)] = None /\ lock' = [lock EXCEPT ![Here(q)] = q]
Release(q) == lock' = [lock EXCEPT ![Here(q)] = None]
Count == ops < MaxOps /\ ops' = ops + 1

\* Fault: the replay starts from the local bag.
AdoptedLocalBag(c) ==
    [c EXCEPT !.userId = IF "userId" \in c.dirty THEN c.userId ELSE row.userId,
              !.version = row.version]

\* AdoptPersistedState: the row wins, except for what waits to be written.
Adopted(c) ==
    [c EXCEPT
       !.userId = IF "userId" \in c.dirty THEN c.userId ELSE row.userId,
       !.version = row.version,
       !.attributes = replayAttributeOps(row.attributes, c.attrOps)]

\* A row read into a process that has no copy of it.
Loaded == [userId |-> row.userId, attributes |-> row.attributes,
           version |-> row.version, dirty |-> {}, attrOps |-> NoOps,
           failed |-> FALSE]

\* Fault: only the identity is taken for a column that needs the guard.
SnapshotOfUserGuard(c) ==
    LET guarded == "userId" \in c.dirty IN
    [userId |-> c.userId, attributes |-> c.attributes,
     version |-> IF guarded THEN c.version + 1 ELSE c.version,
     written |-> c.dirty,
     guard |-> IF guarded THEN c.version ELSE None,
     attrOps |-> c.attrOps]

\* Snapshot: the columns that changed, and the guard if one of them needs it.
SnapshotOf(c) ==
    LET guarded == c.dirty \cap StateColumns # {} IN
    [userId |-> c.userId, attributes |-> c.attributes,
     version |-> IF guarded THEN c.version + 1 ELSE c.version,
     written |-> c.dirty,
     guard |-> IF guarded THEN c.version ELSE None,
     attrOps |-> c.attrOps]

\* AdoptPersistedMeta: what the write carried is no longer dirty.
Settled(c, snap) ==
    [c EXCEPT
       !.version = snap.version,
       !.dirty = IF snap.written = {} THEN {} ELSE @ \ snap.written,
       !.attrOps = IF snap.written = {} \/ "attributes" \in snap.written
                   THEN NoOps ELSE @,
       !.failed = FALSE]

\* The row a statement that matches leaves behind.
Written(snap) ==
    LET all == snap.written = {} IN
    [userId |-> IF all \/ "userId" \in snap.written THEN snap.userId
                ELSE row.userId,
     attributes |-> IF all \/ "attributes" \in snap.written THEN snap.attributes
                    ELSE row.attributes,
     version |-> IF all \/ snap.guard # None THEN snap.version ELSE row.version]

Matches(snap) == row # None /\ (snap.guard # None => row.version = snap.guard)

\* What is left of a change once a write carried the snapshot.
Remaining(change, snap) ==
    LET carried(column) == snap.written = {} \/ column \in snap.written IN
    [user |-> IF carried("userId") /\ change.user = snap.userId THEN None
              ELSE change.user,
     attributes |-> [k \in Keys |->
         IF carried("attributes") /\ change.attributes[k] = snap.attributes[k]
         THEN Keep ELSE change.attributes[k]]]

-----------------------------------------------------------------------------
(* GetSession: the request resolves the session, again or for the first    *)
(* time.  The read and the adoption are one step: a setter in between      *)
(* leaves the same copy as one just after.                                 *)

Resolve(q) ==
    /\ At(q, "idle") \/ At(q, "held")
    /\ Count
    /\ Goto(q, "find")
    /\ UNCHANGED <<row, copy, lock, unlanded>>

FindRow(q, next) ==
    LET r == Here(q) IN
    /\ lock[r] = None
    /\ row # None
    /\ copy' = [copy EXCEPT ![r] = IF @ = None THEN Loaded ELSE Adopted(@)]
    /\ Goto(q, next)
    /\ UNCHANGED <<row, lock, ops, unlanded>>

GetSession(q) == At(q, "find") /\ FindRow(q, "held")

\* AddSession resolves the session, then asks for every column to be written.
AddSession(q) ==
    /\ At(q, "held") /\ ops < MaxOps
    /\ FindRow(q, "mark")

MarkAllDirty(q) ==
    /\ At(q, "mark")
    /\ Count
    /\ copy' = [copy EXCEPT ![Here(q)].dirty = Columns]
    /\ Goto(q, "save")
    /\ UNCHANGED <<row, lock, unlanded>>

EndRequest(q) ==
    /\ At(q, "held") \/ (At(q, "find") /\ row = None)
    /\ req' = [req EXCEPT ![q] = Idle]
    /\ UNCHANGED <<row, copy, lock, ops, unlanded>>

-----------------------------------------------------------------------------
(* The setters: they change the copy under its own mutex only, then save.  *)

SetUserId(q, u) ==
    LET r == Here(q) IN
    /\ At(q, "held") /\ Count
    /\ copy' = [copy EXCEPT ![r].userId = u, ![r].dirty = @ \cup {"userId"}]
    /\ unlanded' = [unlanded EXCEPT ![r].user = u]
    /\ Goto(q, "save")
    /\ UNCHANGED <<row, lock>>

\* SetItem, ClearItem and ClearItems, by the log entries they leave.
ChangeItems(q, entry) ==
    LET r == Here(q) IN
    /\ At(q, "held") /\ Count
    /\ copy' = [copy EXCEPT
                  ![r].attributes = replayAttributeOps(@, entry),
                  ![r].attrOps = replayAttributeOps(@, entry),
                  ![r].dirty = @ \cup {"attributes"}]
    /\ unlanded' = [unlanded EXCEPT ![r].attributes = replayAttributeOps(@, entry)]
    /\ Goto(q, "save")
    /\ UNCHANGED <<row, lock>>

SetItem(q, k, v) == ChangeItems(q, [NoOps EXCEPT ![k] = v])
ClearItem(q, k) == ChangeItems(q, [NoOps EXCEPT ![k] = None])
ClearItems(q) == ChangeItems(q, [k \in Keys |-> None])

\* SetExpiry and SetLastActivity, on every request.
Heartbeat(q) ==
    /\ At(q, "held") /\ Count
    /\ copy' = [copy EXCEPT ![Here(q)].dirty = @ \cup {"beat"}]
    /\ Goto(q, "save")
    /\ UNCHANGED <<row, lock, unlanded>>

-----------------------------------------------------------------------------
(* UpdateSession and persistReconciling.                                   *)

\* Fault: the failure is only logged.
FailSilently(q) ==
    /\ req' = [req EXCEPT ![q] = [Idle EXCEPT !.pc = "held"]]
    /\ Release(q) /\ UNCHANGED copy

Fail(q) ==
    /\ copy' = [copy EXCEPT ![Here(q)].failed = TRUE]
    /\ req' = [req EXCEPT ![q] = [Idle EXCEPT !.pc = "held"]]
    /\ Release(q)

Save(q) ==
    /\ At(q, "save")
    /\ Acquire(q)
    /\ req' = [req EXCEPT ![q] = [pc |-> "write", tries |-> 0,
                                  snap |-> SnapshotOf(copy[Here(q)])]]
    /\ UNCHANGED <<row, copy, ops, unlanded>>

Land(q) ==
    LET snap == req[q].snap IN
    /\ At(q, "write")
    /\ Matches(snap)
    /\ row' = Written(snap)

Write(q) ==
    /\ Land(q)
    /\ unlanded' = [unlanded EXCEPT ![Here(q)] = Remaining(@, req[q].snap)]
    /\ Goto(q, "settle")
    /\ UNCHANGED <<copy, lock, ops>>

\* The statement ran and its answer was lost.
WriteLost(q) == Land(q) /\ Fail(q) /\ UNCHANGED <<ops, unlanded>>

WriteFails(q) ==
    /\ At(q, "write")
    /\ Fail(q)
    /\ UNCHANGED <<row, ops, unlanded>>

\* Zero rows: a second statement tells a row that is gone from a conflict.
WriteMisses(q) ==
    /\ At(q, "write")
    /\ ~Matches(req[q].snap)
    /\ Goto(q, "probe")
    /\ UNCHANGED <<row, copy, lock, ops, unlanded>>

\* ErrRowGone, the last ErrRowConflict and a failed probe are not retried.
ProbeFails(q) ==
    /\ At(q, "probe")
    /\ Fail(q)
    /\ UNCHANGED <<row, ops, unlanded>>

ProbeConflict(q) ==
    /\ At(q, "probe")
    /\ row # None /\ req[q].tries < Conflicts
    /\ Goto(q, "reread")
    /\ UNCHANGED <<row, copy, lock, ops, unlanded>>

Reread(q) ==
    LET c == Adopted(copy[Here(q)]) IN
    /\ At(q, "reread")
    /\ row # None
    /\ copy' = [copy EXCEPT ![Here(q)] = c]
    /\ req' = [req EXCEPT ![q] = [pc |-> "write", tries |-> @.tries + 1,
                                  snap |-> SnapshotOf(c)]]
    /\ UNCHANGED <<row, lock, ops, unlanded>>

\* A failed read, or the row is gone: the session was revoked meanwhile.
RereadFails(q) ==
    /\ At(q, "reread")
    /\ Fail(q)
    /\ UNCHANGED <<row, ops, unlanded>>

Settle(q) ==
    LET r == Here(q) IN
    /\ At(q, "settle")
    /\ copy' = [copy EXCEPT ![r] = Settled(@, req[q].snap)]
    /\ req' = [req EXCEPT ![q] = [Idle EXCEPT !.pc = "held"]]
    /\ Release(q)
    /\ UNCHANGED <<row, ops, unlanded>>

\* Some replica revokes the session.
DeleteRow ==
    /\ row # None
    /\ row' = None
    /\ UNCHANGED <<copy, lock, req, ops, unlanded>>

Operate(q) ==
    \/ Resolve(q) \/ GetSession(q) \/ EndRequest(q)
    \/ AddSession(q) \/ MarkAllDirty(q)
    \/ \E u \in Users : SetUserId(q, u)
    \/ \E k \in Keys : ClearItem(q, k) \/ \E v \in Values : SetItem(q, k, v)
    \/ ClearItems(q) \/ Heartbeat(q)

Persist(q) ==
    \/ Save(q) \/ Write(q) \/ WriteLost(q) \/ WriteFails(q) \/ WriteMisses(q)
    \/ ProbeFails(q) \/ ProbeConflict(q) \/ Reread(q) \/ RereadFails(q)
    \/ Settle(q)

Next == (\E q \in Requests : Operate(q) \/ Persist(q)) \/ DeleteRow

Spec == Init /\ [][Next]_vars

-----------------------------------------------------------------------------
(* Properties.                                                             *)

\* A copy at the row's version agrees with the row in every state column,
\* but for the changes it still has to write: what the version guard compares
\* really stands for the contents (Snapshot, AdoptPersistedState).
SameVersionSameState ==
    \A r \in Replicas :
        LET c == copy[r] IN
        c # None /\ row # None /\ c.version = row.version =>
            /\ "userId" \notin c.dirty => c.userId = row.userId
            /\ c.attributes = replayAttributeOps(row.attributes, c.attrOps)

\* Writers converge on both their changes (persistReconciling): a write gives
\* a key of the bag a new value only if a request of the writer's replica set
\* that key and no write that succeeded has carried it yet.  "A replica writing
\* from a stale copy is refused rather than silently winning": the state
\* columns only change together with the version, one up.
KeepsForeignChanges ==
    [][row # None /\ row' # None =>
         /\ \A k \in Keys :
              row'.attributes[k] # row.attributes[k]
              => \E q \in Requests : /\ At(q, "write")
                                     /\ ~At(q, "write")'
                                     /\ unlanded[Home[q]].attributes[k] # Keep
         /\ row'.version = row.version + 1 \/ row' = row]_vars

\* A setter that nobody was told failed is in the table (ISessionWriteStatus):
\* no write of the replica is under way, none is reported as failed, so every
\* change made there was carried by some write that matched the row.
AcknowledgedIsWritten ==
    \A r \in Replicas :
        LET quiet == \A q \in Requests :
                        Home[q] = r => req[q].pc \in {"idle", "held", "find"}
        IN  quiet /\ copy[r] # None /\ ~copy[r].failed => unlanded[r] = NoChange
=============================================================================
