-------------------------- MODULE SessionMediator --------------------------
(***************************************************************************)
(* How the replicas of one application share the sessions table.           *)
(*                                                                         *)
(* Every replica runs a DbSessionMediator (auth/session_mediator.go): a    *)
(* cache of entities, the tombstones of the ids it revoked, and the        *)
(* revocations it still owes because the DELETE failed.  The table is      *)
(* shared.  A request is an HTTP handler, or the session:gc job, on one    *)
(* replica; it works on one session id at a time, under that id's lock,    *)
(* and the table can change between any two of its steps.                  *)
(*                                                                         *)
(* A row is its expiry: SessionRecord models the columns and the version.  *)
(* One action is one critical section, or one database call together with  *)
(* the memory update that follows it under the same id lock: nothing else  *)
(* of that replica looks at the id in between, and no other replica sees   *)
(* that memory.  The clock advances in ticks far longer than the second    *)
(* between two retries and the minute between two sweeps of the            *)
(* tombstones.                                                             *)
(***************************************************************************)
EXTENDS Integers, FiniteSets

CONSTANTS
    Replicas,       \* processes of the application
    Requests,       \* handlers
    Sweepers,       \* the handlers that run ClearExpired
    Home,           \* Home[q] is the replica that runs q
    Ids,            \* session identifiers
    Lifetime,       \* the session lifetime a heartbeat slides the expiry by
    Retention,      \* SessionTombstoneRetention
    Margin,         \* tombstoneMargin
    MaxTombstones,  \* MaxSessionTombstones (0: unlimited)
    MaxPending,     \* MaxPendingRevocations
    MaxTime,        \* bound: the last value of the clock
    None            \* no row, no entry, no holder

ASSUME HomeAssumption == Home \in [Requests -> Replicas]
ASSUME SweepersAssumption == Sweepers \subseteq Requests
ASSUME TimesAssumption ==
    /\ Lifetime \in Nat /\ Retention \in Nat /\ Margin \in Nat
    /\ MaxTombstones \in Nat /\ MaxPending \in Nat /\ MaxTime \in Nat
ASSUME NoneAssumption == None \notin Nat \cup Requests \cup Ids

VARIABLES
    now,     \* the clock all replicas read
    table,   \* table[id]: the expiry of the stored row, or None
    cache,   \* cache[r][id]: the entity r caches, or None
    tombs,   \* tombs[r][id]: until when r remembers it revoked id
    pending, \* pending[r][id]: the revocation r owes, or None
    lock,    \* lock[r][id]: the request holding the id's keyed mutex
    req,     \* req[q]: where the request is and what it holds
    minted,  \* history: ids ever minted
    born,    \* history: ids that ever had a row
    acked    \* history: ids whose revocation was reported as done

memory == <<cache, tombs, pending>>
history == <<minted, born, acked>>
vars == <<now, table, memory, lock, req, history>>

Entity == [expiry : Nat, unwritten : BOOLEAN]
Owed == [until : Nat, lastTry : Nat]

Request ==
    [pc : {"idle", "held", "get", "retry", "check", "find", "lockCreate",
           "insert", "lockUpdate", "update", "lockDelete", "delete",
           "sweepRows", "sweepMemory", "sweepIds"},
     goal : {"none", "lookup", "add", "touch", "revoke", "sweep"},
     handle : {"none", "minted", "loaded"},  \* the session object it holds
     sid : Ids \cup {None},                  \* the id it works on
     val : Nat,                              \* a time kept across steps
     todo : SUBSET Ids,                      \* ids a sweep has still to retry
     seen : SUBSET Ids]                      \* history: acked at its lookup

Idle == [pc |-> "idle", goal |-> "none", handle |-> "none", sid |-> None,
         val |-> 0, todo |-> {}, seen |-> {}]

TypeOK ==
    /\ now \in Nat
    /\ table \in [Ids -> Nat \cup {None}]
    /\ cache \in [Replicas -> [Ids -> Entity \cup {None}]]
    /\ tombs \in [Replicas -> [Ids -> Nat \cup {None}]]
    /\ pending \in [Replicas -> [Ids -> Owed \cup {None}]]
    /\ lock \in [Replicas -> [Ids -> Requests \cup {None}]]
    /\ req \in [Requests -> Request]
    /\ minted \in SUBSET Ids
    /\ born \in SUBSET Ids
    /\ acked \in SUBSET Ids

Nothing == [r \in Replicas |-> [id \in Ids |-> None]]

Init ==
    /\ now = 0
    /\ table = [id \in Ids |-> None]
    /\ cache = Nothing /\ tombs = Nothing /\ pending = Nothing
    /\ lock = Nothing
    /\ req = [q \in Requests |-> Idle]
    /\ minted = {} /\ born = {} /\ acked = {}

-----------------------------------------------------------------------------
(* What a replica's memory says about an id.                               *)

RevocationPending(r, id) ==
    pending[r][id] # None /\ pending[r][id].until > now

isRevoked(r, id) ==
    \/ tombs[r][id] # None /\ tombs[r][id] > now
    \/ RevocationPending(r, id)

revocationRetentionFor(r, id) ==
    LET fallback == now + Retention
        expiry == cache[r][id].expiry + Margin
    IN  IF cache[r][id] # None /\ expiry > fallback THEN expiry ELSE fallback

Entries(f) == {id \in Ids : f[id] # None}

\* evictOldestLocked: at the limit the entry expiring soonest makes room.
evictOldest(f) ==
    IF MaxTombstones = 0 \/ Cardinality(Entries(f)) < MaxTombstones THEN {f}
    ELSE {[f EXCEPT ![old] = None] :
            old \in {i \in Entries(f) : \A j \in Entries(f) : f[i] <= f[j]}}

evictSoonestPending(f) ==
    IF Cardinality(Entries(f)) < MaxPending \/ Entries(f) = {} THEN {f}
    ELSE {[f EXCEPT ![old] = None] :
            old \in {i \in Entries(f) :
                        \A j \in Entries(f) : f[i].until <= f[j].until}}

\* The maps rememberTombstoneLocked can leave behind.
rememberTombstone(f, id, until) ==
    {[g EXCEPT ![id] = until] : g \in evictOldest(f)}

\* rememberPendingLocked: an entry that is already there keeps its until.
rememberPending(f, id, until) ==
    IF f[id] # None THEN {[f EXCEPT ![id].lastTry = now]}
    ELSE {[g EXCEPT ![id] = [until |-> until, lastTry |-> now]] :
            g \in evictSoonestPending(f)}

\* sweepTombstonesLocked
sweepTombstones(f) ==
    [id \in Ids |-> IF f[id] # None /\ f[id] <= now THEN None ELSE f[id]]

sweepPending(f) ==
    [id \in Ids |-> IF f[id] # None /\ f[id].until <= now THEN None ELSE f[id]]

-----------------------------------------------------------------------------
(* Steps of a request.                                                     *)

Here(q) == Home[q]
At(q, p) == req[q].pc = p

Goto(q, p) == req' = [req EXCEPT ![q].pc = p]
Finish(q) == req' = [req EXCEPT ![q] = Idle]
\* The operation is over, with or without an error; the handler goes on.
Return(q) == req' = [req EXCEPT ![q].pc = "held", ![q].goal = "none",
                                ![q].val = 0]

Acquire(q, id) ==
    /\ lock[Here(q)][id] = None
    /\ lock' = [lock EXCEPT ![Here(q)][id] = q]
Release(q) == lock' = [lock EXCEPT ![Here(q)][req[q].sid] = None]

\* A fresh session object: ISessionFactory.NewSession under a random id.
Mint(q, id) ==
    /\ At(q, "idle") /\ q \notin Sweepers
    /\ id \notin minted
    /\ minted' = minted \cup {id}
    /\ req' = [req EXCEPT ![q].pc = "held", ![q].handle = "minted", ![q].sid = id]
    /\ UNCHANGED <<now, table, memory, lock, born, acked>>

\* CurrentSession: the client presents an id that was issued to somebody.
Lookup(q, id) ==
    /\ At(q, "idle") /\ q \notin Sweepers
    /\ id \in born
    /\ req' = [req EXCEPT ![q].pc = "get", ![q].goal = "lookup",
                          ![q].sid = id, ![q].seen = acked]
    /\ UNCHANGED <<now, table, memory, lock, history>>

\* AddSession starts by asking whether the session is stored.
AddSession(q) ==
    /\ At(q, "held")
    /\ req' = [req EXCEPT ![q].pc = "get", ![q].goal = "add"]
    /\ UNCHANGED <<now, table, memory, lock, history>>

\* A setter of a stored session; SetExpiry stands for them.  The entity
\* changes before the id lock is asked for.
SetExpiry(q) ==
    /\ At(q, "held") /\ req[q].handle = "loaded"
    /\ LET r == Here(q)
           id == req[q].sid
       IN  cache' = IF cache[r][id] = None THEN cache
                    ELSE [cache EXCEPT ![r][id] = [expiry |-> now + Lifetime,
                                                   unwritten |-> TRUE]]
    /\ req' = [req EXCEPT ![q].pc = "lockUpdate", ![q].goal = "touch",
                          ![q].val = now + Lifetime]
    /\ UNCHANGED <<now, table, tombs, pending, lock, history>>

\* Logout, rotation and a failed login revoke the id they hold, and are done
\* with the object.
RevokeHeld(q) ==
    /\ At(q, "held") /\ req[q].handle = "loaded"
    /\ req' = [req EXCEPT ![q] = [Idle EXCEPT !.pc = "lockDelete", !.goal = "revoke",
                                              !.sid = req[q].sid]]
    /\ UNCHANGED <<now, table, memory, lock, history>>

\* Logout goes by the id on the cookie, whatever became of the session.
RevokePresented(q, id) ==
    /\ At(q, "idle") /\ q \notin Sweepers
    /\ id \in born
    /\ req' = [req EXCEPT ![q].pc = "lockDelete", ![q].goal = "revoke",
                          ![q].sid = id]
    /\ UNCHANGED <<now, table, memory, lock, history>>

\* The handler returns.
EndRequest(q) ==
    /\ At(q, "held")
    /\ Finish(q)
    /\ UNCHANGED <<now, table, memory, lock, history>>

-----------------------------------------------------------------------------
(* GetSession, and what its callers do with the answer.                    *)

\* Fault: AddSession recreates whatever the store does not have.
AnswerNilRecreates(q) ==
    \/ req[q].goal = "lookup" /\ Finish(q)
    \/ req[q].goal = "add" /\ Goto(q, "lockCreate")

\* No such session: a lookup ends there; AddSession creates a session that
\* never had a row and refuses one that had.
AnswerNil(q) ==
    \/ req[q].goal = "lookup" /\ Finish(q)
    \/ req[q].goal = "add" /\ req[q].handle = "loaded" /\ Return(q)
    \/ req[q].goal = "add" /\ req[q].handle = "minted" /\ Goto(q, "lockCreate")

\* A database error: the lookup fails, AddSession reports it.
AnswerError(q) ==
    \/ req[q].goal = "lookup" /\ Finish(q)
    \/ req[q].goal = "add" /\ Return(q)

\* The id lock, then retryPendingRevocation's guard; if it says no, nothing
\* stands between it and isRevoked.
LockGet(q) ==
    LET r == Here(q)
        id == req[q].sid
        owed == pending[r][id]
    IN
    /\ At(q, "get")
    /\ lock[r][id] = None
    /\ \/ /\ owed # None
          /\ Acquire(q, id)
          /\ req' = [req EXCEPT ![q].pc = "retry", ![q].val = owed.until]
       \/ /\ owed # None => owed.lastTry = now
          /\ IF isRevoked(r, id)
             THEN AnswerNil(q) /\ UNCHANGED lock
             ELSE Acquire(q, id) /\ Goto(q, "find")
    /\ UNCHANGED <<now, table, memory, history>>

\* After a retry.
CheckRevoked(q) ==
    /\ At(q, "check")
    /\ IF isRevoked(Here(q), req[q].sid)
       THEN AnswerNil(q) /\ Release(q)
       ELSE Goto(q, "find") /\ UNCHANGED lock
    /\ UNCHANGED <<now, table, memory, history>>

FindFails(q) ==
    /\ At(q, "find")
    /\ AnswerError(q) /\ Release(q)
    /\ UNCHANGED <<now, table, memory, history>>

\* Fault: a cached session answers although its row is gone.
FindNoRowTrustsCache(q) ==
    /\ At(q, "find")
    /\ table[req[q].sid] = None
    /\ IF cache[Here(q)][req[q].sid] # None /\ req[q].goal = "lookup"
       THEN req' = [req EXCEPT ![q].pc = "held", ![q].goal = "none",
                               ![q].handle = "loaded"]
       ELSE AnswerNil(q)
    /\ Release(q)
    /\ UNCHANGED <<now, table, memory, history>>

FindNoRow(q) ==
    /\ At(q, "find")
    /\ table[req[q].sid] = None
    /\ cache' = [cache EXCEPT ![Here(q)][req[q].sid] = None]
    /\ AnswerNil(q) /\ Release(q)
    /\ UNCHANGED <<now, table, tombs, pending, history>>

\* The cached entity adopts the row, except for an expiry it has still to
\* write; then GetSessionById looks at the expiry it is left with.
FindRow(q) ==
    LET r == Here(q)
        id == req[q].sid
        entity == IF cache[r][id] # None /\ cache[r][id].unwritten
                  THEN cache[r][id]
                  ELSE [expiry |-> table[id], unwritten |-> FALSE]
    IN
    /\ At(q, "find")
    /\ table[id] # None
    /\ cache' = [cache EXCEPT ![r][id] = entity]
    /\ \/ entity.expiry < now /\ Goto(q, "lockDelete")
       \/ /\ entity.expiry >= now /\ req[q].goal = "lookup"
          /\ req' = [req EXCEPT ![q].pc = "held", ![q].goal = "none",
                                ![q].handle = "loaded"]
       \/ /\ entity.expiry >= now /\ req[q].goal = "add"
          /\ req' = [req EXCEPT ![q].pc = "lockUpdate",
                                ![q].val = entity.expiry]
    /\ Release(q)
    /\ UNCHANGED <<now, table, tombs, pending, history>>

-----------------------------------------------------------------------------
(* CreateSession and UpdateSession.                                        *)

LockCreate(q) ==
    LET id == req[q].sid IN
    /\ At(q, "lockCreate")
    /\ lock[Here(q)][id] = None
    /\ IF isRevoked(Here(q), id) THEN Finish(q) /\ UNCHANGED lock
       ELSE Acquire(q, id) /\ Goto(q, "insert")
    /\ UNCHANGED <<now, table, memory, history>>

\* A caller whose fresh session could not be stored drops it.
Insert(q) ==
    LET r == Here(q)
        id == req[q].sid
    IN
    /\ At(q, "insert")
    /\ Release(q)
    /\ \/ /\ table[id] = None
          /\ table' = [table EXCEPT ![id] = now + Lifetime]
          /\ born' = born \cup {id}
          /\ \/ /\ cache' = [cache EXCEPT ![r][id] =
                                [expiry |-> now + Lifetime, unwritten |-> FALSE]]
                /\ req' = [req EXCEPT ![q].pc = "held", ![q].goal = "none",
                                      ![q].handle = "loaded"]
             \/ Finish(q) /\ UNCHANGED cache     \* the answer was lost
       \/ Finish(q) /\ UNCHANGED <<table, born, cache>>
    /\ UNCHANGED <<now, tombs, pending, minted, acked>>

LockUpdate(q) ==
    LET id == req[q].sid IN
    /\ At(q, "lockUpdate")
    /\ lock[Here(q)][id] = None
    /\ IF isRevoked(Here(q), id) THEN Return(q) /\ UNCHANGED lock
       ELSE Acquire(q, id) /\ Goto(q, "update")
    /\ UNCHANGED <<now, table, memory, history>>

\* Fault: a row that is gone is written back.
UpdateUpserts(q) ==
    /\ At(q, "update")
    /\ Return(q) /\ Release(q)
    /\ table' = [table EXCEPT ![req[q].sid] = req[q].val]
    /\ UNCHANGED <<now, memory, history>>

\* UpdateExisting: a row that is gone is an error, never an insert.
Update(q) ==
    LET r == Here(q)
        id == req[q].sid
        expiry == IF cache[r][id] = None THEN req[q].val ELSE cache[r][id].expiry
    IN
    /\ At(q, "update")
    /\ Return(q) /\ Release(q)
    /\ \/ /\ table[id] # None
          /\ table' = [table EXCEPT ![id] = expiry]
          /\ \/ cache' = [cache EXCEPT ![r][id] =
                             [expiry |-> expiry, unwritten |-> FALSE]]
             \/ UNCHANGED cache
       \/ UNCHANGED <<table, cache>>
    /\ UNCHANGED <<now, tombs, pending, history>>

-----------------------------------------------------------------------------
(* DeleteSession.                                                          *)

\* revocationRetentionFor reads the cached expiry before the row goes.
LockDelete(q) ==
    LET id == req[q].sid IN
    /\ At(q, "lockDelete")
    /\ Acquire(q, id)
    /\ req' = [req EXCEPT ![q].pc = "delete",
                          ![q].val = revocationRetentionFor(Here(q), id)]
    /\ UNCHANGED <<now, table, memory, history>>

\* GetSessionById drops the error of the delete of an expired session.
AfterDelete(q) ==
    \/ req[q].goal = "revoke" /\ Finish(q)
    \/ req[q].goal # "revoke" /\ AnswerNil(q)

Delete(q) ==
    LET r == Here(q)
        id == req[q].sid
    IN
    /\ At(q, "delete")
    /\ AfterDelete(q) /\ Release(q)
    /\ table' = [table EXCEPT ![id] = None]
    /\ cache' = [cache EXCEPT ![r][id] = None]
    /\ acked' = IF req[q].goal = "revoke" THEN acked \cup {id} ELSE acked
    /\ IF table[id] # None
       THEN /\ \E f \in rememberTombstone(tombs[r], id, req[q].val) :
                  tombs' = [tombs EXCEPT ![r] = sweepTombstones(f)]
            /\ pending' = [pending EXCEPT ![r] =
                              sweepPending([pending[r] EXCEPT ![id] = None])]
       ELSE /\ tombs' = [tombs EXCEPT ![r] = sweepTombstones(tombs[r])]
            /\ pending' = [pending EXCEPT ![r] = sweepPending(pending[r])]
    /\ UNCHANGED <<now, minted, born>>

\* The statement may have run even so.
DeleteFails(q) ==
    LET r == Here(q)
        id == req[q].sid
    IN
    /\ At(q, "delete")
    /\ AfterDelete(q) /\ Release(q)
    /\ \/ table' = [table EXCEPT ![id] = None]
       \/ UNCHANGED table
    /\ cache' = [cache EXCEPT ![r][id] = None]
    /\ \E f \in rememberPending(pending[r], id, req[q].val) :
          pending' = [pending EXCEPT ![r] = sweepPending(f)]
    /\ tombs' = [tombs EXCEPT ![r] = sweepTombstones(tombs[r])]
    /\ UNCHANGED <<now, history>>

-----------------------------------------------------------------------------
(* retryPendingRevocation, from GetSession and from the sweep.             *)

\* The entry was read before the DELETE: it counts even if it was evicted.
AfterRetry(q) ==
    \/ req[q].goal = "sweep" /\ Goto(q, "sweepIds") /\ Release(q)
    \/ req[q].goal # "sweep" /\ Goto(q, "check") /\ UNCHANGED lock

Retry(q) ==
    LET r == Here(q)
        id == req[q].sid
    IN
    /\ At(q, "retry")
    /\ AfterRetry(q)
    /\ table' = [table EXCEPT ![id] = None]
    /\ pending' = [pending EXCEPT ![r][id] = None]
    /\ \E f \in rememberTombstone(tombs[r], id, req[q].val) :
          tombs' = [tombs EXCEPT ![r] = f]
    /\ UNCHANGED <<now, cache, history>>

RetryFails(q) ==
    LET r == Here(q)
        id == req[q].sid
    IN
    /\ At(q, "retry")
    /\ AfterRetry(q)
    /\ \/ table' = [table EXCEPT ![id] = None]
       \/ UNCHANGED table
    /\ pending' = IF pending[r][id] = None THEN pending
                  ELSE [pending EXCEPT ![r][id].lastTry = now]
    /\ UNCHANGED <<now, cache, tombs, history>>

-----------------------------------------------------------------------------
(* ClearExpired: the scheduled sweep and session:gc.                       *)

StartSweep(q) ==
    /\ At(q, "idle") /\ q \in Sweepers
    /\ req' = [req EXCEPT ![q].pc = "sweepRows", ![q].goal = "sweep"]
    /\ UNCHANGED <<now, table, memory, lock, history>>

\* DeleteExpired works in batches: it may stop after any of them.
DeleteExpired(q) ==
    /\ At(q, "sweepRows")
    /\ \E gone \in SUBSET {id \in Ids : table[id] # None /\ table[id] < now} :
          table' = [id \in Ids |-> IF id \in gone THEN None ELSE table[id]]
    /\ Goto(q, "sweepMemory")
    /\ UNCHANGED <<now, memory, lock, history>>

\* Fault: the sweep does not look at the revocations that are owed.
SweepMemoryOnly(q) ==
    /\ At(q, "sweepMemory")
    /\ req' = [req EXCEPT ![q].pc = "sweepIds", ![q].todo = {}]
    /\ UNCHANGED <<now, table, memory, lock, history>>

\* The cache pass takes no id lock, and runs whether or not the rows went.
SweepMemory(q) ==
    LET r == Here(q) IN
    /\ At(q, "sweepMemory")
    /\ cache' = [cache EXCEPT ![r] = [id \in Ids |->
                    IF @[id] # None /\ @[id].expiry < now THEN None ELSE @[id]]]
    /\ tombs' = [tombs EXCEPT ![r] = sweepTombstones(@)]
    /\ pending' = [pending EXCEPT ![r] = sweepPending(@)]
    /\ req' = [req EXCEPT ![q].pc = "sweepIds", ![q].todo = Entries(pending'[r])]
    /\ UNCHANGED <<now, table, lock, history>>

\* One round of retryPendingRevocations: the retry, or its guard saying no.
SweepRetry(q, id) ==
    /\ At(q, "sweepIds") /\ id \in req[q].todo
    /\ pending[Here(q)][id] # None
    /\ Acquire(q, id)
    /\ req' = [req EXCEPT ![q].pc = "retry", ![q].sid = id,
                          ![q].val = pending[Here(q)][id].until,
                          ![q].todo = @ \ {id}]
    /\ UNCHANGED <<now, table, memory, history>>

SweepSkip(q, id) ==
    LET owed == pending[Here(q)][id] IN
    /\ At(q, "sweepIds") /\ id \in req[q].todo
    /\ lock[Here(q)][id] = None
    /\ owed # None => owed.lastTry = now
    /\ req' = [req EXCEPT ![q].todo = @ \ {id}]
    /\ UNCHANGED <<now, table, memory, lock, history>>

EndSweep(q) ==
    /\ At(q, "sweepIds") /\ req[q].todo = {}
    /\ Finish(q)
    /\ UNCHANGED <<now, table, memory, lock, history>>

-----------------------------------------------------------------------------
Tick ==
    /\ now < MaxTime
    /\ now' = now + 1
    /\ UNCHANGED <<table, memory, lock, req, history>>

\* A process ends, in the middle of anything, and starts again empty.
Restart(r) ==
    /\ cache' = [cache EXCEPT ![r] = [id \in Ids |-> None]]
    /\ tombs' = [tombs EXCEPT ![r] = [id \in Ids |-> None]]
    /\ pending' = [pending EXCEPT ![r] = [id \in Ids |-> None]]
    /\ lock' = [lock EXCEPT ![r] = [id \in Ids |-> None]]
    /\ req' = [q \in Requests |-> IF Home[q] = r THEN Idle ELSE req[q]]
    /\ UNCHANGED <<now, table, history>>

Begin(q) ==
    \/ \E id \in Ids : Mint(q, id) \/ Lookup(q, id) \/ RevokePresented(q, id)
    \/ AddSession(q) \/ SetExpiry(q) \/ RevokeHeld(q) \/ EndRequest(q)

\* What a request that has begun an operation does next.
Proceed(q) ==
    \/ LockGet(q) \/ CheckRevoked(q)
    \/ FindFails(q) \/ FindNoRow(q) \/ FindRow(q)
    \/ LockCreate(q) \/ Insert(q)
    \/ LockUpdate(q) \/ Update(q)
    \/ LockDelete(q) \/ Delete(q) \/ DeleteFails(q)
    \/ Retry(q) \/ RetryFails(q)

Sweep(q) ==
    \/ StartSweep(q) \/ DeleteExpired(q) \/ SweepMemory(q)
    \/ \E id \in Ids : SweepRetry(q, id) \/ SweepSkip(q, id)
    \/ EndSweep(q)

Next ==
    \/ \E q \in Requests : Begin(q) \/ Proceed(q) \/ Sweep(q)
    \/ Tick
    \/ \E r \in Replicas : Restart(r)

Spec == Init /\ [][Next]_vars

-----------------------------------------------------------------------------
(* Properties.                                                             *)

\* A revocation that was reported as done is final: no request of any
\* replica, holding whatever session object, brings the row back
\* (AddSession's refusal, db_session.go; persistReconciling; UpdateExisting).
RevocationIsFinal == \A id \in acked : table[id] = None

\* No lookup that began after a revocation was reported is given the session,
\* on any replica: the row decides, not the cache (GetSession).  And while a
\* replica remembers that an id was revoked, or owes its revocation, it does
\* not have the session in its cache: no request that was inside its database
\* call puts it back (DeleteSession's comment).
NotServedAfterRevocation ==
    /\ \A q \in Requests : req[q].handle = "loaded" => req[q].sid \notin req[q].seen
    /\ \A r \in Replicas, id \in Ids : isRevoked(r, id) => cache[r][id] = None

\* The row of an id, over time: never there, there, gone.
Status ==
    [id \in Ids |-> IF table[id] # None THEN "live"
                    ELSE IF id \in born THEN "ended" ELSE "unborn"]

Authority == INSTANCE SessionAuthority
                 WITH status <- Status, acknowledged <- acked

\* All replicas together keep the promise of SessionAuthority: an id has a row
\* during one stretch of time, whatever is lost, retried or restarted.
ImplementsAuthority == Authority!Spec

\* The sweep is the retry hook for the ids no client presents again
\* (ClearExpired): when the DELETE can succeed again and again, a revocation
\* the sweeping replica owes does not stay owed.
OwedIsDischarged ==
    \A g \in Sweepers, id \in Ids :
        RevocationPending(Home[g], id)
        ~> (table[id] = None \/ pending[Home[g]][id] = None)

\* Handlers and the job run to their end; the keyed mutex is a sync.Mutex,
\* which starves nobody; sweeps are minutes apart, so the second between two
\* tries does not stop every one of them; the database recovers often enough
\* to run a DELETE.
Fairness ==
    /\ \A q \in Requests : WF_vars(Proceed(q))
    /\ \A g \in Sweepers :
        /\ WF_vars(StartSweep(g) \/ DeleteExpired(g) \/ SweepMemory(g) \/ EndSweep(g))
        /\ \A id \in Ids : SF_vars(SweepRetry(g, id)) /\ SF_vars(SweepSkip(g, id))
        /\ SF_vars(Retry(g))

LiveSpec == Spec /\ Fairness

-----------------------------------------------------------------------------
(* What a comment of the code says and the code does not do.                *)

\* DeleteSession: a revocation that failed is recorded, which "retains the
\* refusal (isRevoked consults both) and the obligation", here for a session
\* the table still holds and until the time the call computed for it.
FailedRevocationIsOwed ==
    [][\A q \in Requests, id \in Ids :
         DeleteFails(q) /\ id = req[q].sid /\ req[q].val > now
         => \/ RevocationPending(Home[q], id)'
            \/ table'[id] = None \/ table'[id] < now]_vars
=============================================================================
