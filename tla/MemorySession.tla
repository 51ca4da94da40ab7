---------------------------- MODULE MemorySession ----------------------------
(***************************************************************************)
(* The session store of auth.session.storage: memory. A map under a mutex, *)
(* so every call is one step; what is hard is its own bounds: it sweeps    *)
(* what has expired, it forgets revocations after a while, and it holds no *)
(* more than so many of them. Requests keep the objects they were served,  *)
(* may slide their expiry, and may store them again whenever they like.    *)
(*                                                                         *)
(* Times are what is left of them, or how long ago they were.              *)
(***************************************************************************)
EXTENDS Integers, FiniteSets

CONSTANTS
    SessionIds,
    Lifetime,           \* of a session
    Retention,          \* SessionTombstoneRetention
    SweepEvery,         \* MemorySweepInterval, and tombstoneSweepInterval
    MaxTombstones       \* MaxSessionTombstones

ASSUME MemoryAssumption == Retention \in Nat \ {0} /\ MaxTombstones \in Nat

VARIABLES
    held,               \* sessions: what is left of the expiry of each one held
    tombstones,         \* what is left of the retention of each one remembered
    swept,              \* how long ago sessions were swept, up to SweepEvery
    tombsSwept,         \* how long ago tombstones were
    revocations         \* ghost: what is left of the retention of each id revoked

memoryVars == <<held, tombstones, swept, tombsSwept, revocations>>

Off(f, ids) == [id \in DOMAIN f \ ids |-> f[id]]
With(f, id, v) == [i \in DOMAIN f \cup {id} |-> IF i = id THEN v ELSE f[i]]
Sooner(n) == IF n = 0 THEN 0 ELSE n - 1
Later(n, most) == IF n = most THEN most ELSE n + 1

MemoryInit ==
    /\ held = [id \in {} |-> 0] /\ tombstones = [id \in {} |-> 0]
    /\ swept = SweepEvery /\ tombsSwept = SweepEvery
    /\ revocations = [id \in {} |-> 0]

Elapse ==
    /\ held' = [id \in DOMAIN held |-> Sooner(held[id])]
    /\ tombstones' = [id \in DOMAIN tombstones |-> Sooner(tombstones[id])]
    /\ swept' = Later(swept, SweepEvery) /\ tombsSwept' = Later(tombsSwept, SweepEvery)
    /\ revocations' = [id \in {i \in DOMAIN revocations : revocations[i] > 1} |->
                          revocations[id] - 1]

---------------------------------------------------------------------------
\* sweepTombstonesLocked: those whose retention is over, once in a while.
TombstonesSwept(ts) ==
    IF tombsSwept < SweepEvery
    THEN tombstones' = ts /\ UNCHANGED tombsSwept
    ELSE tombstones' = Off(ts, {id \in DOMAIN ts : ts[id] = 0}) /\ tombsSwept' = 0

Expired(sessions) == {id \in DOMAIN sessions : sessions[id] = 0}

\* AddSession: refused while the id's tombstone stands; else stored, and perhaps a sweep.
AddSession(id, left) ==
    /\ id \in DOMAIN tombstones => tombstones[id] = 0
    /\ LET stored == With(held, id, left)
       IN  IF swept < SweepEvery
           THEN held' = stored /\ UNCHANGED <<swept, tombstones, tombsSwept>>
           ELSE /\ held' = Off(stored, Expired(stored))
                /\ swept' = 0
                /\ TombstonesSwept(tombstones)
    /\ UNCHANGED revocations

\* SessionMiddleware slides the window on the object, which the map shares.
SetExpiry(id, left) ==
    /\ id \in DOMAIN held
    /\ held' = [held EXCEPT ![id] = left]
    /\ UNCHANGED <<tombstones, swept, tombsSwept, revocations>>

\* ClearExpiredSessions, when a job calls it.
ClearExpiredSessions ==
    /\ held' = Off(held, Expired(held))
    /\ TombstonesSwept(tombstones)
    /\ UNCHANGED <<swept, revocations>>

\* Fault: the newest goes when the set is full, and makes room for the next.
EvictNewest(ts) ==
    IF Cardinality(DOMAIN ts) < MaxTombstones THEN {ts}
    ELSE {Off(ts, {id}) : id \in {i \in DOMAIN ts : \A j \in DOMAIN ts : ts[j] <= ts[i]}}

\* evictOldestLocked: one that ends soonest, whichever of them the map's order comes to first.
EvictOldest(ts) ==
    IF Cardinality(DOMAIN ts) < MaxTombstones THEN {ts}
    ELSE {Off(ts, {id}) : id \in {i \in DOMAIN ts : \A j \in DOMAIN ts : ts[i] <= ts[j]}}

\* revokeLocked: an id is remembered when the store held it, and only then.
Revoke(id) ==
    /\ held' = Off(held, {id})
    /\ IF id \in DOMAIN held
       THEN /\ \E room \in EvictOldest(tombstones) : TombstonesSwept(With(room, id, Retention))
            /\ revocations' = With(revocations, id, Retention)
       ELSE /\ TombstonesSwept(tombstones)
            /\ UNCHANGED revocations
    /\ UNCHANGED swept

MemoryNext ==
    \/ Elapse \/ ClearExpiredSessions
    \/ \E id \in SessionIds : Revoke(id) \/ \E left \in 0..Lifetime : AddSession(id, left) \/ SetExpiry(id, left)

MemorySpec == MemoryInit /\ [][MemoryNext]_memoryVars

---------------------------------------------------------------------------
\* A session that was revoked is not put back by whoever still holds it: not while its
\* retention runs, whatever sweeps and however its expiry slides, unless as many revocations as
\* the set holds came in the same instant or after (memory_session.go:214-224, 303-325;
\* session_mediator.go:419-433).
RevokedStaysOut ==
    \A id \in DOMAIN revocations :
        Cardinality({i \in DOMAIN revocations \ {id} : revocations[i] >= revocations[id]}) < MaxTombstones
        => id \notin DOMAIN held

=============================================================================
