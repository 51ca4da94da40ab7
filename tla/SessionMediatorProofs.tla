----------------------- MODULE SessionMediatorProofs -----------------------
(***************************************************************************)
(* For every number of replicas, requests and ids: the type invariant of   *)
(* SessionMediator, the finality of a revocation, that a revoked session   *)
(* is not served, and the refinement of SessionAuthority.                  *)
(*                                                                         *)
(* The tables alone do not say why a revoked id stays away: an INSERT is   *)
(* sent only by a request whose session object never had a row, and such   *)
(* an object belongs to one request and carries an id that was never       *)
(* stored.  That is what IInv adds.                                        *)
(*                                                                         *)
(* That a revoked session is not served rests on the lock of its id:       *)
(* whoever works on the id holds the lock of its replica (HoldsItsLock),   *)
(* so nobody gets past the check for revocations while one is reported     *)
(* there (PassedTheCheck), and what is tried again is in no cache          *)
(* (RetryIsUncached).  ServedIInv is these, and that a lookup knows only   *)
(* of revocations that were reported (SeenIsAcked).                        *)
(***************************************************************************)
EXTENDS SessionMediator, TLAPS

\* A request inside an operation works on an id.
WorksOnId ==
    \A q \in Requests :
        req[q].pc \notin {"idle", "sweepRows", "sweepMemory", "sweepIds"}
        => req[q].sid \in Ids

\* A request that is idle or sweeping holds no session object.
HoldsNothing ==
    \A q \in Requests :
        /\ req[q].pc \in {"idle", "sweepRows", "sweepMemory", "sweepIds"}
           \/ req[q].goal = "sweep"
           => req[q].handle = "none"
        /\ req[q].pc \in {"sweepRows", "sweepMemory", "sweepIds"}
           => req[q].goal = "sweep"
        /\ req[q].pc = "idle" => req[q].goal = "none"

\* An unstored session object is under an id that never had a row, and no
\* other request has one under the same id.
FreshIsUnborn ==
    /\ \A q \in Requests :
         req[q].handle = "minted" => req[q].sid \in minted \ born
    /\ \A p, q \in Requests :
         req[p].handle = "minted" /\ req[q].handle = "minted" /\ p # q
         => req[p].sid # req[q].sid

\* Whoever is about to insert holds an unstored object.
OnlyFreshIsInserted ==
    \A q \in Requests :
        req[q].pc \in {"lockCreate", "insert"} => req[q].handle = "minted"

\* A loaded object, a lookup and a revocation are about an id that was stored.
KnownIsBorn ==
    \A q \in Requests :
        req[q].handle = "loaded" \/ req[q].goal \in {"lookup", "revoke"}
        => req[q].sid \in born

BornBeforeStored ==
    /\ born \subseteq minted
    /\ acked \subseteq born
    /\ \A id \in Ids : table[id] # None => id \in born

IInv ==
    /\ TypeOK
    /\ WorksOnId
    /\ HoldsNothing
    /\ FreshIsUnborn
    /\ OnlyFreshIsInserted
    /\ KnownIsBorn
    /\ BornBeforeStored
    /\ RevocationIsFinal

-----------------------------------------------------------------------------
USE DEF At, Here

LEMMA InitIInv == Init => IInv
BY HomeAssumption, NoneAssumption
   DEF Init, IInv, TypeOK, WorksOnId, HoldsNothing, FreshIsUnborn,
       OnlyFreshIsInserted, KnownIsBorn, BornBeforeStored, RevocationIsFinal,
       Nothing, Idle, Request


\* What a step may leave in the record of the request that takes it, when it
\* mints and stores nothing.
Quiet == {"idle", "sweepRows", "sweepMemory", "sweepIds"}

Allowed(old, new) ==
    /\ new \in Request
    /\ new.pc \notin Quiet => new.sid \in Ids
    /\ new.pc \in Quiet \/ new.goal = "sweep" => new.handle = "none"
    /\ new.pc \in Quiet \ {"idle"} => new.goal = "sweep"
    /\ new.pc = "idle" => new.goal = "none"
    /\ new.handle = "minted" => old.handle = "minted" /\ new.sid = old.sid
    /\ new.pc \in {"lockCreate", "insert"} => new.handle = "minted"
    /\ new.handle = "loaded" \/ new.goal \in {"lookup", "revoke"}
       => new.sid \in born

StoreOK ==
    /\ now \in Nat
    /\ table \in [Ids -> Nat \cup {None}]
    /\ cache \in [Replicas -> [Ids -> Entity \cup {None}]]
    /\ tombs \in [Replicas -> [Ids -> Nat \cup {None}]]
    /\ pending \in [Replicas -> [Ids -> Owed \cup {None}]]
    /\ lock \in [Replicas -> [Ids -> Requests \cup {None}]]

LEMMA StepIInv ==
    ASSUME IInv, NEW q \in Requests, NEW new,
           req' = [req EXCEPT ![q] = new], Allowed(req[q], new),
           StoreOK',
           minted' = minted, born' = born,
           acked \subseteq acked',
           \A id \in acked' \ acked : id \in born /\ table'[id] = None,
           \A id \in Ids : table[id] = None => table'[id] = None
    PROVE  IInv'
<1> USE DEF Allowed, IInv, Quiet
<1>1. TypeOK'
  <2>1. req' \in [Requests -> Request]
    BY DEF TypeOK
  <2> QED BY <2>1 DEF TypeOK, StoreOK, BornBeforeStored
<1>2. \A p \in Requests : req'[p] = IF p = q THEN new ELSE req[p]
  BY DEF TypeOK
<1>3. WorksOnId'
  BY <1>2 DEF WorksOnId
<1>4. HoldsNothing'
  BY <1>2 DEF HoldsNothing
<1>5. FreshIsUnborn'
  BY <1>2 DEF FreshIsUnborn
<1>6. OnlyFreshIsInserted'
  BY <1>2 DEF OnlyFreshIsInserted
<1>7. KnownIsBorn'
  BY <1>2 DEF KnownIsBorn
<1>8. BornBeforeStored'
  BY DEF BornBeforeStored, TypeOK
<1>9. RevocationIsFinal'
  BY DEF RevocationIsFinal, BornBeforeStored, TypeOK
<1> QED BY <1>1, <1>3, <1>4, <1>5, <1>6, <1>7, <1>8, <1>9

LEMMA BeginIInv == ASSUME IInv, NEW q \in Requests, Begin(q) PROVE IInv'
<1> USE DEF IInv, Request, Allowed, Quiet, memory, history
<1> DEFINE old == req[q]
<1>0. old \in Request /\ StoreOK
  BY DEF TypeOK, StoreOK
<1>1. ASSUME NEW id \in Ids, Mint(q, id) PROVE IInv'
  <2>1. TypeOK'
    BY ZenonT(30), <1>0, <1>1 DEF Mint, TypeOK
  <2>2. \A p \in Requests : p # q => req'[p] = req[p]
    BY <1>1 DEF Mint, TypeOK
  <2>3. /\ req'[q].pc = "held" /\ req'[q].goal = old.goal
        /\ req'[q].handle = "minted" /\ req'[q].sid = id
    BY <1>0, <1>1 DEF Mint, TypeOK
  <2>4. /\ old.handle = "none" /\ old.goal = "none"
        /\ id \notin born /\ id \notin minted /\ minted' = minted \cup {id}
        /\ born' = born /\ acked' = acked /\ table' = table
    BY <1>1 DEF Mint, HoldsNothing, BornBeforeStored, KnownIsBorn
  <2> HIDE DEF Request
  <2>5. FreshIsUnborn'
    BY <2>2, <2>3, <2>4 DEF FreshIsUnborn
  <2>6. WorksOnId'
    BY <2>2, <2>3 DEF WorksOnId
  <2>7. HoldsNothing'
    BY <2>2, <2>3, <2>4 DEF HoldsNothing
  <2>8. OnlyFreshIsInserted' /\ KnownIsBorn'
    BY <2>2, <2>3, <2>4 DEF OnlyFreshIsInserted, KnownIsBorn
  <2>9. BornBeforeStored' /\ RevocationIsFinal'
    BY <2>4 DEF BornBeforeStored, RevocationIsFinal
  <2> QED BY <2>1, <2>5, <2>6, <2>7, <2>8, <2>9
<1>2. ASSUME NEW id \in Ids, Lookup(q, id) PROVE IInv'
  <2> DEFINE new == [old EXCEPT !.pc = "get", !.goal = "lookup", !.sid = id,
                                !.seen = acked]
  <2>1. req' = [req EXCEPT ![q] = new] /\ Allowed(old, new)
    BY <1>0, <1>2 DEF Lookup, TypeOK, HoldsNothing
  <2>2. StoreOK'
    BY <1>0, <1>2 DEF Lookup, StoreOK
  <2> QED BY ZenonT(30), <1>2, <2>1, <2>2, StepIInv DEF Lookup
<1>3. ASSUME NEW id \in Ids, RevokePresented(q, id) PROVE IInv'
  <2> DEFINE new == [old EXCEPT !.pc = "lockDelete", !.goal = "revoke", !.sid = id]
  <2>1. req' = [req EXCEPT ![q] = new] /\ Allowed(old, new)
    BY <1>0, <1>3 DEF RevokePresented, TypeOK, HoldsNothing
  <2>2. StoreOK'
    BY <1>0, <1>3 DEF RevokePresented, StoreOK
  <2> QED BY <1>3, <2>1, <2>2, StepIInv DEF RevokePresented
<1>4. CASE AddSession(q)
  <2> DEFINE new == [old EXCEPT !.pc = "get", !.goal = "add"]
  <2>1. req' = [req EXCEPT ![q] = new] /\ Allowed(old, new)
    BY <1>0, <1>4 DEF AddSession, TypeOK, WorksOnId, FreshIsUnborn, KnownIsBorn
  <2>2. StoreOK'
    BY <1>0, <1>4 DEF AddSession, StoreOK
  <2> QED BY <1>4, <2>1, <2>2, StepIInv DEF AddSession
<1>5. CASE SetExpiry(q)
  <2> DEFINE new == [old EXCEPT !.pc = "lockUpdate", !.goal = "touch",
                                !.val = now + Lifetime]
  <2>0. /\ req' = [req EXCEPT ![q] = new]
        /\ old.pc = "held" /\ old.handle = "loaded"
    BY <1>5 DEF SetExpiry
  <2>1. now + Lifetime \in Nat
    BY TimesAssumption DEF TypeOK
  <2>2. Allowed(old, new)
    BY <1>0, <2>0, <2>1 DEF WorksOnId, KnownIsBorn
  <2>3. cache' \in [Replicas -> [Ids -> Entity \cup {None}]]
    <3>1. [expiry |-> now + Lifetime, unwritten |-> TRUE] \in Entity
      BY <2>1 DEF Entity
    <3> QED BY <1>0, <1>5, <3>1 DEF SetExpiry, StoreOK
  <2>4. StoreOK'
    BY <1>0, <1>5, <2>3 DEF SetExpiry, StoreOK
  <2> QED BY <1>5, <2>0, <2>2, <2>4, StepIInv DEF SetExpiry
<1>6. CASE RevokeHeld(q)
  <2> DEFINE new == [Idle EXCEPT !.pc = "lockDelete", !.goal = "revoke",
                                 !.sid = old.sid]
  <2>1. req' = [req EXCEPT ![q] = new] /\ old.sid \in Ids /\ old.sid \in born
    BY <1>6 DEF RevokeHeld, WorksOnId, KnownIsBorn
  <2>2. Allowed(old, new)
    BY <2>1 DEF Idle
  <2>3. StoreOK'
    BY <1>0, <1>6 DEF RevokeHeld, StoreOK
  <2> QED BY <1>6, <2>1, <2>2, <2>3, StepIInv DEF RevokeHeld
<1>7. CASE EndRequest(q)
  <2>1. Allowed(old, Idle)
    BY NoneAssumption DEF Idle
  <2>2. StoreOK'
    BY <1>0, <1>7 DEF EndRequest, StoreOK
  <2> QED BY <1>7, <2>1, <2>2, StepIInv DEF EndRequest, Finish
<1> QED BY <1>1, <1>2, <1>3, <1>4, <1>5, <1>6, <1>7 DEF Begin

\* The request takes a step that mints and stores nothing.
Advances(q) ==
    \E new \in Request : req' = [req EXCEPT ![q] = new] /\ Allowed(req[q], new)

\* What IInv says of one request.
LEMMA RecordFacts ==
    ASSUME IInv, NEW q \in Requests
    PROVE  /\ req[q] \in Request
           /\ req[q].pc \notin Quiet => req[q].sid \in Ids
           /\ req[q].pc \in Quiet \/ req[q].goal = "sweep" => req[q].handle = "none"
           /\ req[q].handle = "loaded" \/ req[q].goal \in {"lookup", "revoke"}
              => req[q].sid \in born
BY DEF IInv, TypeOK, WorksOnId, HoldsNothing, KnownIsBorn, Quiet

\* What the answers of an operation leave behind.
LEMMA FinishAdvances ==
    ASSUME NEW q \in Requests, Finish(q) PROVE Advances(q)
<1>1. Idle \in Request
  BY DEF Idle, Request
<1>2. Allowed(req[q], Idle)
  BY <1>1 DEF Idle, Allowed, Quiet
<1> QED BY <1>1, <1>2 DEF Advances, Finish

LEMMA GotoAdvances ==
    ASSUME IInv, NEW q \in Requests, req[q].pc \notin Quiet,
           NEW p \in {"check", "find", "insert", "update", "lockDelete",
                      "lockCreate"},
           p \in {"lockCreate", "insert"} => req[q].handle = "minted",
           Goto(q, p)
    PROVE  Advances(q)
<1> DEFINE new == [req[q] EXCEPT !.pc = p]
<1>1. new \in Request
  BY RecordFacts DEF Request
<1>2. Allowed(req[q], new)
  <2>1. /\ new.handle = req[q].handle /\ new.sid = req[q].sid
        /\ new.pc = p /\ new.goal = req[q].goal
    BY RecordFacts DEF Request
  <2> HIDE DEF new
  <2> QED BY <1>1, <2>1, RecordFacts DEF Allowed, Quiet
<1> QED BY <1>1, <1>2 DEF Advances, Goto

LEMMA ReturnAdvances ==
    ASSUME IInv, NEW q \in Requests, req[q].pc \notin Quiet, Return(q)
    PROVE  Advances(q)
<1> DEFINE new == [req[q] EXCEPT !.pc = "held", !.goal = "none", !.val = 0]
<1>1. new \in Request
  BY RecordFacts DEF Request
<1>2. Allowed(req[q], new)
  <2>1. /\ new.handle = req[q].handle /\ new.sid = req[q].sid
        /\ new.pc = "held" /\ new.goal = "none"
    BY RecordFacts DEF Request
  <2> HIDE DEF new
  <2> QED BY <1>1, <2>1, RecordFacts DEF Allowed, Quiet
<1> QED BY <1>1, <1>2 DEF Advances, Return

LEMMA AnswerNilAdvances ==
    ASSUME IInv, NEW q \in Requests, req[q].pc \notin Quiet, AnswerNil(q)
    PROVE  Advances(q)
BY FinishAdvances, ReturnAdvances, GotoAdvances DEF AnswerNil

LEMMA LockType ==
    ASSUME lock \in [Replicas -> [Ids -> Requests \cup {None}]],
           NEW q \in Requests, NEW id \in Ids,
           \/ Acquire(q, id)
           \/ Release(q) /\ id = req[q].sid
           \/ lock' = lock
    PROVE  lock' \in [Replicas -> [Ids -> Requests \cup {None}]]
<1> DEFINE Holds == [Ids -> Requests \cup {None}]
           r == Home[q]
<1>1. r \in Replicas
  BY HomeAssumption
<1>2. ASSUME NEW h \in Requests \cup {None} PROVE [lock[r] EXCEPT ![id] = h] \in Holds
  BY <1>1
<1>3. ASSUME NEW h \in Requests \cup {None}, lock' = [lock EXCEPT ![r][id] = h]
      PROVE  lock' \in [Replicas -> Holds]
  <2>1. lock' = [lock EXCEPT ![r] = [lock[r] EXCEPT ![id] = h]]
    BY <1>3
  <2> HIDE DEF Holds
  <2> QED BY <1>1, <1>2, <2>1 DEF Holds
<1> QED BY <1>3 DEF Acquire, Release

LEMMA CacheType ==
    ASSUME cache \in [Replicas -> [Ids -> Entity \cup {None}]],
           NEW r \in Replicas, NEW id \in Ids, NEW e \in Entity,
           cache' = [cache EXCEPT ![r][id] = e] \/ cache' = cache
    PROVE  cache' \in [Replicas -> [Ids -> Entity \cup {None}]]
<1> DEFINE Cached == [Ids -> Entity \cup {None}]
<1>1. [cache[r] EXCEPT ![id] = e] \in Cached
  OBVIOUS
<1>2. CASE cache' = [cache EXCEPT ![r] = [cache[r] EXCEPT ![id] = e]]
  <2> HIDE DEF Cached
  <2> QED BY <1>1, <1>2 DEF Cached
<1> QED BY <1>2

\* Only a row that was there stays there.
LEMMA AdvanceIInv ==
    ASSUME IInv, NEW q \in Requests, Advances(q), StoreOK',
           minted' = minted, born' = born, acked' = acked,
           \A id \in Ids : table[id] = None => table'[id] = None
    PROVE  IInv'
BY StepIInv DEF Advances

-----------------------------------------------------------------------------
(* The maps of tombstones and of owed revocations keep their type.         *)

LEMMA TombstoneTypes ==
    ASSUME NEW f \in [Ids -> Nat \cup {None}], NEW id \in Ids, NEW until \in Nat
    PROVE  /\ sweepTombstones(f) \in [Ids -> Nat \cup {None}]
           /\ \A g \in rememberTombstone(f, id, until) :
                g \in [Ids -> Nat \cup {None}]
<1>1. \A g \in evictOldest(f) : g \in [Ids -> Nat \cup {None}]
  BY DEF evictOldest, Entries
<1> QED BY <1>1 DEF sweepTombstones, rememberTombstone

LEMMA PendingTypes ==
    ASSUME NEW f \in [Ids -> Owed \cup {None}], NEW id \in Ids, NEW until \in Nat,
           now \in Nat
    PROVE  /\ sweepPending(f) \in [Ids -> Owed \cup {None}]
           /\ [f EXCEPT ![id] = None] \in [Ids -> Owed \cup {None}]
           /\ \A g \in rememberPending(f, id, until) :
                g \in [Ids -> Owed \cup {None}]
<1>1. \A g \in evictSoonestPending(f) : g \in [Ids -> Owed \cup {None}]
  BY DEF evictSoonestPending, Entries
<1>2. [until |-> until, lastTry |-> now] \in Owed
  BY DEF Owed
<1>3. f[id] # None => [f[id] EXCEPT !.lastTry = now] \in Owed
  BY DEF Owed
<1>4. ASSUME NEW g \in rememberPending(f, id, until)
      PROVE  g \in [Ids -> Owed \cup {None}]
  <2>1. CASE f[id] # None
    <3>1. g = [f EXCEPT ![id] = [f[id] EXCEPT !.lastTry = now]]
      BY <1>4, <2>1 DEF rememberPending
    <3> QED BY <1>3, <2>1, <3>1
  <2>2. CASE f[id] = None
    BY <1>1, <1>2, <1>4, <2>2 DEF rememberPending
  <2> QED BY <2>1, <2>2
<1> QED BY <1>4 DEF sweepPending

-----------------------------------------------------------------------------
\* An INSERT goes out only under an id that nobody has revoked.
LEMMA InsertIInv == ASSUME IInv, NEW q \in Requests, Insert(q) PROVE IInv'
<1> DEFINE old == req[q]
           r == Home[q]
           id == old.sid
           row == [expiry |-> now + Lifetime, unwritten |-> FALSE]
           kept == [old EXCEPT !.pc = "held", !.goal = "none", !.handle = "loaded"]
<1>0. /\ old \in Request /\ StoreOK /\ r \in Replicas
      /\ old.pc = "insert" /\ old.pc \notin Quiet /\ id \in Ids
      /\ old.handle = "minted" /\ id \in minted \ born
      /\ now + Lifetime \in Nat /\ row \in Entity
  BY HomeAssumption, TimesAssumption
     DEF IInv, TypeOK, StoreOK, Insert, WorksOnId, OnlyFreshIsInserted,
         FreshIsUnborn, Quiet, Entity
<1>1. CASE table' = table /\ born' = born /\ cache' = cache /\ Finish(q)
  <2>1. StoreOK'
    BY <1>0, <1>1 DEF Insert, Release, StoreOK
  <2> QED BY <1>1, <2>1, FinishAdvances, AdvanceIInv DEF Insert
<1>2. CASE /\ table[id] = None
           /\ table' = [table EXCEPT ![id] = now + Lifetime]
           /\ born' = born \cup {id}
           /\ \/ /\ cache' = [cache EXCEPT ![r][id] = row]
                 /\ req' = [req EXCEPT ![q] = kept]
              \/ Finish(q) /\ cache' = cache
  <2>0. lock' \in [Replicas -> [Ids -> Requests \cup {None}]]
    BY <1>0, LockType DEF Insert, StoreOK
  <2> HIDE DEF row
  <2>1. StoreOK'
    <3>1. cache' \in [Replicas -> [Ids -> Entity \cup {None}]]
      BY <1>0, <1>2, CacheType DEF StoreOK
    <3>2. table' \in [Ids -> Nat \cup {None}]
      BY <1>0, <1>2 DEF StoreOK
    <3>3. now' = now /\ tombs' = tombs /\ pending' = pending
      BY DEF Insert
    <3> QED BY <1>0, <2>0, <3>1, <3>2, <3>3 DEF StoreOK
  <2>2. PICK new \in {kept, Idle} : req' = [req EXCEPT ![q] = new]
    BY <1>2 DEF Finish
  <2>3. /\ kept \in Request /\ kept.pc = "held" /\ kept.goal = "none"
        /\ kept.handle = "loaded" /\ kept.sid = id
    BY <1>0 DEF Request
  <2>4. /\ Idle \in Request /\ Idle.pc = "idle" /\ Idle.goal = "none"
        /\ Idle.handle = "none"
    BY DEF Request, Idle
  <2>5. \A p \in Requests : req'[p] = IF p = q THEN new ELSE req[p]
    BY <2>2 DEF IInv, TypeOK
  <2>6. minted' = minted /\ acked' = acked
    BY DEF Insert
  <2> HIDE DEF kept
  <2>7. TypeOK'
    <3>1. req' \in [Requests -> Request]
      BY <2>2, <2>3, <2>4 DEF IInv, TypeOK
    <3> QED BY <1>0, <1>2, <2>1, <2>6, <3>1 DEF IInv, TypeOK, StoreOK
  <2>8. WorksOnId' /\ HoldsNothing' /\ OnlyFreshIsInserted'
    BY <1>0, <2>2, <2>3, <2>4, <2>5
       DEF IInv, WorksOnId, HoldsNothing, OnlyFreshIsInserted
  <2>9. FreshIsUnborn'
    BY <1>0, <1>2, <2>2, <2>3, <2>4, <2>5, <2>6 DEF IInv, FreshIsUnborn
  <2>10. KnownIsBorn'
    BY <1>2, <2>2, <2>3, <2>4, <2>5 DEF IInv, KnownIsBorn
  <2>11. BornBeforeStored' /\ RevocationIsFinal'
    BY <1>0, <1>2, <2>6 DEF IInv, BornBeforeStored, RevocationIsFinal, StoreOK
  <2> QED BY <2>7, <2>8, <2>9, <2>10, <2>11 DEF IInv
<1> QED BY <1>1, <1>2 DEF Insert

LEMMA DeleteIInv == ASSUME IInv, NEW q \in Requests, Delete(q) PROVE IInv'
<1> DEFINE old == req[q]
           r == Home[q]
           id == old.sid
<1>0. /\ old \in Request /\ StoreOK /\ r \in Replicas
      /\ old.pc = "delete" /\ old.pc \notin Quiet /\ id \in Ids
      /\ old.val \in Nat
  BY HomeAssumption
     DEF IInv, TypeOK, StoreOK, Delete, WorksOnId, Quiet, Request
<1>1. Advances(q)
  BY <1>0, FinishAdvances, AnswerNilAdvances DEF Delete, AfterDelete
<1>2. tombs' \in [Replicas -> [Ids -> Nat \cup {None}]]
  <2>1. CASE table[id] # None
    <3>1. PICK f \in rememberTombstone(tombs[r], id, old.val) :
             tombs' = [tombs EXCEPT ![r] = sweepTombstones(f)]
      BY <2>1 DEF Delete
    <3>2. f \in [Ids -> Nat \cup {None}]
      BY <1>0, <3>1, TombstoneTypes DEF StoreOK
    <3>3. sweepTombstones(f) \in [Ids -> Nat \cup {None}]
      BY <1>0, <3>2, TombstoneTypes
    <3> QED BY <1>0, <3>1, <3>3 DEF StoreOK
  <2>2. CASE table[id] = None
    <3>1. sweepTombstones(tombs[r]) \in [Ids -> Nat \cup {None}]
      BY <1>0, TombstoneTypes DEF StoreOK
    <3> QED BY <1>0, <2>2, <3>1 DEF Delete, StoreOK
  <2> QED BY <2>1, <2>2
<1>3. pending' \in [Replicas -> [Ids -> Owed \cup {None}]]
  <2> DEFINE rest == [pending[r] EXCEPT ![id] = None]
  <2>1. /\ pending[r] \in [Ids -> Owed \cup {None}]
        /\ rest \in [Ids -> Owed \cup {None}]
    BY <1>0, PendingTypes DEF StoreOK
  <2>2. /\ sweepPending(pending[r]) \in [Ids -> Owed \cup {None}]
        /\ sweepPending(rest) \in [Ids -> Owed \cup {None}]
    BY <1>0, <2>1, PendingTypes DEF StoreOK
  <2>3. \/ pending' = [pending EXCEPT ![r] = sweepPending(rest)]
        \/ pending' = [pending EXCEPT ![r] = sweepPending(pending[r])]
    BY DEF Delete
  <2> QED BY <1>0, <2>2, <2>3 DEF StoreOK
<1>4. StoreOK'
  BY <1>0, <1>2, <1>3 DEF Delete, Release, StoreOK
<1>5. /\ acked \subseteq acked'
      /\ \A i \in acked' \ acked : i \in born /\ table'[i] = None
  BY <1>0 DEF Delete, IInv, KnownIsBorn, StoreOK
<1>6. \A i \in Ids : table[i] = None => table'[i] = None
  BY <1>0 DEF Delete, StoreOK
<1> QED BY <1>1, <1>4, <1>5, <1>6, StepIInv DEF Delete, Advances

LEMMA DeleteFailsIInv ==
    ASSUME IInv, NEW q \in Requests, DeleteFails(q) PROVE IInv'
<1> DEFINE old == req[q]
           r == Home[q]
           id == old.sid
<1>0. /\ old \in Request /\ StoreOK /\ r \in Replicas
      /\ old.pc = "delete" /\ old.pc \notin Quiet /\ id \in Ids
      /\ old.val \in Nat
  BY HomeAssumption
     DEF IInv, TypeOK, StoreOK, DeleteFails, WorksOnId, Quiet, Request
<1>1. Advances(q)
  BY <1>0, FinishAdvances, AnswerNilAdvances DEF DeleteFails, AfterDelete
<1>2. tombs' \in [Replicas -> [Ids -> Nat \cup {None}]]
  <2>1. sweepTombstones(tombs[r]) \in [Ids -> Nat \cup {None}]
    BY <1>0, TombstoneTypes DEF StoreOK
  <2> QED BY <1>0, <2>1 DEF DeleteFails, StoreOK
<1>3. pending' \in [Replicas -> [Ids -> Owed \cup {None}]]
  <2>1. PICK f \in rememberPending(pending[r], id, old.val) :
           pending' = [pending EXCEPT ![r] = sweepPending(f)]
    BY DEF DeleteFails
  <2>2. f \in [Ids -> Owed \cup {None}]
    BY <1>0, <2>1, PendingTypes DEF StoreOK
  <2>3. sweepPending(f) \in [Ids -> Owed \cup {None}]
    BY <1>0, <2>2, PendingTypes DEF StoreOK
  <2> QED BY <1>0, <2>1, <2>3 DEF StoreOK
<1>4. StoreOK'
  BY <1>0, <1>2, <1>3 DEF DeleteFails, Release, StoreOK
<1>5. \A i \in Ids : table[i] = None => table'[i] = None
  BY <1>0 DEF DeleteFails, StoreOK
<1> QED BY <1>1, <1>4, <1>5, AdvanceIInv DEF DeleteFails, history

LEMMA AfterRetryAdvances ==
    ASSUME IInv, NEW q \in Requests, req[q].pc = "retry", AfterRetry(q)
    PROVE  Advances(q)
<1>1. CASE Goto(q, "check")
  BY <1>1, GotoAdvances DEF Quiet
<1>2. CASE req[q].goal = "sweep" /\ Goto(q, "sweepIds")
  <2> DEFINE new == [req[q] EXCEPT !.pc = "sweepIds"]
  <2>1. new \in Request /\ Allowed(req[q], new)
    BY ZenonT(30), <1>2 DEF IInv, TypeOK, Request, Allowed, Quiet, WorksOnId, HoldsNothing,
                KnownIsBorn
  <2> QED BY <1>2, <2>1 DEF Advances, Goto
<1> QED BY <1>1, <1>2 DEF AfterRetry

LEMMA RetryIInv == ASSUME IInv, NEW q \in Requests, Retry(q) PROVE IInv'
<1> DEFINE old == req[q]
           r == Home[q]
           id == old.sid
<1>0. /\ old \in Request /\ StoreOK /\ r \in Replicas
      /\ old.pc = "retry" /\ id \in Ids /\ old.val \in Nat
  BY HomeAssumption DEF IInv, TypeOK, StoreOK, Retry, WorksOnId, Request
<1>1. Advances(q)
  BY AfterRetryAdvances DEF Retry
<1>2. tombs' \in [Replicas -> [Ids -> Nat \cup {None}]]
  <2>1. PICK f \in rememberTombstone(tombs[r], id, old.val) :
           tombs' = [tombs EXCEPT ![r] = f]
    BY DEF Retry
  <2>2. f \in [Ids -> Nat \cup {None}]
    BY <1>0, <2>1, TombstoneTypes DEF StoreOK
  <2> QED BY <1>0, <2>1, <2>2 DEF StoreOK
<1>3. lock' \in [Replicas -> [Ids -> Requests \cup {None}]]
  BY <1>0, LockType DEF Retry, AfterRetry, StoreOK
<1>4. StoreOK'
  BY <1>0, <1>2, <1>3 DEF Retry, StoreOK
<1>5. \A i \in Ids : table[i] = None => table'[i] = None
  BY <1>0 DEF Retry, StoreOK
<1> QED BY <1>1, <1>4, <1>5, AdvanceIInv DEF Retry, history

LEMMA RetryFailsIInv ==
    ASSUME IInv, NEW q \in Requests, RetryFails(q) PROVE IInv'
<1> DEFINE old == req[q]
           r == Home[q]
           id == old.sid
<1>0. /\ old \in Request /\ StoreOK /\ r \in Replicas
      /\ old.pc = "retry" /\ id \in Ids
  BY HomeAssumption DEF IInv, TypeOK, StoreOK, RetryFails, WorksOnId, Request
<1>1. Advances(q)
  BY AfterRetryAdvances DEF RetryFails
<1>2. pending' \in [Replicas -> [Ids -> Owed \cup {None}]]
  <2>1. CASE pending[r][id] = None
    BY <1>0, <2>1 DEF RetryFails, StoreOK
  <2>2. CASE pending[r][id] # None
    <3> DEFINE owed == [pending[r][id] EXCEPT !.lastTry = now]
    <3>0. pending[r][id] \in Owed /\ now \in Nat
      BY <1>0, <2>2 DEF StoreOK
    <3>1. owed \in Owed
      BY <3>0 DEF Owed
    <3>2. [pending[r] EXCEPT ![id] = owed] \in [Ids -> Owed \cup {None}]
      BY <1>0, <3>1 DEF StoreOK
    <3>3. pending' = [pending EXCEPT ![r] = [pending[r] EXCEPT ![id] = owed]]
      BY <2>2 DEF RetryFails
    <3> HIDE DEF owed
    <3> QED BY <1>0, <3>2, <3>3 DEF StoreOK
  <2> QED BY <2>1, <2>2
<1>3. lock' \in [Replicas -> [Ids -> Requests \cup {None}]]
  BY <1>0, LockType DEF RetryFails, AfterRetry, StoreOK
<1>4. StoreOK'
  BY <1>0, <1>2, <1>3 DEF RetryFails, StoreOK
<1>5. \A i \in Ids : table[i] = None => table'[i] = None
  BY <1>0 DEF RetryFails, StoreOK
<1> QED BY <1>1, <1>4, <1>5, AdvanceIInv DEF RetryFails, history

LEMMA ProceedIInv == ASSUME IInv, NEW q \in Requests, Proceed(q) PROVE IInv'
<1> USE DEF memory, history
<1> DEFINE old == req[q]
           r == Home[q]
           id == old.sid
<1>0. old \in Request /\ StoreOK /\ r \in Replicas
  BY HomeAssumption DEF IInv, TypeOK, StoreOK
<1>1. ASSUME old.pc \notin Quiet PROVE id \in Ids
  BY <1>1 DEF IInv, WorksOnId, Quiet
<1>2. CASE LockGet(q)
  <2>1. old.pc = "get" /\ old.pc \notin Quiet /\ id \in Ids
    BY <1>1, <1>2 DEF LockGet, Quiet
  <2>2. Advances(q)
    <3>1. CASE Goto(q, "find")
      BY <2>1, <3>1, GotoAdvances
    <3>2. CASE /\ pending[r][id] # None
               /\ req' = [req EXCEPT ![q].pc = "retry", ![q].val = pending[r][id].until]
      <4> DEFINE new == [old EXCEPT !.pc = "retry", !.val = pending[r][id].until]
      <4>1. pending[r][id].until \in Nat
        BY <1>0, <2>1, <3>2 DEF StoreOK, Owed
      <4>2. new \in Request /\ Allowed(old, new)
        BY <1>0, <2>1, <4>1
           DEF IInv, Request, Allowed, Quiet, HoldsNothing, KnownIsBorn
      <4> QED BY <3>2, <4>2 DEF Advances
    <3>3. CASE AnswerNil(q)
      BY <2>1, <3>3, AnswerNilAdvances
    <3> QED BY <1>2, <3>1, <3>2, <3>3 DEF LockGet
  <2>3. StoreOK'
    <3>1. lock' \in [Replicas -> [Ids -> Requests \cup {None}]]
      BY <1>0, <1>2, <2>1, LockType DEF LockGet, StoreOK
    <3> QED BY <1>0, <1>2, <3>1 DEF LockGet, StoreOK
  <2> QED BY <1>2, <2>2, <2>3, AdvanceIInv DEF LockGet
<1>3. CASE CheckRevoked(q)
  <2>1. old.pc = "check" /\ old.pc \notin Quiet /\ id \in Ids
    BY <1>1, <1>3 DEF CheckRevoked, Quiet
  <2>2. Advances(q)
    BY <1>3, <2>1, AnswerNilAdvances, GotoAdvances DEF CheckRevoked
  <2>3. StoreOK'
    <3>1. lock' \in [Replicas -> [Ids -> Requests \cup {None}]]
      BY <1>0, <1>3, <2>1, LockType DEF CheckRevoked, StoreOK
    <3> QED BY <1>0, <1>3, <3>1 DEF CheckRevoked, StoreOK
  <2> QED BY <1>3, <2>2, <2>3, AdvanceIInv DEF CheckRevoked
<1>4. CASE FindFails(q)
  <2>1. old.pc = "find" /\ old.pc \notin Quiet /\ id \in Ids
    BY <1>1, <1>4 DEF FindFails, Quiet
  <2>2. Advances(q)
    BY <1>4, <2>1, FinishAdvances, ReturnAdvances DEF FindFails, AnswerError
  <2>3. StoreOK'
    BY <1>0, <1>4, <2>1 DEF FindFails, Release, StoreOK
  <2> QED BY <1>4, <2>2, <2>3, AdvanceIInv DEF FindFails
<1>5. CASE FindNoRow(q)
  <2>1. old.pc = "find" /\ old.pc \notin Quiet /\ id \in Ids
    BY <1>1, <1>5 DEF FindNoRow, Quiet
  <2>2. Advances(q)
    BY <1>5, <2>1, AnswerNilAdvances DEF FindNoRow
  <2>3. StoreOK'
    BY <1>0, <1>5, <2>1 DEF FindNoRow, Release, StoreOK
  <2> QED BY <1>5, <2>2, <2>3, AdvanceIInv DEF FindNoRow
<1>6. CASE FindRow(q)
  <2>1. old.pc = "find" /\ old.pc \notin Quiet /\ id \in Ids /\ table[id] # None
    BY <1>1, <1>6 DEF FindRow, Quiet
  <2>2. table[id] \in Nat /\ id \in born
    BY <1>0, <2>1 DEF StoreOK, IInv, BornBeforeStored
  <2> DEFINE entity == IF cache[r][id] # None /\ cache[r][id].unwritten
                       THEN cache[r][id]
                       ELSE [expiry |-> table[id], unwritten |-> FALSE]
  <2>3. entity \in Entity /\ entity.expiry \in Nat
    BY <1>0, <2>1, <2>2 DEF StoreOK, Entity
  <2>4. cache' = [cache EXCEPT ![r][id] = entity]
    BY <1>6 DEF FindRow
  <2>5. \/ Goto(q, "lockDelete")
        \/ req' = [req EXCEPT ![q].pc = "held", ![q].goal = "none",
                              ![q].handle = "loaded"]
        \/ req' = [req EXCEPT ![q].pc = "lockUpdate", ![q].val = entity.expiry]
    BY <1>6 DEF FindRow
  <2> HIDE DEF entity
  <2>6. Advances(q)
    <3>1. CASE Goto(q, "lockDelete")
      BY <2>1, <3>1, GotoAdvances
    <3>2. CASE req' = [req EXCEPT ![q].pc = "held", ![q].goal = "none",
                                  ![q].handle = "loaded"]
      <4> DEFINE new == [old EXCEPT !.pc = "held", !.goal = "none",
                                    !.handle = "loaded"]
      <4>1. new \in Request /\ Allowed(old, new)
        BY <1>0, <2>1, <2>2 DEF Request, Allowed, Quiet
      <4> QED BY <3>2, <4>1 DEF Advances
    <3>3. CASE req' = [req EXCEPT ![q].pc = "lockUpdate", ![q].val = entity.expiry]
      <4> DEFINE new == [old EXCEPT !.pc = "lockUpdate", !.val = entity.expiry]
      <4>1. new \in Request /\ Allowed(old, new)
        BY <1>0, <2>1, <2>3
           DEF IInv, Request, Allowed, Quiet, HoldsNothing, KnownIsBorn
      <4> QED BY <3>3, <4>1 DEF Advances
    <3> QED BY <2>5, <3>1, <3>2, <3>3
  <2>7. StoreOK'
    <3>1. lock' \in [Replicas -> [Ids -> Requests \cup {None}]]
      BY <1>0, <1>6, <2>1, LockType DEF FindRow, StoreOK
    <3>2. cache' \in [Replicas -> [Ids -> Entity \cup {None}]]
      BY <1>0, <2>1, <2>3, <2>4, CacheType DEF StoreOK
    <3>3. now' = now /\ table' = table /\ tombs' = tombs /\ pending' = pending
      BY <1>6 DEF FindRow
    <3> QED BY <1>0, <3>1, <3>2, <3>3 DEF StoreOK
  <2> QED BY <1>6, <2>6, <2>7, AdvanceIInv DEF FindRow
<1>7. CASE LockCreate(q)
  <2>1. /\ old.pc = "lockCreate" /\ old.pc \notin Quiet /\ id \in Ids
        /\ old.handle = "minted"
    BY <1>1, <1>7 DEF LockCreate, Quiet, IInv, OnlyFreshIsInserted
  <2>2. Advances(q)
    BY <1>7, <2>1, FinishAdvances, GotoAdvances DEF LockCreate
  <2>3. StoreOK'
    <3>1. lock' \in [Replicas -> [Ids -> Requests \cup {None}]]
      BY <1>0, <1>7, <2>1, LockType DEF LockCreate, StoreOK
    <3> QED BY <1>0, <1>7, <3>1 DEF LockCreate, StoreOK
  <2> QED BY <1>7, <2>2, <2>3, AdvanceIInv DEF LockCreate
<1>8. CASE Insert(q)
  BY <1>8, InsertIInv
<1>9. CASE LockUpdate(q)
  <2>1. old.pc = "lockUpdate" /\ old.pc \notin Quiet /\ id \in Ids
    BY <1>1, <1>9 DEF LockUpdate, Quiet
  <2>2. Advances(q)
    BY <1>9, <2>1, ReturnAdvances, GotoAdvances DEF LockUpdate
  <2>3. StoreOK'
    <3>1. lock' \in [Replicas -> [Ids -> Requests \cup {None}]]
      BY <1>0, <1>9, <2>1, LockType DEF LockUpdate, StoreOK
    <3> QED BY <1>0, <1>9, <3>1 DEF LockUpdate, StoreOK
  <2> QED BY <1>9, <2>2, <2>3, AdvanceIInv DEF LockUpdate
<1>10. CASE Update(q)
  <2>1. old.pc = "update" /\ old.pc \notin Quiet /\ id \in Ids
    BY <1>1, <1>10 DEF Update, Quiet
  <2>2. Advances(q)
    BY <1>10, <2>1, ReturnAdvances DEF Update
  <2> DEFINE expiry == IF cache[r][id] = None THEN old.val ELSE cache[r][id].expiry
  <2>3. /\ expiry \in Nat
        /\ [expiry |-> expiry, unwritten |-> FALSE] \in Entity
    BY <1>0, <2>1 DEF StoreOK, Entity, Request
  <2>4. /\ \/ table[id] # None /\ table' = [table EXCEPT ![id] = expiry]
           \/ table' = table
        /\ \/ cache' = [cache EXCEPT ![r][id] = [expiry |-> expiry, unwritten |-> FALSE]]
           \/ cache' = cache
    BY <1>10 DEF Update
  <2> HIDE DEF expiry
  <2>5. StoreOK'
    <3>1. lock' \in [Replicas -> [Ids -> Requests \cup {None}]]
      BY <1>0, <1>10, <2>1, LockType DEF Update, StoreOK
    <3>2. cache' \in [Replicas -> [Ids -> Entity \cup {None}]]
      BY <1>0, <2>1, <2>3, <2>4, CacheType DEF StoreOK
    <3>3. table' \in [Ids -> Nat \cup {None}]
      BY <1>0, <2>1, <2>3, <2>4 DEF StoreOK
    <3>4. now' = now /\ tombs' = tombs /\ pending' = pending
      BY <1>10 DEF Update
    <3> QED BY <1>0, <3>1, <3>2, <3>3, <3>4 DEF StoreOK
  <2>6. \A i \in Ids : table[i] = None => table'[i] = None
    BY <1>0, <2>1, <2>4 DEF StoreOK
  <2> QED BY <1>10, <2>2, <2>5, <2>6, AdvanceIInv DEF Update
<1>11. CASE LockDelete(q)
  <2>1. old.pc = "lockDelete" /\ old.pc \notin Quiet /\ id \in Ids
    BY <1>1, <1>11 DEF LockDelete, Quiet
  <2>2. Advances(q)
    <3> DEFINE keep == revocationRetentionFor(r, id)
               new == [old EXCEPT !.pc = "delete", !.val = keep]
    <3>1. keep \in Nat
      BY <1>0, <2>1, TimesAssumption DEF StoreOK, Entity, revocationRetentionFor
    <3>2. req' = [req EXCEPT ![q] = new]
      BY <1>11 DEF LockDelete
    <3> HIDE DEF keep
    <3>3. new \in Request /\ Allowed(old, new)
      BY <1>0, <2>1, <3>1
         DEF IInv, Request, Allowed, Quiet, HoldsNothing, KnownIsBorn
    <3> QED BY <3>2, <3>3 DEF Advances
  <2>3. StoreOK'
    BY <1>0, <1>11, <2>1 DEF LockDelete, Acquire, StoreOK
  <2> QED BY <1>11, <2>2, <2>3, AdvanceIInv DEF LockDelete
<1>12. CASE Delete(q)
  BY <1>12, DeleteIInv
<1>13. CASE DeleteFails(q)
  BY <1>13, DeleteFailsIInv
<1>14. CASE Retry(q)
  BY <1>14, RetryIInv
<1>15. CASE RetryFails(q)
  BY <1>15, RetryFailsIInv
<1> QED BY <1>2, <1>3, <1>4, <1>5, <1>6, <1>7, <1>8, <1>9, <1>10, <1>11, <1>12,
           <1>13, <1>14, <1>15 DEF Proceed

-----------------------------------------------------------------------------
LEMMA SweepIInv == ASSUME IInv, NEW q \in Requests, Sweep(q) PROVE IInv'
<1> USE DEF memory, history
<1> DEFINE old == req[q]
           r == Home[q]
<1>0. old \in Request /\ StoreOK /\ r \in Replicas
  BY HomeAssumption DEF IInv, TypeOK, StoreOK
<1>1. CASE StartSweep(q)
  <2> DEFINE new == [old EXCEPT !.pc = "sweepRows", !.goal = "sweep"]
  <2>1. req' = [req EXCEPT ![q] = new] /\ old.pc = "idle"
    BY <1>1 DEF StartSweep
  <2>2. new \in Request /\ Allowed(old, new)
    BY <1>0, <2>1 DEF IInv, Request, Allowed, Quiet, HoldsNothing
  <2>3. StoreOK'
    BY <1>0, <1>1 DEF StartSweep, StoreOK
  <2> QED BY <1>1, <2>1, <2>2, <2>3, AdvanceIInv DEF StartSweep, Advances
<1>2. CASE DeleteExpired(q)
  <2> DEFINE new == [old EXCEPT !.pc = "sweepMemory"]
  <2>1. req' = [req EXCEPT ![q] = new] /\ old.pc = "sweepRows"
    BY <1>2 DEF DeleteExpired, Goto
  <2>2. new \in Request /\ Allowed(old, new)
    BY <1>0, <2>1 DEF IInv, Request, Allowed, Quiet, HoldsNothing
  <2>3. PICK gone \in SUBSET Ids :
           table' = [id \in Ids |-> IF id \in gone THEN None ELSE table[id]]
    BY <1>2 DEF DeleteExpired
  <2>4. StoreOK' /\ \A id \in Ids : table[id] = None => table'[id] = None
    BY <1>0, <1>2, <2>3 DEF DeleteExpired, StoreOK
  <2> QED BY <1>2, <2>1, <2>2, <2>4, AdvanceIInv DEF DeleteExpired, Advances
<1>3. CASE SweepMemory(q)
  <2>1. PICK ids \in SUBSET Ids :
           req' = [req EXCEPT ![q].pc = "sweepIds", ![q].todo = ids]
    BY <1>3 DEF SweepMemory, Entries
  <2> DEFINE new == [old EXCEPT !.pc = "sweepIds", !.todo = ids]
  <2>2. req' = [req EXCEPT ![q] = new] /\ old.pc = "sweepMemory"
    BY <1>3, <2>1 DEF SweepMemory
  <2>3. new \in Request /\ Allowed(old, new)
    BY <1>0, <2>2 DEF IInv, Request, Allowed, Quiet, HoldsNothing
  <2>4. cache' \in [Replicas -> [Ids -> Entity \cup {None}]]
    BY <1>0, <1>3 DEF SweepMemory, StoreOK
  <2>5. tombs' \in [Replicas -> [Ids -> Nat \cup {None}]]
    <3>1. sweepTombstones(tombs[r]) \in [Ids -> Nat \cup {None}]
      BY <1>0 DEF sweepTombstones, StoreOK
    <3> QED BY <1>0, <1>3, <3>1 DEF SweepMemory, StoreOK
  <2>6. pending' \in [Replicas -> [Ids -> Owed \cup {None}]]
    <3>1. sweepPending(pending[r]) \in [Ids -> Owed \cup {None}]
      BY <1>0 DEF sweepPending, StoreOK
    <3> QED BY <1>0, <1>3, <3>1 DEF SweepMemory, StoreOK
  <2>7. StoreOK'
    BY <1>0, <1>3, <2>4, <2>5, <2>6 DEF SweepMemory, StoreOK
  <2> QED BY <1>3, <2>2, <2>3, <2>7, AdvanceIInv DEF SweepMemory, Advances
<1>4. ASSUME NEW id \in Ids, SweepRetry(q, id) PROVE IInv'
  <2> DEFINE until == pending[r][id].until
             new == [old EXCEPT !.pc = "retry", !.sid = id, !.val = until,
                                !.todo = old.todo \ {id}]
  <2>1. req' = [req EXCEPT ![q] = new] /\ old.pc = "sweepIds" /\ pending[r][id] # None
    BY <1>4 DEF SweepRetry
  <2>2. until \in Nat
    BY <1>0, <2>1 DEF StoreOK, Owed
  <2>3. /\ old.goal = "sweep" /\ old.handle = "none"
    BY <2>1 DEF IInv, HoldsNothing
  <2> HIDE DEF until
  <2>4. new \in Request /\ Allowed(old, new)
    BY <1>0, <2>2, <2>3 DEF Request, Allowed, Quiet
  <2>5. StoreOK'
    <3>1. lock' \in [Replicas -> [Ids -> Requests \cup {None}]]
      BY <1>0, <1>4, LockType DEF SweepRetry, StoreOK
    <3> QED BY <1>0, <1>4, <3>1 DEF SweepRetry, StoreOK
  <2> QED BY <1>4, <2>1, <2>4, <2>5, AdvanceIInv DEF SweepRetry, Advances
<1>5. ASSUME NEW id \in Ids, SweepSkip(q, id) PROVE IInv'
  <2> DEFINE new == [old EXCEPT !.todo = old.todo \ {id}]
  <2>1. req' = [req EXCEPT ![q] = new] /\ old.pc = "sweepIds"
    BY <1>5 DEF SweepSkip
  <2>2. new \in Request /\ Allowed(old, new)
    BY <1>0, <2>1 DEF IInv, Request, Allowed, Quiet, HoldsNothing, KnownIsBorn
  <2>3. StoreOK'
    BY <1>0, <1>5 DEF SweepSkip, StoreOK
  <2> QED BY <1>5, <2>1, <2>2, <2>3, AdvanceIInv DEF SweepSkip, Advances
<1>6. CASE EndSweep(q)
  <2>1. StoreOK'
    BY <1>0, <1>6 DEF EndSweep, StoreOK
  <2> QED BY <1>6, <2>1, FinishAdvances, AdvanceIInv DEF EndSweep
<1> QED BY <1>1, <1>2, <1>3, <1>4, <1>5, <1>6 DEF Sweep

LEMMA TickIInv == ASSUME IInv, Tick PROVE IInv'
BY DEF Tick, IInv, TypeOK, WorksOnId, HoldsNothing, FreshIsUnborn,
       OnlyFreshIsInserted, KnownIsBorn, BornBeforeStored, RevocationIsFinal,
       memory, history

\* A replica that restarts forgets; the ids it minted stay minted.
LEMMA RestartIInv == ASSUME IInv, NEW r \in Replicas, Restart(r) PROVE IInv'
<1>1. \A q \in Requests :
         req'[q] = IF Home[q] = r THEN Idle ELSE req[q]
  BY DEF Restart
<1>2. /\ Idle \in Request /\ Idle.pc = "idle" /\ Idle.goal = "none"
      /\ Idle.handle = "none"
  BY DEF Request, Idle
<1>3. /\ minted' = minted /\ born' = born /\ acked' = acked
      /\ table' = table /\ now' = now
  BY DEF Restart, history
<1>4. TypeOK'
  <2>1. req' \in [Requests -> Request]
    BY <1>2 DEF Restart, IInv, TypeOK
  <2>2. [id \in Ids |-> None] \in [Ids -> {None}]
    OBVIOUS
  <2>3. cache' \in [Replicas -> [Ids -> Entity \cup {None}]]
    BY DEF Restart, IInv, TypeOK
  <2>4. tombs' \in [Replicas -> [Ids -> Nat \cup {None}]]
    BY DEF Restart, IInv, TypeOK
  <2>5. pending' \in [Replicas -> [Ids -> Owed \cup {None}]]
    BY DEF Restart, IInv, TypeOK
  <2>6. lock' \in [Replicas -> [Ids -> Requests \cup {None}]]
    BY DEF Restart, IInv, TypeOK
  <2> QED BY <1>3, <2>1, <2>3, <2>4, <2>5, <2>6 DEF IInv, TypeOK
<1>5. WorksOnId' /\ HoldsNothing' /\ OnlyFreshIsInserted'
  BY <1>1, <1>2 DEF IInv, WorksOnId, HoldsNothing, OnlyFreshIsInserted
<1>6. FreshIsUnborn'
  BY <1>1, <1>2, <1>3 DEF IInv, FreshIsUnborn
<1>7. KnownIsBorn'
  BY <1>1, <1>2, <1>3 DEF IInv, KnownIsBorn
<1>8. BornBeforeStored' /\ RevocationIsFinal'
  BY <1>3 DEF IInv, BornBeforeStored, RevocationIsFinal
<1> QED BY <1>4, <1>5, <1>6, <1>7, <1>8 DEF IInv

LEMMA NextIInv == IInv /\ [Next]_vars => IInv'
<1> SUFFICES ASSUME IInv, [Next]_vars PROVE IInv'
  OBVIOUS
<1>1. CASE UNCHANGED vars
  BY <1>1 DEF vars, memory, history, IInv, TypeOK, WorksOnId, HoldsNothing,
              FreshIsUnborn, OnlyFreshIsInserted, KnownIsBorn, BornBeforeStored,
              RevocationIsFinal
<1>2. CASE Next
  BY <1>2, BeginIInv, ProceedIInv, SweepIInv, TickIInv, RestartIInv DEF Next
<1> QED BY <1>1, <1>2

-----------------------------------------------------------------------------
(* The refinement.  A step of the detailed specification ends some rows, or *)
(* stores one under an id that never had one, or reports a revocation.      *)

LEMMA InitRefines == Init => Authority!Init
BY DEF Init, Authority!Init, Status

LEMMA StatusType == IInv => Status \in [Ids -> {"unborn", "live", "ended"}]
BY DEF Status

\* A step that stores nothing and reports nothing ends what has lost its row.
LEMMA EndsOrStutters ==
    ASSUME IInv, IInv', born' = born, acked' = acked,
           \A id \in Ids : table[id] = None => table'[id] = None
    PROVE  [Authority!Next]_<<Status, acked>>
<1> DEFINE gone == {id \in Ids : table[id] # None /\ table'[id] = None}
<1>1. gone \in SUBSET Ids /\ \A id \in gone : Status[id] = "live"
  BY DEF Status
<1>2. Status' = [id \in Ids |-> IF id \in gone THEN "ended" ELSE Status[id]]
  BY DEF Status, IInv, BornBeforeStored
<1>3. Authority!End(gone)
  BY <1>1, <1>2 DEF Authority!End
<1> QED BY <1>1, <1>3 DEF Authority!Next

LEMMA RevokeRefines ==
    ASSUME IInv, NEW q \in Requests, Delete(q)
    PROVE  Authority!Revoke(req[q].sid) \/ acked' = acked
<1> DEFINE id == req[q].sid
<1>1. CASE req[q].goal = "revoke"
  <2>1. id \in Ids /\ id \in born
    BY <1>1 DEF Delete, IInv, WorksOnId, KnownIsBorn
  <2>2. table' = [table EXCEPT ![id] = None] /\ born' = born /\ table \in [Ids -> Nat \cup {None}]
    BY DEF Delete, IInv, TypeOK
  <2>3. Status[id] \in {"live", "ended"}
    BY <2>1 DEF Status
  <2>4. Status' = [Status EXCEPT ![id] = "ended"]
    BY <2>1, <2>2 DEF Status
  <2>5. acked' = acked \cup {id}
    BY <1>1 DEF Delete
  <2> QED BY <2>3, <2>4, <2>5 DEF Authority!Revoke
<1>2. CASE req[q].goal # "revoke"
  BY <1>2 DEF Delete
<1> QED BY <1>1, <1>2

LEMMA OpenRefines ==
    ASSUME IInv, NEW q \in Requests, Insert(q)
    PROVE  Authority!Open(req[q].sid) \/ (table' = table /\ born' = born)
<1> DEFINE id == req[q].sid
<1>1. /\ id \in Ids /\ id \notin born /\ table \in [Ids -> Nat \cup {None}]
      /\ now + Lifetime \in Nat /\ acked' = acked
  BY TimesAssumption
     DEF Insert, IInv, TypeOK, WorksOnId, OnlyFreshIsInserted, FreshIsUnborn
<1>2. CASE /\ table[id] = None
           /\ table' = [table EXCEPT ![id] = now + Lifetime]
           /\ born' = born \cup {id}
  <2>1. Status[id] = "unborn"
    BY <1>1, <1>2 DEF Status
  <2>2. Status' = [Status EXCEPT ![id] = "live"]
    <3>1. table'[id] # None
      BY <1>1, <1>2, NoneAssumption
    <3>2. \A i \in Ids \ {id} : table'[i] = table[i] /\ (i \in born' <=> i \in born)
      BY <1>1, <1>2
    <3> QED BY <3>1, <3>2 DEF Status
  <2> QED BY <1>1, <2>1, <2>2 DEF Authority!Open
<1> QED BY <1>2 DEF Insert

LEMMA RequestRefines ==
    ASSUME IInv, IInv', NEW q \in Requests, Begin(q) \/ Proceed(q) \/ Sweep(q)
    PROVE  [Authority!Next]_<<Status, acked>>
<1> USE DEF memory, history
<1>1. CASE Insert(q)
  <2>1. req[q].sid \in Ids
    BY <1>1 DEF Insert, IInv, WorksOnId
  <2>2. acked' = acked
    BY <1>1 DEF Insert
  <2>3. CASE table' = table /\ born' = born
    BY <2>2, <2>3, EndsOrStutters
  <2> QED BY <1>1, <2>1, <2>3, OpenRefines DEF Authority!Next
<1>2. CASE Delete(q)
  <2>1. req[q].sid \in Ids
    BY <1>2 DEF Delete, IInv, WorksOnId
  <2>2. born' = born /\ \A id \in Ids : table[id] = None => table'[id] = None
    BY <1>2, <2>1 DEF Delete, IInv, TypeOK
  <2>3. CASE acked' = acked
    BY <2>2, <2>3, EndsOrStutters
  <2> QED BY <1>2, <2>1, <2>3, RevokeRefines DEF Authority!Next
<1>3. CASE ~ Insert(q) /\ ~ Delete(q)
  <2>1. born' = born /\ acked' = acked
    <3>1. CASE Begin(q)
      BY <3>1 DEF Begin, Mint, Lookup, RevokePresented, AddSession, SetExpiry,
                  RevokeHeld, EndRequest
    <3>2. CASE Proceed(q)
      BY <1>3, <3>2
         DEF Proceed, LockGet, CheckRevoked, FindFails, FindNoRow, FindRow,
             LockCreate, LockUpdate, Update, LockDelete, DeleteFails, Retry,
             RetryFails
    <3>3. CASE Sweep(q)
      BY <3>3 DEF Sweep, StartSweep, DeleteExpired, SweepMemory, SweepRetry,
                  SweepSkip, EndSweep
    <3> QED BY <3>1, <3>2, <3>3
  <2>2. \A id \in Ids : table[id] = None => table'[id] = None
    <3>1. CASE Begin(q)
      BY <3>1 DEF Begin, Mint, Lookup, RevokePresented, AddSession, SetExpiry,
                  RevokeHeld, EndRequest
    <3>2. CASE Update(q) \/ DeleteFails(q) \/ Retry(q) \/ RetryFails(q)
      <4>1. req[q].sid \in Ids
        BY <3>2 DEF Update, DeleteFails, Retry, RetryFails, IInv, WorksOnId
      <4>2. table \in [Ids -> Nat \cup {None}]
        BY DEF IInv, TypeOK
      <4>3. \/ table' = table
            \/ table' = [table EXCEPT ![req[q].sid] = None]
            \/ /\ table[req[q].sid] # None
               /\ \E t \in Nat : table' = [table EXCEPT ![req[q].sid] = t]
        <5>1. CASE Update(q)
          <6>1. \A r \in Replicas : cache[r][req[q].sid] # None
                   => cache[r][req[q].sid].expiry \in Nat
            BY <4>1 DEF IInv, TypeOK, Entity
          <6>2. req[q].val \in Nat /\ Home[q] \in Replicas
            BY HomeAssumption DEF IInv, TypeOK, Request
          <6> QED BY <5>1, <6>1, <6>2 DEF Update
        <5> QED BY <3>2, <5>1 DEF DeleteFails, Retry, RetryFails
      <4> QED BY <4>1, <4>2, <4>3
    <3>3. CASE Proceed(q) /\ ~ (Update(q) \/ DeleteFails(q) \/ Retry(q) \/ RetryFails(q))
      BY <1>3, <3>3
         DEF Proceed, LockGet, CheckRevoked, FindFails, FindNoRow, FindRow,
             LockCreate, LockUpdate, LockDelete
    <3>4. CASE Sweep(q)
      BY <3>4 DEF Sweep, StartSweep, DeleteExpired, SweepMemory, SweepRetry,
                  SweepSkip, EndSweep
    <3> QED BY <3>1, <3>2, <3>3, <3>4
  <2> QED BY <2>1, <2>2, EndsOrStutters
<1> QED BY <1>1, <1>2, <1>3

LEMMA NextRefines == IInv /\ IInv' /\ [Next]_vars => [Authority!Next]_<<Status, acked>>
<1> SUFFICES ASSUME IInv, IInv', [Next]_vars
             PROVE  [Authority!Next]_<<Status, acked>>
  OBVIOUS
<1>1. CASE UNCHANGED vars \/ Tick \/ \E r \in Replicas : Restart(r)
  <2>1. table' = table /\ born' = born /\ acked' = acked
    BY <1>1 DEF vars, memory, history, Tick, Restart
  <2> QED BY <2>1, EndsOrStutters
<1>2. CASE \E q \in Requests : Begin(q) \/ Proceed(q) \/ Sweep(q)
  BY <1>2, RequestRefines
<1> QED BY <1>1, <1>2 DEF Next

-----------------------------------------------------------------------------
\* Everything the replicas and the table hold has its type, and stays within
\* the inductive invariant, whatever fails, restarts or interleaves.
THEOREM Inductive == Spec => []IInv
BY InitIInv, NextIInv, PTL DEF Spec

\* The types of the mediator's maps and of the requests' program counters.
THEOREM TypeCorrect == Spec => []TypeOK
<1>1. IInv => TypeOK
  BY DEF IInv
<1> QED BY <1>1, Inductive, PTL

\* A revocation that DeleteSession reported as done is final: no replica,
\* whatever it had read before, brings the row back.
THEOREM RevocationFinal == Spec => []RevocationIsFinal
<1>1. IInv => RevocationIsFinal
  BY DEF IInv
<1> QED BY <1>1, Inductive, PTL

\* All replicas together implement the life of an identifier: born once, ended
\* once, over when its revocation was reported (core.ISessionStorage).
THEOREM Refinement == Spec => ImplementsAuthority
<1>1. Init => Authority!Init
  BY InitRefines
<1>2. IInv /\ IInv' /\ [Next]_vars => [Authority!Next]_<<Status, acked>>
  BY NextRefines
<1> QED BY <1>1, <1>2, Inductive, PTL DEF Spec, ImplementsAuthority, Authority!Spec

-----------------------------------------------------------------------------
(* Who was given a session, and what a replica caches.  A request inside a  *)
(* critical section of an id holds that id's lock; it passed isRevoked      *)
(* under it; so no other request of the replica can record a revocation     *)
(* before it puts the session in the cache.                                 *)

\* The places a request reaches with the lock of its id and leaves it at.
Locked == {"retry", "check", "find", "insert", "update", "delete"}

HoldsItsLock ==
    \A q \in Requests : req[q].pc \in Locked => lock[Home[q]][req[q].sid] = q

PassedTheCheck ==
    \A q \in Requests :
        req[q].pc \in {"find", "insert", "update"} => ~ isRevoked(Home[q], req[q].sid)

\* A retry that will leave a tombstone behind has nothing cached to hide.
RetryIsUncached ==
    \A q \in Requests :
        req[q].pc = "retry" /\ req[q].val > now => cache[Home[q]][req[q].sid] = None

SeenIsAcked == \A q \in Requests : req[q].seen \subseteq acked

ServedIInv ==
    /\ SeenIsAcked
    /\ HoldsItsLock
    /\ PassedTheCheck
    /\ RetryIsUncached
    /\ NotServedAfterRevocation

LEMMA InitServed == Init => ServedIInv
BY HomeAssumption, NoneAssumption
   DEF Init, ServedIInv, SeenIsAcked, HoldsItsLock, PassedTheCheck, RetryIsUncached,
       NotServedAfterRevocation, isRevoked, RevocationPending, Locked, Nothing, Idle

\* What a step of q leaves to everybody else: locks it did not hold, and new
\* revocations and cached sessions only under a lock that it holds.
Confined(q) ==
    /\ now' = now /\ acked \subseteq acked'
    /\ \A p \in Requests \ {q} : req'[p] = req[p]
    /\ \A r \in Replicas, id \in Ids :
         \/ lock'[r][id] = lock[r][id]
         \/ r = Home[q] /\ (lock[r][id] = None \/ lock[r][id] = q)
    /\ \A r \in Replicas, id \in Ids :
         \/ r = Home[q] /\ lock[r][id] = q
         \/ /\ isRevoked(r, id)' => isRevoked(r, id)
            /\ cache[r][id] = None => cache'[r][id] = None

\* What q itself is left with.
Sound(q) ==
    /\ req'[q].seen \subseteq acked'
    /\ req'[q].handle = "loaded" => req'[q].sid \notin req'[q].seen
    /\ req'[q].pc \in Locked => lock'[Home[q]][req'[q].sid] = q
    /\ req'[q].pc \in {"find", "insert", "update"} => ~ isRevoked(Home[q], req[q].sid)'
    /\ req'[q].pc = "retry" /\ req'[q].val > now
       => cache'[Home[q]][req'[q].sid] = None
    /\ \A id \in Ids : lock[Home[q]][id] = q
         => (isRevoked(Home[q], id)' => cache'[Home[q]][id] = None)

LEMMA ConfinedServed ==
    ASSUME IInv, IInv', ServedIInv, NEW q \in Requests, Confined(q), Sound(q)
    PROVE  ServedIInv'
<1>0. /\ Home \in [Requests -> Replicas] /\ None \notin Requests
      /\ \A p \in Requests : req[p].pc \in Locked => req[p].sid \in Ids
      /\ \A p \in Requests : req'[p].pc \in Locked => req'[p].sid \in Ids
  BY HomeAssumption, NoneAssumption DEF IInv, WorksOnId, Locked
<1>1. SeenIsAcked'
  BY DEF ServedIInv, SeenIsAcked, Confined, Sound
<1>2. HoldsItsLock'
  <2> SUFFICES ASSUME NEW p \in Requests, req'[p].pc \in Locked
               PROVE  lock'[Home[p]][req'[p].sid] = p
    BY DEF HoldsItsLock
  <2>1. CASE p = q
    BY <2>1 DEF Sound
  <2>2. CASE p # q
    <3>1. req'[p] = req[p] /\ lock[Home[p]][req[p].sid] = p
      BY <2>2 DEF Confined, ServedIInv, HoldsItsLock
    <3> QED BY <1>0, <2>2, <3>1 DEF Confined
  <2> QED BY <2>1, <2>2
<1>3. \A p \in Requests \ {q} :
         req[p].pc \in Locked =>
           /\ req'[p] = req[p]
           /\ isRevoked(Home[p], req[p].sid)' => isRevoked(Home[p], req[p].sid)
           /\ cache[Home[p]][req[p].sid] = None => cache'[Home[p]][req[p].sid] = None
  BY <1>0 DEF Confined, ServedIInv, HoldsItsLock
<1>4. PassedTheCheck'
  <2> SUFFICES ASSUME NEW p \in Requests, req'[p].pc \in {"find", "insert", "update"},
                      isRevoked(Home[p], req[p].sid)'
               PROVE  FALSE
    BY DEF PassedTheCheck
  <2>1. p # q
    BY DEF Sound
  <2>2. req'[p] = req[p]
    BY <2>1 DEF Confined
  <2>3. isRevoked(Home[p], req[p].sid)
    BY <1>3, <2>1, <2>2 DEF Locked, isRevoked, RevocationPending
  <2> QED BY <2>2, <2>3 DEF ServedIInv, PassedTheCheck
<1>5. RetryIsUncached'
  <2> SUFFICES ASSUME NEW p \in Requests, req'[p].pc = "retry", req'[p].val > now'
               PROVE  cache'[Home[p]][req'[p].sid] = None
    BY DEF RetryIsUncached
  <2>1. CASE p = q
    BY <2>1 DEF Sound, Confined
  <2>2. CASE p # q
    BY <1>3, <2>2 DEF Confined, ServedIInv, RetryIsUncached, Locked
  <2> QED BY <2>1, <2>2
<1>6. NotServedAfterRevocation'
  <2>1. ASSUME NEW p \in Requests, req'[p].handle = "loaded"
        PROVE  req'[p].sid \notin req'[p].seen
    BY <2>1 DEF Sound, Confined, ServedIInv, NotServedAfterRevocation
  <2>2. ASSUME NEW r \in Replicas, NEW id \in Ids, isRevoked(r, id)'
        PROVE  cache'[r][id] = None
    BY <2>2 DEF Sound, Confined, ServedIInv, NotServedAfterRevocation
  <2> QED BY <2>1, <2>2 DEF NotServedAfterRevocation
<1> QED BY <1>1, <1>2, <1>4, <1>5, <1>6 DEF ServedIInv

-----------------------------------------------------------------------------
(* Steps that leave the memory of the replicas alone.                       *)

LEMMA MemoryKept ==
    ASSUME IInv, IInv', ServedIInv, NEW q \in Requests,
           UNCHANGED <<now, memory, acked>>,
           NEW new, req' = [req EXCEPT ![q] = new], NEW id \in Ids,
           \/ lock' = lock
           \/ Acquire(q, id)
           \/ Release(q) /\ id = req[q].sid /\ lock[Home[q]][id] = q,
           new.seen \subseteq acked,
           new.handle = "loaded" => new.sid \notin new.seen,
           new.pc \in Locked => /\ new.sid = id
                                /\ \/ lock' = lock /\ lock[Home[q]][id] = q
                                   \/ Acquire(q, id),
           new.pc \in {"find", "insert", "update"} => ~ isRevoked(Home[q], id),
           new.pc = "retry" /\ new.val > now => cache[Home[q]][id] = None
    PROVE  ServedIInv'
<1>0. /\ Home[q] \in Replicas
      /\ lock \in [Replicas -> [Ids -> Requests \cup {None}]]
      /\ req'[q] = new /\ \A p \in Requests \ {q} : req'[p] = req[p]
  BY HomeAssumption DEF IInv, TypeOK
<1>1. /\ \A r \in Replicas, i \in Ids :
           \/ lock'[r][i] = lock[r][i]
           \/ r = Home[q] /\ (lock[r][i] = None \/ lock[r][i] = q)
      /\ new.pc \in Locked => lock'[Home[q]][id] = q
  <2>1. CASE Acquire(q, id)
    BY <1>0, <2>1 DEF Acquire
  <2>2. CASE Release(q) /\ id = req[q].sid /\ lock[Home[q]][id] = q
    <3>1. lock' = [lock EXCEPT ![Home[q]][id] = None]
      BY <2>2 DEF Release
    <3>2. new.pc \in Locked => lock'[Home[q]][id] = q
      BY <1>0, <3>1 DEF Acquire
    <3> QED BY <1>0, <2>2, <3>1, <3>2
  <2> QED BY <2>1, <2>2
<1>2. \A r \in Replicas, i \in Ids :
         isRevoked(r, i)' = isRevoked(r, i) /\ cache'[r][i] = cache[r][i]
  BY DEF isRevoked, RevocationPending, memory
<1>3. Confined(q)
  BY <1>0, <1>1, <1>2 DEF Confined
<1>4. isRevoked(Home[q], req[q].sid)' = isRevoked(Home[q], new.sid)
  BY <1>0 DEF isRevoked, RevocationPending, memory
<1>5. Sound(q)
  BY <1>0, <1>1, <1>2, <1>4 DEF Sound, ServedIInv, NotServedAfterRevocation, Locked, memory
<1> QED BY <1>3, <1>5, ConfinedServed

\* The operation of q is over, or on its way to the next lock.
Done(q) ==
    \E new :
      /\ req' = [req EXCEPT ![q] = new]
      /\ new.seen \subseteq req[q].seen /\ new.pc \notin Locked
      /\ new.handle = "loaded" => req[q].handle = "loaded" /\ new.sid = req[q].sid

LEMMA GotoDone ==
    ASSUME IInv, NEW q \in Requests, NEW p, p \notin Locked, Goto(q, p)
    PROVE  Done(q)
<1> DEFINE new == [req[q] EXCEPT !.pc = p]
<1>1. /\ new.pc = p /\ new.seen = req[q].seen /\ new.handle = req[q].handle
      /\ new.sid = req[q].sid
  BY RecordFacts DEF Request
<1>2. req' = [req EXCEPT ![q] = new]
  BY DEF Goto
<1> HIDE DEF new
<1> QED BY <1>1, <1>2 DEF Done

LEMMA ReturnDone ==
    ASSUME IInv, NEW q \in Requests, Return(q) PROVE Done(q)
<1> DEFINE new == [req[q] EXCEPT !.pc = "held", !.goal = "none", !.val = 0]
<1>1. /\ new.pc = "held" /\ new.seen = req[q].seen /\ new.handle = req[q].handle
      /\ new.sid = req[q].sid
  BY RecordFacts DEF Request
<1>2. req' = [req EXCEPT ![q] = new]
  BY DEF Return
<1> HIDE DEF new
<1> QED BY <1>1, <1>2 DEF Done, Locked

LEMMA FinishDone ==
    ASSUME NEW q \in Requests, Finish(q) PROVE Done(q)
<1>1. Idle.seen = {} /\ Idle.pc \notin Locked /\ Idle.handle = "none"
  BY DEF Idle, Locked
<1> QED BY <1>1 DEF Finish, Done

LEMMA AnswerDone ==
    ASSUME IInv, NEW q \in Requests, AnswerNil(q) \/ AnswerError(q) \/ AfterDelete(q)
    PROVE  Done(q)
<1>1. "lockCreate" \notin Locked
  BY DEF Locked
<1> QED BY <1>1, GotoDone, ReturnDone, FinishDone DEF AnswerNil, AnswerError, AfterDelete

LEMMA DoneSound ==
    ASSUME IInv, ServedIInv, NEW q \in Requests, Done(q), acked \subseteq acked',
           \A id \in Ids : lock[Home[q]][id] = q
             => (isRevoked(Home[q], id)' => cache'[Home[q]][id] = None)
    PROVE  Sound(q)
<1>1. PICK new :
        /\ req' = [req EXCEPT ![q] = new]
        /\ new.seen \subseteq req[q].seen /\ new.pc \notin Locked
        /\ new.handle = "loaded" => req[q].handle = "loaded" /\ new.sid = req[q].sid
  BY DEF Done
<1>2. req'[q] = new
  BY <1>1 DEF IInv, TypeOK
<1> QED BY <1>1, <1>2 DEF Sound, ServedIInv, SeenIsAcked, NotServedAfterRevocation, Locked

LEMMA DoneServed ==
    ASSUME IInv, IInv', ServedIInv, NEW q \in Requests, Done(q),
           UNCHANGED <<now, memory, acked>>,
           lock' = lock \/ (req[q].pc \in Locked /\ Release(q))
    PROVE  ServedIInv'
<1>1. PICK new :
        /\ req' = [req EXCEPT ![q] = new]
        /\ new.seen \subseteq req[q].seen /\ new.pc \notin Locked
        /\ new.handle = "loaded" => req[q].handle = "loaded" /\ new.sid = req[q].sid
  BY DEF Done
<1>2. /\ new.seen \subseteq acked
      /\ new.handle = "loaded" => new.sid \notin new.seen
  BY <1>1 DEF ServedIInv, SeenIsAcked, NotServedAfterRevocation
<1>3. new.pc \notin {"find", "insert", "update", "retry"}
  BY <1>1 DEF Locked
<1>4. ASSUME NEW id \in Ids PROVE Home[q] \in Replicas
  BY HomeAssumption
<1>5. CASE req[q].pc \in Locked /\ Release(q)
  <2>1. req[q].sid \in Ids /\ lock[Home[q]][req[q].sid] = q
    BY <1>5, RecordFacts DEF ServedIInv, HoldsItsLock, Locked, Quiet
  <2> QED BY <1>1, <1>2, <1>3, <1>5, <2>1, MemoryKept
<1>6. CASE lock' = lock
  <2>1. Confined(q)
    BY <1>1, <1>6 DEF Confined, IInv, TypeOK, isRevoked, RevocationPending, memory
  <2>2. Sound(q)
    <3>1. \A id \in Ids : lock[Home[q]][id] = q
             => (isRevoked(Home[q], id)' => cache'[Home[q]][id] = None)
      BY HomeAssumption
         DEF ServedIInv, NotServedAfterRevocation, isRevoked, RevocationPending, memory
    <3> QED BY <3>1, DoneSound
  <2> QED BY <2>1, <2>2, ConfinedServed
<1> QED BY <1>5, <1>6

-----------------------------------------------------------------------------
(* The actions.                                                             *)

LEMMA BeginServed ==
    ASSUME IInv, IInv', ServedIInv, NEW q \in Requests, Begin(q) PROVE ServedIInv'
<1> USE DEF memory, history
<1> DEFINE old == req[q]
           r == Home[q]
<1>0. old \in Request /\ r \in Replicas /\ old.seen \subseteq acked
  BY HomeAssumption DEF IInv, TypeOK, ServedIInv, SeenIsAcked
<1>1. ASSUME NEW id \in Ids, Mint(q, id) PROVE ServedIInv'
  <2> DEFINE new == [old EXCEPT !.pc = "held", !.handle = "minted", !.sid = id]
  <2>1. req' = [req EXCEPT ![q] = new] /\ lock' = lock /\ UNCHANGED <<now, memory, acked>>
    BY <1>1 DEF Mint
  <2>2. new.seen = old.seen /\ new.handle = "minted" /\ new.pc = "held"
    BY <1>0 DEF Request
  <2> HIDE DEF new
  <2>3. new.pc \notin Locked /\ new.pc \notin {"find", "insert", "update", "retry"}
    BY <2>2 DEF Locked
  <2> QED BY <1>0, <2>1, <2>2, <2>3, MemoryKept
<1>2. ASSUME NEW id \in Ids, Lookup(q, id) PROVE ServedIInv'
  <2> DEFINE new == [old EXCEPT !.pc = "get", !.goal = "lookup", !.sid = id, !.seen = acked]
  <2>1. req' = [req EXCEPT ![q] = new] /\ lock' = lock /\ UNCHANGED <<now, memory, acked>>
    BY <1>2 DEF Lookup
  <2>2. old.handle = "none"
    BY <1>2 DEF Lookup, IInv, HoldsNothing
  <2>3. new.seen = acked /\ new.handle = "none" /\ new.pc = "get"
    BY <1>0, <2>2 DEF Request
  <2> HIDE DEF new
  <2>4. new.pc \notin Locked /\ new.pc \notin {"find", "insert", "update", "retry"}
    BY <2>3 DEF Locked
  <2> QED BY <1>0, <2>1, <2>3, <2>4, MemoryKept
<1>3. ASSUME NEW id \in Ids, RevokePresented(q, id) PROVE ServedIInv'
  <2> DEFINE new == [old EXCEPT !.pc = "lockDelete", !.goal = "revoke", !.sid = id]
  <2>1. req' = [req EXCEPT ![q] = new] /\ lock' = lock /\ UNCHANGED <<now, memory, acked>>
    BY <1>3 DEF RevokePresented
  <2>2. old.handle = "none"
    BY <1>3 DEF RevokePresented, IInv, HoldsNothing
  <2>3. new.seen = old.seen /\ new.handle = "none" /\ new.pc = "lockDelete"
    BY <1>0, <2>2 DEF Request
  <2> HIDE DEF new
  <2>4. new.pc \notin Locked /\ new.pc \notin {"find", "insert", "update", "retry"}
    BY <2>3 DEF Locked
  <2> QED BY <1>0, <2>1, <2>3, <2>4, MemoryKept
<1>4. CASE AddSession(q)
  <2> DEFINE new == [old EXCEPT !.pc = "get", !.goal = "add"]
  <2>1. /\ req' = [req EXCEPT ![q] = new]
        /\ lock' = lock /\ UNCHANGED <<now, memory, acked>>
    BY <1>4 DEF AddSession
  <2>2. /\ new.seen = old.seen /\ new.handle = old.handle /\ new.pc = "get"
        /\ new.sid = old.sid
    BY <1>0 DEF Request
  <2> HIDE DEF new
  <2>3. Done(q)
    BY <2>1, <2>2 DEF Done, Locked
  <2> QED BY <2>1, <2>3, DoneServed
<1>5. CASE SetExpiry(q)
  <2> DEFINE new == [old EXCEPT !.pc = "lockUpdate", !.goal = "touch",
                                !.val = now + Lifetime]
             entity == [expiry |-> now + Lifetime, unwritten |-> TRUE]
             id == old.sid
  <2>1. /\ req' = [req EXCEPT ![q] = new] /\ lock' = lock
        /\ UNCHANGED <<now, tombs, pending, acked>>
        /\ cache' = IF cache[r][id] = None THEN cache ELSE [cache EXCEPT ![r][id] = entity]
    BY <1>5 DEF SetExpiry
  <2>2. /\ new.seen = old.seen /\ new.handle = old.handle /\ new.pc = "lockUpdate"
        /\ new.sid = old.sid
    BY <1>0 DEF Request
  <2> HIDE DEF new, entity
  <2>3. Done(q)
    BY <2>1, <2>2 DEF Done, Locked
  <2>4. \A s \in Replicas, i \in Ids : isRevoked(s, i)' = isRevoked(s, i)
    BY <2>1 DEF isRevoked, RevocationPending
  <2>5. \A s \in Replicas, i \in Ids : cache[s][i] = None => cache'[s][i] = None
    BY <2>1 DEF IInv, TypeOK
  <2>6. Confined(q)
    BY <2>1, <2>4, <2>5 DEF Confined, IInv, TypeOK
  <2>7. Sound(q)
    BY <1>0, <2>1, <2>3, <2>4, <2>5, DoneSound DEF ServedIInv, NotServedAfterRevocation
  <2> QED BY <2>6, <2>7, ConfinedServed
<1>6. CASE RevokeHeld(q)
  <2> DEFINE new == [Idle EXCEPT !.pc = "lockDelete", !.goal = "revoke", !.sid = old.sid]
  <2>1. /\ req' = [req EXCEPT ![q] = new]
        /\ lock' = lock /\ UNCHANGED <<now, memory, acked>>
    BY <1>6 DEF RevokeHeld
  <2>2. new.seen = {} /\ new.handle = "none" /\ new.pc = "lockDelete"
    BY DEF Idle
  <2> HIDE DEF new
  <2>3. Done(q)
    BY <2>1, <2>2 DEF Done, Locked
  <2> QED BY <2>1, <2>3, DoneServed
<1>7. CASE EndRequest(q)
  BY <1>7, FinishDone, DoneServed DEF EndRequest
<1> QED BY <1>1, <1>2, <1>3, <1>4, <1>5, <1>6, <1>7 DEF Begin

-----------------------------------------------------------------------------
(* Steps that change the memory of their replica.                           *)

LEMMA TombstonesShrink ==
    ASSUME NEW f \in [Ids -> Nat \cup {None}], NEW id \in Ids, NEW until \in Nat
    PROVE  /\ \A i \in Ids : sweepTombstones(f)[i] \in {None, f[i]}
           /\ \A g \in rememberTombstone(f, id, until) :
                \A i \in Ids \ {id} : g[i] \in {None, f[i]}
<1>1. \A g \in evictOldest(f) :
         g \in [Ids -> Nat \cup {None}] /\ \A i \in Ids : g[i] \in {None, f[i]}
  BY DEF evictOldest, Entries
<1> QED BY <1>1 DEF sweepTombstones, rememberTombstone

LEMMA PendingShrink ==
    ASSUME NEW f \in [Ids -> Owed \cup {None}], NEW id \in Ids, NEW until \in Nat
    PROVE  /\ \A i \in Ids : sweepPending(f)[i] \in {None, f[i]}
           /\ \A g \in rememberPending(f, id, until) :
                \A i \in Ids \ {id} : g[i] \in {None, f[i]}
<1>1. \A g \in evictSoonestPending(f) :
         g \in [Ids -> Owed \cup {None}] /\ \A i \in Ids : g[i] \in {None, f[i]}
  BY DEF evictSoonestPending, Entries
<1>2. ASSUME NEW g \in rememberPending(f, id, until), NEW i \in Ids \ {id}
      PROVE  g[i] \in {None, f[i]}
  <2>1. CASE f[id] # None
    BY <1>2, <2>1 DEF rememberPending
  <2>2. CASE f[id] = None
    <3> DEFINE owed == [until |-> until, lastTry |-> now]
    <3>1. PICK h \in evictSoonestPending(f) : g = [h EXCEPT ![id] = owed]
      BY <1>2, <2>2 DEF rememberPending
    <3> HIDE DEF owed
    <3> QED BY <1>1, <1>2, <3>1
  <2> QED BY <2>1, <2>2
<1> QED BY <1>2 DEF sweepPending

\* Away from its id the step only forgets; at its id it caches nothing that it
\* revokes.
OnlyItsId(q) ==
    LET r == Home[q]
        id == req[q].sid
    IN  /\ now' = now /\ acked \subseteq acked'
        /\ \A s \in Replicas, i \in Ids :
             s # r \/ i # id => /\ tombs'[s][i] \in {None, tombs[s][i]}
                               /\ pending'[s][i] \in {None, pending[s][i]}
                               /\ cache'[s][i] \in {None, cache[s][i]}
        /\ \A i \in Ids : i = id /\ isRevoked(r, i)' => cache'[r][i] = None

LEMMA MemoryStep ==
    ASSUME IInv, ServedIInv, NEW q \in Requests, req[q].pc \in Locked, OnlyItsId(q),
           NEW new, req' = [req EXCEPT ![q] = new],
           lock' = lock \/ Release(q)
    PROVE  /\ Confined(q)
           /\ \A id \in Ids : lock[Home[q]][id] = q
                => (isRevoked(Home[q], id)' => cache'[Home[q]][id] = None)
<1> DEFINE r == Home[q]
           id == req[q].sid
<1>1. r \in Replicas /\ id \in Ids /\ lock[r][id] = q
  BY HomeAssumption, RecordFacts DEF ServedIInv, HoldsItsLock, Locked, Quiet
<1>2. ASSUME NEW s \in Replicas, NEW i \in Ids, s # r \/ i # id
      PROVE  (isRevoked(s, i)' => isRevoked(s, i)) /\ (cache[s][i] = None => cache'[s][i] = None)
  BY <1>2 DEF OnlyItsId, isRevoked, RevocationPending
<1>3. \A i \in Ids : isRevoked(r, i)' => cache'[r][i] = None
  BY <1>1, <1>2
     DEF OnlyItsId, ServedIInv, NotServedAfterRevocation, isRevoked, RevocationPending
<1>4. \A s \in Replicas, i \in Ids :
         \/ lock'[s][i] = lock[s][i]
         \/ s = r /\ (lock[s][i] = None \/ lock[s][i] = q)
  <2>1. CASE lock' = lock
    BY <2>1
  <2>2. CASE lock' = [lock EXCEPT ![r][id] = None]
    <3>1. lock \in [Replicas -> [Ids -> Requests \cup {None}]]
      BY DEF IInv, TypeOK
    <3> QED BY <1>1, <2>2, <3>1
  <2> QED BY <2>1, <2>2 DEF Release, Here
<1>5. \A p \in Requests \ {q} : req'[p] = req[p]
  BY DEF IInv, TypeOK
<1>6. Confined(q)
  <2>1. now' = now /\ acked \subseteq acked'
    BY DEF OnlyItsId
  <2>2. \A s \in Replicas, i \in Ids :
           \/ s = r /\ lock[s][i] = q
           \/ /\ isRevoked(s, i)' => isRevoked(s, i)
              /\ cache[s][i] = None => cache'[s][i] = None
    <3> SUFFICES ASSUME NEW s \in Replicas, NEW i \in Ids, s # r \/ i # id
                 PROVE  /\ isRevoked(s, i)' => isRevoked(s, i)
                        /\ cache[s][i] = None => cache'[s][i] = None
      BY <1>1
    <3> QED BY <1>2
  <2> QED BY <1>4, <1>5, <2>1, <2>2 DEF Confined
<1> QED BY <1>3, <1>6

LEMMA MemoryDone ==
    ASSUME IInv, IInv', ServedIInv, NEW q \in Requests, req[q].pc \in Locked,
           OnlyItsId(q), Done(q), lock' = lock \/ Release(q)
    PROVE  ServedIInv'
<1>1. PICK new : req' = [req EXCEPT ![q] = new]
  BY DEF Done
<1>2. acked \subseteq acked'
  BY DEF OnlyItsId
<1>3. /\ Confined(q)
      /\ \A id \in Ids : lock[Home[q]][id] = q
           => (isRevoked(Home[q], id)' => cache'[Home[q]][id] = None)
  BY <1>1, MemoryStep
<1> QED BY <1>2, <1>3, DoneSound, ConfinedServed

LEMMA DeleteServed ==
    ASSUME IInv, IInv', ServedIInv, NEW q \in Requests, Delete(q) \/ DeleteFails(q)
    PROVE  ServedIInv'
<1> DEFINE r == Home[q]
           id == req[q].sid
<1>1. /\ r \in Replicas /\ id \in Ids /\ req[q].val \in Nat /\ now \in Nat
      /\ tombs \in [Replicas -> [Ids -> Nat \cup {None}]]
      /\ pending \in [Replicas -> [Ids -> Owed \cup {None}]]
      /\ cache \in [Replicas -> [Ids -> Entity \cup {None}]]
      /\ req[q].pc \in Locked
  BY HomeAssumption, RecordFacts DEF Delete, DeleteFails, Locked, Quiet, IInv, TypeOK, Request
<1>2. /\ \A s \in Replicas, i \in Ids :
           s # r \/ i # id => cache'[s][i] \in {None, cache[s][i]}
      /\ cache'[r][id] = None
  BY <1>1 DEF Delete, DeleteFails
<1>3. /\ tombs[r] \in [Ids -> Nat \cup {None}]
      /\ pending[r] \in [Ids -> Owed \cup {None}]
      /\ [pending[r] EXCEPT ![id] = None] \in [Ids -> Owed \cup {None}]
  BY <1>1
<1>4. \A s \in Replicas, i \in Ids :
         s # r \/ i # id => tombs'[s][i] \in {None, tombs[s][i]}
  <2>1. PICK f : /\ tombs' = [tombs EXCEPT ![r] = sweepTombstones(f)]
                 /\ f = tombs[r] \/ f \in rememberTombstone(tombs[r], id, req[q].val)
    BY DEF Delete, DeleteFails
  <2>2. f \in [Ids -> Nat \cup {None}]
    BY <1>1, <1>3, <2>1, TombstoneTypes
  <2>3. \A i \in Ids \ {id} : f[i] \in {None, tombs[r][i]}
    BY <1>1, <1>3, <2>1, TombstonesShrink
  <2>4. \A i \in Ids : sweepTombstones(f)[i] \in {None, f[i]}
    BY <1>1, <2>2, TombstonesShrink
  <2> HIDE DEF r, id
  <2>5. \A i \in Ids \ {id} : tombs'[r][i] \in {None, tombs[r][i]}
    BY <1>1, <2>1, <2>3, <2>4
  <2>6. \A s \in Replicas \ {r} : tombs'[s] = tombs[s]
    BY <1>1, <2>1
  <2> QED BY <2>5, <2>6
<1>5. \A s \in Replicas, i \in Ids :
         s # r \/ i # id => pending'[s][i] \in {None, pending[s][i]}
  <2>1. PICK f : /\ pending' = [pending EXCEPT ![r] = sweepPending(f)]
                 /\ \/ f = pending[r]
                    \/ f = [pending[r] EXCEPT ![id] = None]
                    \/ f \in rememberPending(pending[r], id, req[q].val)
    BY DEF Delete, DeleteFails
  <2>2. f \in [Ids -> Owed \cup {None}]
    BY <1>1, <1>3, <2>1, PendingTypes
  <2>3. \A i \in Ids \ {id} : f[i] \in {None, pending[r][i]}
    BY <1>1, <1>3, <2>1, PendingShrink
  <2>4. \A i \in Ids : sweepPending(f)[i] \in {None, f[i]}
    BY <1>1, <2>2, PendingShrink
  <2> HIDE DEF r, id
  <2>5. \A i \in Ids \ {id} : pending'[r][i] \in {None, pending[r][i]}
    BY <1>1, <2>1, <2>3, <2>4
  <2>6. \A s \in Replicas \ {r} : pending'[s] = pending[s]
    BY <1>1, <2>1
  <2> QED BY <2>5, <2>6
<1>6. OnlyItsId(q)
  <2>1. now' = now /\ acked \subseteq acked'
    BY DEF Delete, DeleteFails, history
  <2> QED BY <1>2, <1>4, <1>5, <2>1 DEF OnlyItsId
<1>7. Done(q) /\ Release(q)
  BY AnswerDone DEF Delete, DeleteFails
<1> QED BY <1>1, <1>6, <1>7, MemoryDone

LEMMA RetryServed ==
    ASSUME IInv, IInv', ServedIInv, NEW q \in Requests, Retry(q) \/ RetryFails(q)
    PROVE  ServedIInv'
<1> DEFINE r == Home[q]
           id == req[q].sid
<1>1. /\ r \in Replicas /\ id \in Ids /\ req[q].val \in Nat /\ now \in Nat
      /\ tombs \in [Replicas -> [Ids -> Nat \cup {None}]]
      /\ pending \in [Replicas -> [Ids -> Owed \cup {None}]]
      /\ req[q].pc \in Locked /\ req[q].pc = "retry"
      /\ lock[r][id] = q
      /\ UNCHANGED <<now, cache, acked>>
  BY HomeAssumption, RecordFacts
     DEF Retry, RetryFails, Locked, Quiet, IInv, TypeOK, Request, ServedIInv, HoldsItsLock,
         history
<1>2. OnlyItsId(q)
  <2>1. CASE Retry(q)
    <3>1. PICK f \in rememberTombstone(tombs[r], id, req[q].val) :
             tombs' = [tombs EXCEPT ![r] = f]
      BY <2>1 DEF Retry
    <3>2. \A s \in Replicas, i \in Ids :
             s # r \/ i # id => tombs'[s][i] \in {None, tombs[s][i]}
      BY <1>1, <3>1, TombstonesShrink
    <3>3. tombs'[r][id] = req[q].val
      <4>1. f[id] = req[q].val
        BY ZenonT(30), <1>1 DEF rememberTombstone, evictOldest, Entries
      <4> QED BY <1>1, <3>1, <4>1
    <3>4. pending' = [pending EXCEPT ![r][id] = None]
      BY <2>1 DEF Retry
    <3>5. \A i \in Ids : i = id /\ isRevoked(r, i)' => cache'[r][i] = None
      <4>1. pending'[r][id] = None
        BY <1>1, <3>4
      <4>2. \A i \in Ids : i = id /\ isRevoked(r, i)' => req[q].val > now
        BY <1>1, <3>3, <4>1 DEF isRevoked, RevocationPending
      <4> QED BY <1>1, <4>2 DEF ServedIInv, RetryIsUncached
    <3> QED BY <1>1, <3>2, <3>4, <3>5 DEF OnlyItsId
  <2>2. CASE RetryFails(q)
    <3>1. tombs' = tombs
      BY <2>2 DEF RetryFails
    <3>2. \A s \in Replicas, i \in Ids :
             s # r \/ i # id => pending'[s][i] = pending[s][i]
      BY <1>1, <2>2 DEF RetryFails
    <3>3. \/ pending'[r][id] = pending[r][id]
          \/ pending[r][id] # None /\ pending'[r][id].until = pending[r][id].until
      <4>1. CASE pending[r][id] # None
        <5> DEFINE owed == [pending[r][id] EXCEPT !.lastTry = now]
        <5>1. pending' = [pending EXCEPT ![r] = [pending[r] EXCEPT ![id] = owed]]
          BY <2>2, <4>1 DEF RetryFails
        <5>2. owed.until = pending[r][id].until
          BY <1>1, <4>1 DEF Owed
        <5> HIDE DEF owed
        <5> QED BY <1>1, <4>1, <5>1, <5>2
      <4> QED BY <2>2, <4>1 DEF RetryFails
    <3>4. \A i \in Ids : i = id /\ isRevoked(r, i)' => isRevoked(r, i)
      BY <1>1, <3>1, <3>3 DEF isRevoked, RevocationPending
    <3>5. \A i \in Ids : i = id /\ isRevoked(r, i)' => cache'[r][i] = None
      BY <1>1, <3>4 DEF ServedIInv, NotServedAfterRevocation
    <3> QED BY <1>1, <3>1, <3>2, <3>5 DEF OnlyItsId
  <2> QED BY <2>1, <2>2
<1>3. CASE Goto(q, "sweepIds") /\ Release(q)
  <2>1. "sweepIds" \notin Locked
    BY DEF Locked
  <2>2. Done(q)
    BY <1>3, <2>1, GotoDone
  <2> QED BY <1>1, <1>2, <1>3, <2>2, MemoryDone
<1>4. CASE Goto(q, "check") /\ UNCHANGED lock
  <2> DEFINE new == [req[q] EXCEPT !.pc = "check"]
  <2>1. req' = [req EXCEPT ![q] = new]
    BY <1>4 DEF Goto
  <2>2. /\ new.pc = "check" /\ new.seen = req[q].seen /\ new.handle = req[q].handle
        /\ new.sid = id
    BY RecordFacts DEF Request
  <2>3. req'[q] = new
    BY <2>1 DEF IInv, TypeOK
  <2> HIDE DEF new
  <2>4. /\ Confined(q)
        /\ \A i \in Ids : lock[Home[q]][i] = q
             => (isRevoked(Home[q], i)' => cache'[Home[q]][i] = None)
    BY <1>1, <1>2, <1>4, <2>1, MemoryStep
  <2>5. Sound(q)
    BY <1>1, <1>4, <2>2, <2>3, <2>4
       DEF Sound, ServedIInv, SeenIsAcked, NotServedAfterRevocation
  <2> QED BY <2>4, <2>5, ConfinedServed
<1> QED BY <1>3, <1>4 DEF Retry, RetryFails, AfterRetry

\* The cached entity changes only at the id a request has passed the check of.
LEMMA CachesItsId ==
    ASSUME IInv, ServedIInv, NEW q \in Requests,
           req[q].pc \in {"find", "insert", "update"}, UNCHANGED <<now, tombs, pending>>,
           acked \subseteq acked', NEW e,
           cache' = [cache EXCEPT ![Home[q]][req[q].sid] = e] \/ cache' = cache
    PROVE  OnlyItsId(q)
<1> DEFINE r == Home[q]
           id == req[q].sid
<1>1. /\ r \in Replicas /\ id \in Ids
      /\ cache \in [Replicas -> [Ids -> Entity \cup {None}]]
  BY HomeAssumption, RecordFacts DEF Quiet, IInv, TypeOK
<1>2. \A s \in Replicas, i \in Ids : s # r \/ i # id => cache'[s][i] = cache[s][i]
  BY <1>1
<1>3. \A i \in Ids : i = id => ~ isRevoked(r, i)'
  BY DEF ServedIInv, PassedTheCheck, isRevoked, RevocationPending
<1> QED BY <1>2, <1>3 DEF OnlyItsId

LEMMA FindServed ==
    ASSUME IInv, IInv', ServedIInv, NEW q \in Requests, FindRow(q) \/ Insert(q)
    PROVE  ServedIInv'
<1> DEFINE r == Home[q]
           id == req[q].sid
           new == [req[q] EXCEPT !.pc = "held", !.goal = "none", !.handle = "loaded"]
<1>1. /\ req[q].pc \in {"find", "insert"} /\ req[q].pc \in Locked
      /\ Release(q) /\ acked' = acked /\ UNCHANGED <<now, tombs, pending>>
  BY DEF FindRow, Insert, Locked, history
<1>2. OnlyItsId(q)
  <2>1. CASE FindRow(q)
    BY <1>1, <2>1, CachesItsId DEF FindRow
  <2>2. CASE Insert(q)
    BY <1>1, <2>2, CachesItsId DEF Insert
  <2> QED BY <2>1, <2>2
<1>3. CASE Done(q)
  BY <1>1, <1>2, <1>3, MemoryDone
<1>4. CASE req' = [req EXCEPT ![q] = new] /\ id \notin acked
  <2>1. /\ new.pc = "held" /\ new.seen = req[q].seen /\ new.handle = "loaded"
        /\ new.sid = id
    BY RecordFacts DEF Request
  <2>2. req'[q] = new
    BY <1>4 DEF IInv, TypeOK
  <2> HIDE DEF new
  <2>3. /\ Confined(q)
        /\ \A i \in Ids : lock[Home[q]][i] = q
             => (isRevoked(Home[q], i)' => cache'[Home[q]][i] = None)
    BY <1>1, <1>2, <1>4, MemoryStep
  <2>4. new.pc \notin Locked /\ new.pc \notin {"find", "insert", "update", "retry"}
    BY <2>1 DEF Locked
  <2>5. Sound(q)
    BY <1>1, <1>4, <2>1, <2>2, <2>3, <2>4 DEF Sound, ServedIInv, SeenIsAcked
  <2> QED BY <2>3, <2>5, ConfinedServed
<1>5. Done(q) \/ (req' = [req EXCEPT ![q] = new] /\ id \notin acked)
  <2>1. CASE FindRow(q)
    <3>1. id \notin acked
      BY <2>1 DEF FindRow, IInv, RevocationIsFinal
    <3>2. \/ Goto(q, "lockDelete")
          \/ req' = [req EXCEPT ![q] = new]
          \/ \E t : req' = [req EXCEPT ![q].pc = "lockUpdate", ![q].val = t]
      BY <2>1 DEF FindRow
    <3>3. "lockDelete" \notin Locked
      BY DEF Locked
    <3>4. ASSUME NEW t, req' = [req EXCEPT ![q].pc = "lockUpdate", ![q].val = t]
          PROVE  Done(q)
      <4> DEFINE went == [req[q] EXCEPT !.pc = "lockUpdate", !.val = t]
      <4>1. req' = [req EXCEPT ![q] = went]
        BY <3>4
      <4>2. /\ went.pc = "lockUpdate" /\ went.seen = req[q].seen
            /\ went.handle = req[q].handle /\ went.sid = id
        BY RecordFacts DEF Request
      <4> HIDE DEF went
      <4> QED BY <4>1, <4>2 DEF Done, Locked
    <3> QED BY <3>1, <3>2, <3>3, <3>4, GotoDone
  <2>2. CASE Insert(q)
    <3>1. id \notin acked
      BY <2>2 DEF Insert, IInv, OnlyFreshIsInserted, FreshIsUnborn, BornBeforeStored
    <3> QED BY <2>2, <3>1, FinishDone DEF Insert
  <2> QED BY <2>1, <2>2
<1> QED BY <1>3, <1>4, <1>5

\* Taking the lock of the id, or going on under it.
LEMMA GotoServed ==
    ASSUME IInv, IInv', ServedIInv, NEW q \in Requests,
           UNCHANGED <<now, memory, acked>>, req[q].pc \notin Quiet,
           NEW p, Goto(q, p), p # "retry",
           Acquire(q, req[q].sid) \/ (req[q].pc \in Locked /\ lock' = lock),
           p \in {"find", "insert", "update"} => ~ isRevoked(Home[q], req[q].sid)
    PROVE  ServedIInv'
<1> DEFINE new == [req[q] EXCEPT !.pc = p]
<1>1. /\ new.pc = p /\ new.seen = req[q].seen /\ new.handle = req[q].handle
      /\ new.sid = req[q].sid /\ req[q].sid \in Ids
  BY RecordFacts DEF Request
<1>2. req' = [req EXCEPT ![q] = new]
  BY DEF Goto
<1>3. /\ req[q].seen \subseteq acked
      /\ req[q].handle = "loaded" => req[q].sid \notin req[q].seen
      /\ req[q].pc \in Locked => lock[Home[q]][req[q].sid] = q
  BY DEF ServedIInv, SeenIsAcked, NotServedAfterRevocation, HoldsItsLock
<1> HIDE DEF new
<1> QED BY <1>1, <1>2, <1>3, MemoryKept

LEMMA ProceedServed ==
    ASSUME IInv, IInv', ServedIInv, NEW q \in Requests, Proceed(q) PROVE ServedIInv'
<1> USE DEF memory, history
<1> DEFINE old == req[q]
           r == Home[q]
           id == old.sid
<1>0. /\ old \in Request /\ r \in Replicas /\ old.seen \subseteq acked
      /\ old.handle = "loaded" => old.sid \notin old.seen
  BY HomeAssumption
     DEF IInv, TypeOK, ServedIInv, SeenIsAcked, NotServedAfterRevocation
<1>1. CASE LockGet(q)
  <2>1. /\ UNCHANGED <<now, memory, acked>> /\ old.pc = "get" /\ id \in Ids
        /\ old.pc \notin Quiet
    BY <1>1, RecordFacts DEF LockGet, Quiet
  <2>2. CASE /\ pending[r][id] # None
             /\ Acquire(q, id)
             /\ req' = [req EXCEPT ![q].pc = "retry", ![q].val = pending[r][id].until]
    <3> DEFINE until == pending[r][id].until
               new == [old EXCEPT !.pc = "retry", !.val = until]
    <3>1. req' = [req EXCEPT ![q] = new]
      BY <2>2
    <3>2. until > now => isRevoked(r, id)
      BY <2>2 DEF isRevoked, RevocationPending
    <3>3. until > now => cache[r][id] = None
      BY <1>0, <2>1, <3>2 DEF ServedIInv, NotServedAfterRevocation
    <3> HIDE DEF until
    <3>4. /\ new.pc = "retry" /\ new.seen = old.seen /\ new.handle = old.handle
          /\ new.sid = id /\ new.val = until
      BY <1>0 DEF Request
    <3> HIDE DEF new
    <3> QED BY ZenonT(30), <1>0, <2>1, <2>2, <3>1, <3>3, <3>4, MemoryKept
  <2>3. CASE isRevoked(r, id) /\ AnswerNil(q) /\ UNCHANGED lock
    BY <2>1, <2>3, AnswerDone, DoneServed
  <2>4. CASE ~ isRevoked(r, id) /\ Acquire(q, id) /\ Goto(q, "find")
    BY <2>1, <2>4, GotoServed
  <2> QED BY <1>1, <2>2, <2>3, <2>4 DEF LockGet
<1>2. CASE CheckRevoked(q)
  <2>1. /\ UNCHANGED <<now, memory, acked>> /\ old.pc = "check"
        /\ old.pc \in Locked /\ old.pc \notin Quiet
    BY <1>2 DEF CheckRevoked, Locked, Quiet
  <2>2. CASE isRevoked(r, id) /\ AnswerNil(q) /\ Release(q)
    BY <2>1, <2>2, AnswerDone, DoneServed
  <2>3. CASE ~ isRevoked(r, id) /\ Goto(q, "find") /\ UNCHANGED lock
    BY <2>1, <2>3, GotoServed
  <2> QED BY <1>2, <2>2, <2>3 DEF CheckRevoked
<1>3. CASE FindFails(q)
  <2>1. /\ UNCHANGED <<now, memory, acked>> /\ old.pc \in Locked
        /\ AnswerError(q) /\ Release(q)
    BY <1>3 DEF FindFails, Locked
  <2> QED BY <2>1, AnswerDone, DoneServed
<1>4. CASE FindNoRow(q)
  <2>1. /\ old.pc = "find" /\ old.pc \in Locked /\ AnswerNil(q) /\ Release(q)
        /\ UNCHANGED <<now, tombs, pending, acked>>
        /\ cache' = [cache EXCEPT ![r][id] = None]
    BY <1>4 DEF FindNoRow, Locked
  <2> QED BY <2>1, AnswerDone, CachesItsId, MemoryDone
<1>5. CASE FindRow(q) \/ Insert(q)
  BY <1>5, FindServed
<1>6. CASE LockCreate(q)
  <2>1. /\ UNCHANGED <<now, memory, acked>> /\ old.pc \notin Quiet
    BY <1>6 DEF LockCreate, Quiet
  <2>2. CASE Finish(q) /\ UNCHANGED lock
    BY <2>1, <2>2, FinishDone, DoneServed
  <2>3. CASE ~ isRevoked(r, id) /\ Acquire(q, id) /\ Goto(q, "insert")
    BY <2>1, <2>3, GotoServed
  <2> QED BY <1>6, <2>2, <2>3 DEF LockCreate
<1>7. CASE LockUpdate(q)
  <2>1. /\ UNCHANGED <<now, memory, acked>> /\ old.pc \notin Quiet
    BY <1>7 DEF LockUpdate, Quiet
  <2>2. CASE Return(q) /\ UNCHANGED lock
    BY <2>1, <2>2, ReturnDone, DoneServed
  <2>3. CASE ~ isRevoked(r, id) /\ Acquire(q, id) /\ Goto(q, "update")
    BY <2>1, <2>3, GotoServed
  <2> QED BY <1>7, <2>2, <2>3 DEF LockUpdate
<1>8. CASE Update(q)
  <2>1. /\ old.pc = "update" /\ old.pc \in Locked /\ Return(q) /\ Release(q)
        /\ UNCHANGED <<now, tombs, pending, acked>>
        /\ \E e : cache' = [cache EXCEPT ![r][id] = e] \/ cache' = cache
    BY <1>8 DEF Update, Locked
  <2> QED BY <2>1, ReturnDone, CachesItsId, MemoryDone
<1>9. CASE LockDelete(q)
  <2> DEFINE keep == revocationRetentionFor(r, id)
             new == [old EXCEPT !.pc = "delete", !.val = keep]
  <2>1. /\ UNCHANGED <<now, memory, acked>> /\ Acquire(q, id) /\ id \in Ids
        /\ req' = [req EXCEPT ![q] = new]
    BY <1>9, RecordFacts DEF LockDelete, Quiet
  <2> HIDE DEF keep
  <2>2. /\ new.pc = "delete" /\ new.seen = old.seen /\ new.handle = old.handle
        /\ new.sid = id
    BY <1>0 DEF Request
  <2> HIDE DEF new
  <2> QED BY <1>0, <2>1, <2>2, MemoryKept
<1>10. CASE Delete(q) \/ DeleteFails(q)
  BY <1>10, DeleteServed
<1>11. CASE Retry(q) \/ RetryFails(q)
  BY <1>11, RetryServed
<1> QED BY <1>1, <1>2, <1>3, <1>4, <1>5, <1>6, <1>7, <1>8, <1>9, <1>10, <1>11
       DEF Proceed

LEMMA SweepServed ==
    ASSUME IInv, IInv', ServedIInv, NEW q \in Requests, Sweep(q) PROVE ServedIInv'
<1> USE DEF memory, history
<1> DEFINE old == req[q]
           r == Home[q]
<1>0. old \in Request /\ r \in Replicas /\ old.seen \subseteq acked
  BY HomeAssumption DEF IInv, TypeOK, ServedIInv, SeenIsAcked
<1>1. CASE StartSweep(q)
  <2> DEFINE new == [old EXCEPT !.pc = "sweepRows", !.goal = "sweep"]
  <2>1. req' = [req EXCEPT ![q] = new] /\ UNCHANGED <<now, memory, acked, lock>>
    BY <1>1 DEF StartSweep
  <2>2. /\ new.pc = "sweepRows" /\ new.seen = old.seen /\ new.handle = old.handle
        /\ new.sid = old.sid
    BY <1>0 DEF Request
  <2> HIDE DEF new
  <2>3. Done(q)
    BY <2>1, <2>2 DEF Done, Locked
  <2> QED BY <2>1, <2>3, DoneServed
<1>2. CASE DeleteExpired(q)
  <2>1. "sweepMemory" \notin Locked
    BY DEF Locked
  <2>2. Done(q)
    BY <1>2, <2>1, GotoDone DEF DeleteExpired
  <2> QED BY <1>2, <2>2, DoneServed DEF DeleteExpired
<1>3. CASE SweepMemory(q)
  <2>1. PICK ids : req' = [req EXCEPT ![q].pc = "sweepIds", ![q].todo = ids]
    BY <1>3 DEF SweepMemory
  <2> DEFINE new == [old EXCEPT !.pc = "sweepIds", !.todo = ids]
  <2>2. req' = [req EXCEPT ![q] = new]
    BY <2>1
  <2>3. /\ new.pc = "sweepIds" /\ new.seen = old.seen /\ new.handle = old.handle
        /\ new.sid = old.sid
    BY <1>0 DEF Request
  <2> HIDE DEF new
  <2>4. Done(q)
    BY <2>2, <2>3 DEF Done, Locked
  <2>5. /\ tombs \in [Replicas -> [Ids -> Nat \cup {None}]]
        /\ pending \in [Replicas -> [Ids -> Owed \cup {None}]]
        /\ cache \in [Replicas -> [Ids -> Entity \cup {None}]]
        /\ now' = now /\ acked' = acked /\ lock' = lock
    BY <1>3 DEF SweepMemory, IInv, TypeOK
  <2>6. \A s \in Replicas, i \in Ids : cache'[s][i] \in {None, cache[s][i]}
    BY <1>3, <2>5 DEF SweepMemory
  <2>7. \A s \in Replicas, i \in Ids : tombs'[s][i] \in {None, tombs[s][i]}
    <3>1. \A i \in Ids : sweepTombstones(tombs[r])[i] \in {None, tombs[r][i]}
      BY DEF sweepTombstones
    <3> QED BY <1>0, <1>3, <2>5, <3>1 DEF SweepMemory
  <2>8. \A s \in Replicas, i \in Ids : pending'[s][i] \in {None, pending[s][i]}
    <3>1. \A i \in Ids : sweepPending(pending[r])[i] \in {None, pending[r][i]}
      BY DEF sweepPending
    <3> QED BY <1>0, <1>3, <2>5, <3>1 DEF SweepMemory
  <2>9. ASSUME NEW s \in Replicas, NEW i \in Ids
        PROVE  /\ isRevoked(s, i)' => isRevoked(s, i)
               /\ cache[s][i] = None => cache'[s][i] = None
    BY <2>5, <2>6, <2>7, <2>8 DEF isRevoked, RevocationPending
  <2>10. Confined(q)
    <3>1. \A p \in Requests \ {q} : req'[p] = req[p]
      BY <2>2 DEF IInv, TypeOK
    <3> QED BY <2>5, <2>9, <3>1 DEF Confined
  <2>11. Sound(q)
    <3>1. \A i \in Ids : isRevoked(r, i)' => cache'[r][i] = None
      BY <1>0, <2>9 DEF ServedIInv, NotServedAfterRevocation
    <3> QED BY <2>4, <2>5, <3>1, DoneSound
  <2> QED BY <2>10, <2>11, ConfinedServed
<1>4. ASSUME NEW id \in Ids, SweepRetry(q, id) PROVE ServedIInv'
  <2> DEFINE until == pending[r][id].until
             new == [old EXCEPT !.pc = "retry", !.sid = id, !.val = until,
                                !.todo = old.todo \ {id}]
  <2>1. /\ req' = [req EXCEPT ![q] = new] /\ Acquire(q, id) /\ UNCHANGED <<now, memory, acked>>
        /\ pending[r][id] # None /\ old.pc = "sweepIds"
    BY <1>4 DEF SweepRetry
  <2>2. until > now => isRevoked(r, id)
    BY <2>1 DEF isRevoked, RevocationPending
  <2>3. until > now => cache[r][id] = None
    BY <1>0, <2>2 DEF ServedIInv, NotServedAfterRevocation
  <2>4. old.handle = "none"
    BY <2>1 DEF IInv, HoldsNothing
  <2> HIDE DEF until
  <2>5. /\ new.pc = "retry" /\ new.seen = old.seen /\ new.handle = "none"
        /\ new.sid = id /\ new.val = until
    BY <1>0, <2>4 DEF Request
  <2> HIDE DEF new
  <2> QED BY <1>0, <2>1, <2>3, <2>5, MemoryKept
<1>5. ASSUME NEW id \in Ids, SweepSkip(q, id) PROVE ServedIInv'
  <2> DEFINE new == [old EXCEPT !.todo = old.todo \ {id}]
  <2>1. req' = [req EXCEPT ![q] = new] /\ UNCHANGED <<now, memory, acked, lock>>
        /\ old.pc = "sweepIds"
    BY <1>5 DEF SweepSkip
  <2>2. /\ new.pc = "sweepIds" /\ new.seen = old.seen /\ new.handle = old.handle
        /\ new.sid = old.sid
    BY <1>0, <2>1 DEF Request
  <2> HIDE DEF new
  <2>3. Done(q)
    BY <2>1, <2>2 DEF Done, Locked
  <2> QED BY <2>1, <2>3, DoneServed
<1>6. CASE EndSweep(q)
  BY <1>6, FinishDone, DoneServed DEF EndSweep
<1> QED BY <1>1, <1>2, <1>3, <1>4, <1>5, <1>6 DEF Sweep

\* Time only ends revocations.
LEMMA TickServed == ASSUME IInv, ServedIInv, Tick PROVE ServedIInv'
<1>1. /\ now' = now + 1 /\ now \in Nat
      /\ UNCHANGED <<cache, tombs, pending, lock, req, acked>>
  BY DEF Tick, memory, history, IInv, TypeOK
<1>2. /\ tombs \in [Replicas -> [Ids -> Nat \cup {None}]]
      /\ pending \in [Replicas -> [Ids -> Owed \cup {None}]]
      /\ req \in [Requests -> Request]
  BY DEF IInv, TypeOK
<1>3. ASSUME NEW r \in Replicas, NEW i \in Ids PROVE isRevoked(r, i)' => isRevoked(r, i)
  <2>1. tombs[r][i] # None => tombs[r][i] \in Nat
    BY <1>2
  <2>2. pending[r][i] # None => pending[r][i].until \in Nat
    BY <1>2 DEF Owed
  <2> QED BY <1>1, <2>1, <2>2 DEF isRevoked, RevocationPending
<1>4. SeenIsAcked' /\ HoldsItsLock'
  BY <1>1 DEF ServedIInv, SeenIsAcked, HoldsItsLock
<1>5. PassedTheCheck'
  <2> SUFFICES ASSUME NEW q \in Requests, req[q].pc \in {"find", "insert", "update"}
               PROVE  ~ isRevoked(Home[q], req[q].sid)'
    BY <1>1 DEF PassedTheCheck
  <2>1. Home[q] \in Replicas /\ req[q].sid \in Ids
    BY HomeAssumption, RecordFacts DEF Quiet
  <2>2. \A i \in Ids : i = req[q].sid => ~ isRevoked(Home[q], i)'
    BY <1>3, <2>1 DEF ServedIInv, PassedTheCheck
  <2> QED BY <1>1, <2>1, <2>2 DEF isRevoked, RevocationPending
<1>6. RetryIsUncached'
  <2>1. \A q \in Requests : req[q].val \in Nat
    BY <1>2 DEF Request
  <2> QED BY <1>1, <2>1 DEF ServedIInv, RetryIsUncached
<1>7. NotServedAfterRevocation'
  <2>1. ASSUME NEW r \in Replicas, NEW i \in Ids, isRevoked(r, i)' PROVE cache'[r][i] = None
    BY <1>1, <1>3, <2>1 DEF ServedIInv, NotServedAfterRevocation
  <2> QED BY <1>1, <2>1 DEF ServedIInv, NotServedAfterRevocation
<1> QED BY <1>4, <1>5, <1>6, <1>7 DEF ServedIInv

\* A replica that restarts has forgotten its revocations, and its cache.
LEMMA RestartServed ==
    ASSUME IInv, ServedIInv, NEW r \in Replicas, Restart(r) PROVE ServedIInv'
<1>1. /\ \A q \in Requests : req'[q] = IF Home[q] = r THEN Idle ELSE req[q]
      /\ Home \in [Requests -> Replicas] /\ now' = now /\ acked' = acked
  BY HomeAssumption DEF Restart, history
<1>2. /\ Idle.pc = "idle" /\ Idle.handle = "none" /\ Idle.seen = {}
      /\ "idle" \notin Locked
  BY DEF Idle, Locked
<1>3. \A s \in Replicas, i \in Ids :
         /\ s = r => tombs'[s][i] = None /\ pending'[s][i] = None
         /\ s # r => /\ tombs'[s] = tombs[s] /\ pending'[s] = pending[s]
                     /\ cache'[s] = cache[s] /\ lock'[s] = lock[s]
  BY DEF Restart, IInv, TypeOK
<1>4. ASSUME NEW s \in Replicas, NEW i \in Ids
      PROVE  /\ s = r => ~ isRevoked(s, i)'
             /\ isRevoked(s, i)' => isRevoked(s, i)
  BY <1>1, <1>3 DEF isRevoked, RevocationPending
<1>5. SeenIsAcked'
  BY <1>1, <1>2 DEF ServedIInv, SeenIsAcked
<1>6. \A q \in Requests : req'[q].pc \in Locked =>
         req'[q] = req[q] /\ Home[q] # r /\ req[q].sid \in Ids
  BY <1>1, <1>2, RecordFacts DEF Locked, Quiet
<1>7. HoldsItsLock'
  BY <1>1, <1>3, <1>6 DEF ServedIInv, HoldsItsLock
<1>8. PassedTheCheck'
  <2> SUFFICES ASSUME NEW q \in Requests, req'[q].pc \in {"find", "insert", "update"}
               PROVE  ~ isRevoked(Home[q], req[q].sid)'
    BY DEF PassedTheCheck
  <2>1. req'[q] = req[q] /\ req[q].sid \in Ids /\ Home[q] \in Replicas
    BY <1>1, <1>6 DEF Locked
  <2>2. \A i \in Ids : i = req[q].sid => ~ isRevoked(Home[q], i)'
    BY <1>4, <2>1 DEF ServedIInv, PassedTheCheck
  <2> QED BY <2>1, <2>2 DEF isRevoked, RevocationPending
<1>9. RetryIsUncached'
  BY <1>1, <1>3, <1>6 DEF ServedIInv, RetryIsUncached, Locked
<1>10. NotServedAfterRevocation'
  <2>1. ASSUME NEW s \in Replicas, NEW i \in Ids, isRevoked(s, i)' PROVE cache'[s][i] = None
    BY <1>3, <1>4, <2>1 DEF ServedIInv, NotServedAfterRevocation
  <2> QED BY <1>1, <1>2, <2>1 DEF ServedIInv, NotServedAfterRevocation
<1> QED BY <1>5, <1>7, <1>8, <1>9, <1>10 DEF ServedIInv

LEMMA NextServed == IInv /\ IInv' /\ ServedIInv /\ [Next]_vars => ServedIInv'
<1> SUFFICES ASSUME IInv, IInv', ServedIInv, [Next]_vars PROVE ServedIInv'
  OBVIOUS
<1>1. CASE UNCHANGED vars
  BY <1>1 DEF vars, memory, history, ServedIInv, SeenIsAcked, HoldsItsLock, PassedTheCheck,
              RetryIsUncached, NotServedAfterRevocation, isRevoked, RevocationPending
<1>2. CASE Next
  BY <1>2, BeginServed, ProceedServed, SweepServed, TickServed, RestartServed DEF Next
<1> QED BY <1>1, <1>2

\* A session whose revocation was reported is given to no lookup that began
\* afterwards, on any replica; and no replica caches a session it has revoked
\* or owes the revocation of (GetSession, DeleteSession).
THEOREM NotServed == Spec => []NotServedAfterRevocation
<1>1. Init => ServedIInv
  BY InitServed
<1>2. IInv /\ IInv' /\ ServedIInv /\ [Next]_vars => ServedIInv'
  BY NextServed
<1>3. ServedIInv => NotServedAfterRevocation
  BY DEF ServedIInv
<1> QED BY <1>1, <1>2, <1>3, Inductive, PTL DEF Spec
=============================================================================
