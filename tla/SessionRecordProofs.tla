------------------------- MODULE SessionRecordProofs -------------------------
(***************************************************************************)
(* Proofs about SessionRecord.                                             *)
(*                                                                         *)
(* That the parts keep their types needs no more than that a request past  *)
(* its resolution has a copy, and one past its snapshot a snapshot.  What  *)
(* the version guard promises needs each replica to run one request on the *)
(* session at a time: OnePerReplica.  With two, a setter of one changes    *)
(* the shared copy while the other writes, and the run SessionRecordLost   *)
(* shows a change that is lost.                                            *)
(*                                                                         *)
(* RecordInv relates, for each request, its snapshot, the copy of its      *)
(* replica and what that still has to write (Own), and the copy and the    *)
(* snapshot just written with the row (Fits).  A step moves one request    *)
(* and the copy of its replica, and leaves the row, removes it or gives it *)
(* the next version (Confined, StepKeeps): at the next version nothing has *)
(* to be shown of the other replicas.                                      *)
(***************************************************************************)
EXTENDS SessionRecord, TLAPS

\* One request of each replica works on the session at a time.
OnePerReplica == \A p, q \in Requests : Home[p] = Home[q] => p = q

Writing == {"write", "probe", "reread", "settle"}
Told == {"idle", "held", "find", "mark"}

\* What a request at p with the snapshot s, the copy c of its replica and the
\* changes u it has still to write have to do with each other.
Own(p, s, c, u) ==
    /\ c = None => u = NoChange /\ p \in {"idle", "find"}
    /\ c # None =>
        /\ p \in Writing => s = SnapshotOf(c)
        /\ p \notin Told => c.dirty # {}
        /\ \A k \in Keys : c.attrOps[k] # Keep => c.attributes[k] = c.attrOps[k]
        /\ "attributes" \notin c.dirty => c.attrOps = NoOps
        /\ p # "settle" => /\ u.attributes = c.attrOps
                           /\ u.user # None => "userId" \in c.dirty /\ c.userId = u.user
        /\ p = "settle" => u = NoChange
        /\ p \in Told /\ ~ c.failed => u = NoChange

SameState(c, w) ==
    /\ "userId" \notin c.dirty => c.userId = w.userId
    /\ c.attributes = replayAttributeOps(w.attributes, c.attrOps)

\* What they have to do with the row w: the copy is not ahead of it, and
\* agrees with it at its version; so does what was just written.
Fits(p, s, c, w) ==
    c # None /\ w # None =>
        /\ c.version <= w.version
        /\ c.version = w.version => SameState(c, w)
        /\ p = "settle" /\ s.guard # None =>
             /\ s.version <= w.version
             /\ s.version = w.version => c.userId = w.userId /\ c.attributes = w.attributes

RequestOK(q) ==
    /\ Own(req[q].pc, req[q].snap, copy[Home[q]], unlanded[Home[q]])
    /\ Fits(req[q].pc, req[q].snap, copy[Home[q]], row)

RecordInv ==
    /\ TypeOK
    /\ \A q \in Requests : RequestOK(q)
    /\ \A r \in Replicas : r \notin {Home[q] : q \in Requests} => copy[r] = None
-----------------------------------------------------------------------------
(* Operators.                                                              *)

\* Replaying an empty log changes nothing, and two logs one after the other are
\* one log replayed on the other.
LEMMA ReplayFacts ==
    /\ NoOps \in AttrOps
    /\ \A a \in Attributes : replayAttributeOps(a, NoOps) = a
    /\ \A a \in Attributes, L \in AttrOps : replayAttributeOps(a, L) \in Attributes
    /\ \A L, e \in AttrOps : replayAttributeOps(L, e) \in AttrOps
    /\ \A a \in Attributes, L, e \in AttrOps :
         replayAttributeOps(replayAttributeOps(a, L), e)
           = replayAttributeOps(a, replayAttributeOps(L, e))
  <1> USE DEF NoOps, AttrOps, Attributes, replayAttributeOps
  <1>1. NoOps \in AttrOps
    OBVIOUS
  <1>2. \A a \in Attributes : replayAttributeOps(a, NoOps) = a
    OBVIOUS
  <1>3. \A a \in Attributes, L \in AttrOps : replayAttributeOps(a, L) \in Attributes
    OBVIOUS
  <1>4. \A L, e \in AttrOps : replayAttributeOps(L, e) \in AttrOps
    OBVIOUS
  <1>5. ASSUME NEW a \in Attributes, NEW L \in AttrOps, NEW e \in AttrOps
        PROVE  replayAttributeOps(replayAttributeOps(a, L), e)
                 = replayAttributeOps(a, replayAttributeOps(L, e))
    OBVIOUS
  <1>q. QED
    BY <1>1, <1>2, <1>3, <1>4, <1>5

\* q may move its own request, the copy of its replica and what that has still
\* to write, and leave the row as it is, remove it or give it the next version.
Confined(q, w, c, e, u) ==
    /\ row' = w
    /\ copy' = [copy EXCEPT ![Home[q]] = c]
    /\ req' = [req EXCEPT ![q] = e]
    /\ unlanded' = [unlanded EXCEPT ![Home[q]] = u]
    /\ lock' \in [Replicas -> Requests \cup {None}]
    /\ ops' \in Nat

\* The frame: what a step of q has to show is about q alone.
LEMMA StepKeeps ==
    ASSUME RecordInv, OnePerReplica, NEW q \in Requests,
           NEW w \in Row \cup {None}, NEW c \in Copy \cup {None},
           NEW e \in Request, NEW u \in Change, Confined(q, w, c, e, u),
           Own(e.pc, e.snap, c, u), Fits(e.pc, e.snap, c, w),
           \/ w = row \/ w = None
           \/ row # None /\ w # None /\ w.version = row.version + 1
    PROVE  RecordInv'
  <1> USE HomeAssumption
  <1>t. TypeOK
    BY DEF RecordInv
  <1>1. TypeOK'
    BY <1>t DEF Confined, TypeOK
  <1>2. RequestOK(q)'
    <2>1. req'[q] = e /\ copy'[Home[q]] = c /\ unlanded'[Home[q]] = u /\ row' = w
      BY <1>t DEF Confined, TypeOK
    <2> QED
      BY <2>1 DEF RequestOK
  <1>3. ASSUME NEW p \in Requests, p # q
        PROVE  RequestOK(p)'
    <2>1. Home[p] # Home[q]
      BY <1>3 DEF OnePerReplica
    <2>2. /\ req'[p] = req[p] /\ copy'[Home[p]] = copy[Home[p]]
          /\ unlanded'[Home[p]] = unlanded[Home[p]] /\ row' = w
      BY <1>t, <1>3, <2>1 DEF Confined, TypeOK
    <2>3. Own(req[p].pc, req[p].snap, copy[Home[p]], unlanded[Home[p]])
          /\ Fits(req[p].pc, req[p].snap, copy[Home[p]], row)
      BY DEF RecordInv, RequestOK
    <2>4. Fits(req[p].pc, req[p].snap, copy[Home[p]], w)
      <3> DEFINE d == copy[Home[p]]
                 s == req[p].snap
      <3>1. d \in Copy \cup {None} /\ s \in Snap \cup {None} /\ row \in Row \cup {None}
        BY <1>t DEF TypeOK, Request
      <3>2. d # None /\ req[p].pc = "settle" => s = SnapshotOf(d)
        BY <2>3 DEF Own, Writing
      <3>3. d # None => SnapshotOf(d).version \in Nat
        BY <3>1 DEF SnapshotOf, Copy
      <3> HIDE DEF d, s
      <3>4. CASE w = row \/ w = None
        BY <3>4, <2>3 DEF Fits, d, s
      <3>5. CASE row # None /\ w # None /\ w.version = row.version + 1
        <4>1. Fits(req[p].pc, s, d, row)
          BY <2>3 DEF d, s
        <4>2. row.version \in Nat
          BY <3>1, <3>5 DEF Row
        <4>3. d # None => d.version \in Nat
          BY <3>1 DEF Copy
        <4>4. Fits(req[p].pc, s, d, w)
          BY <4>1, <4>2, <4>3, <3>2, <3>3, <3>5 DEF Fits
        <4> QED
          BY <4>4 DEF d, s
      <3> QED
        BY <3>4, <3>5
    <2> QED
      BY <2>2, <2>3, <2>4 DEF RequestOK
  <1>4. ASSUME NEW r \in Replicas, r \notin {Home[p] : p \in Requests}
        PROVE  copy'[r] = None
    BY <1>t, <1>4 DEF Confined, TypeOK, RecordInv
  <1> QED
    BY <1>1, <1>2, <1>3, <1>4 DEF RecordInv

LEMMA TypesOf ==
    ASSUME RecordInv, NEW q \in Requests
    PROVE  /\ row \in Row \cup {None} /\ copy[Home[q]] \in Copy \cup {None}
           /\ req[q] \in Request /\ unlanded[Home[q]] \in Change
           /\ lock \in [Replicas -> Requests \cup {None}] /\ ops \in Nat
           /\ Home[q] \in Replicas
           /\ req \in [Requests -> Request]
           /\ copy \in [Replicas -> Copy \cup {None}]
           /\ unlanded \in [Replicas -> Change]
           /\ Own(req[q].pc, req[q].snap, copy[Home[q]], unlanded[Home[q]])
           /\ Fits(req[q].pc, req[q].snap, copy[Home[q]], row)
  BY HomeAssumption DEF RecordInv, RequestOK, TypeOK

\* What a snapshot carries, and when it is guarded.
LEMMA SnapshotFacts ==
    ASSUME NEW c \in Copy
    PROVE  /\ SnapshotOf(c) \in Snap /\ SnapshotOf(c) # None
           /\ SnapshotOf(c).userId = c.userId
           /\ SnapshotOf(c).attributes = c.attributes
           /\ SnapshotOf(c).written = c.dirty
           /\ SnapshotOf(c).guard \in {c.version, None}
           /\ SnapshotOf(c).guard = None => /\ SnapshotOf(c).version = c.version
                                            /\ "userId" \notin c.dirty
                                            /\ "attributes" \notin c.dirty
           /\ SnapshotOf(c).guard # None => SnapshotOf(c).version = c.version + 1
  <1>1. c.version \in Nat /\ c.version + 1 \in Nat /\ c.version # None
    BY NoneAssumption DEF Copy
  <1> QED
    BY <1>1, NoRecordAssumption DEF SnapshotOf, Snap, Copy, StateColumns, Columns

LEMMA MoveFacts ==
    ASSUME NEW q \in Requests, RecordInv, NEW p \in PCs
    PROVE  /\ [req[q] EXCEPT !.pc = p] \in Request
           /\ [req[q] EXCEPT !.pc = p].pc = p
           /\ [req[q] EXCEPT !.pc = p].snap = req[q].snap
           /\ [req EXCEPT ![q].pc = p] = [req EXCEPT ![q] = [req[q] EXCEPT !.pc = p]]
  <1>1. req \in [Requests -> Request]
    BY TypesOf
  <1> QED
    BY <1>1 DEF Request

LEMMA IdleFacts ==
    /\ Idle \in Request /\ Idle.pc = "idle" /\ Idle.snap = None
    /\ [Idle EXCEPT !.pc = "held"] \in Request
    /\ [Idle EXCEPT !.pc = "held"].pc = "held"
    /\ [Idle EXCEPT !.pc = "held"].snap = None
  BY DEF Idle, Request, PCs

LEMMA NoneFacts == None \notin Copy /\ None \notin Row /\ None \notin Snap
  BY NoRecordAssumption
-----------------------------------------------------------------------------
(* A request resolves the session, or ends.                                *)

LEMMA MoveKeeps ==
    ASSUME RecordInv, OnePerReplica, NEW q \in Requests, NEW p \in PCs, Goto(q, p),
           UNCHANGED <<row, copy, unlanded>>,
           lock' \in [Replicas -> Requests \cup {None}], ops' \in Nat,
           Own(p, req[q].snap, copy[Home[q]], unlanded[Home[q]]),
           Fits(p, req[q].snap, copy[Home[q]], row)
    PROVE  RecordInv'
  <1> DEFINE e == [req[q] EXCEPT !.pc = p]
  <1>1. e \in Request /\ e.pc = p /\ e.snap = req[q].snap /\ req' = [req EXCEPT ![q] = e]
    BY MoveFacts DEF Goto
  <1> HIDE DEF e
  <1>2. copy' = [copy EXCEPT ![Home[q]] = copy[Home[q]]]
        /\ unlanded' = [unlanded EXCEPT ![Home[q]] = unlanded[Home[q]]]
    BY TypesOf
  <1>3. Confined(q, row, copy[Home[q]], e, unlanded[Home[q]])
    BY <1>1, <1>2 DEF Confined
  <1> QED
    BY <1>1, <1>3, TypesOf, StepKeeps

LEMMA ResolveKeeps ==
    ASSUME RecordInv, OnePerReplica, NEW q \in Requests, Resolve(q)
    PROVE  RecordInv'
  <1>1. ops' \in Nat /\ lock' \in [Replicas -> Requests \cup {None}]
    BY TypesOf, BoundsAssumption DEF Resolve, Count
  <1>2. Own("find", req[q].snap, copy[Home[q]], unlanded[Home[q]])
    BY TypesOf DEF Resolve, At, Own, Told, Writing
  <1>3. Fits("find", req[q].snap, copy[Home[q]], row)
    BY TypesOf DEF Fits
  <1> QED
    BY <1>1, <1>2, <1>3, MoveKeeps DEF Resolve, PCs

\* What adopting the row keeps of the copy.
LEMMA AdoptedFacts ==
    ASSUME NEW c \in Copy, row \in Row
    PROVE  /\ Adopted(c) \in Copy /\ Adopted(c) # None
           /\ Adopted(c).dirty = c.dirty /\ Adopted(c).attrOps = c.attrOps
           /\ Adopted(c).failed = c.failed /\ Adopted(c).version = row.version
           /\ "userId" \in c.dirty => Adopted(c).userId = c.userId
           /\ \A k \in Keys : c.attrOps[k] # Keep => Adopted(c).attributes[k] = c.attrOps[k]
           /\ SameState(Adopted(c), row)
  <1>1. replayAttributeOps(row.attributes, c.attrOps) \in Attributes
    BY ReplayFacts DEF Row, Copy
  <1>2. \A k \in Keys : c.attrOps[k] # Keep =>
           replayAttributeOps(row.attributes, c.attrOps)[k] = c.attrOps[k]
    BY DEF replayAttributeOps
  <1>3. Adopted(c) \in Copy
    BY <1>1 DEF Adopted, Row, Copy
  <1>4. Adopted(c).attributes = replayAttributeOps(row.attributes, c.attrOps)
        /\ Adopted(c).dirty = c.dirty /\ Adopted(c).attrOps = c.attrOps
        /\ Adopted(c).failed = c.failed /\ Adopted(c).version = row.version
        /\ ("userId" \in c.dirty => Adopted(c).userId = c.userId)
        /\ ("userId" \notin c.dirty => Adopted(c).userId = row.userId)
    BY DEF Adopted, Copy
  <1> QED
    BY <1>2, <1>3, <1>4, NoneFacts DEF SameState

LEMMA LoadedFacts ==
    ASSUME row \in Row
    PROVE  /\ Loaded \in Copy /\ Loaded # None
           /\ Loaded.dirty = {} /\ Loaded.attrOps = NoOps
           /\ Loaded.version = row.version
           /\ SameState(Loaded, row)
  <1>1. row.attributes = replayAttributeOps(row.attributes, NoOps) /\ NoOps \in AttrOps
    BY ReplayFacts DEF Row
  <1>2. Loaded \in Copy
    BY <1>1 DEF Loaded, Row, Copy
  <1> QED
    BY <1>1, <1>2, NoneFacts DEF SameState, Loaded

LEMMA FindRowKeeps ==
    ASSUME RecordInv, OnePerReplica, NEW q \in Requests, NEW p \in {"held", "mark"},
           req[q].pc \in {"held", "find"}, FindRow(q, p), ops' \in Nat
    PROVE  RecordInv'
  <1> DEFINE c == copy[Home[q]]
             d == IF c = None THEN Loaded ELSE Adopted(c)
             u == unlanded[Home[q]]
             s == req[q].snap
             e == [req[q] EXCEPT !.pc = p]
  <1>1. p \in PCs /\ row \in Row /\ u \in Change /\ c \in Copy \cup {None}
    BY TypesOf DEF PCs, FindRow
  <1>2. e \in Request /\ e.pc = p /\ e.snap = s /\ req' = [req EXCEPT ![q] = e]
    BY <1>1, MoveFacts DEF FindRow, Goto
  <1>3. Own(req[q].pc, s, c, u) /\ d \in Copy /\ d # None
    BY <1>1, TypesOf, AdoptedFacts, LoadedFacts
  <1>4. copy' = [copy EXCEPT ![Home[q]] = d] /\ row' = row /\ lock' = lock
        /\ unlanded' = [unlanded EXCEPT ![Home[q]] = u]
    BY TypesOf DEF FindRow, Here
  <1>5. SameState(d, row) /\ d.version = row.version
    BY <1>1, AdoptedFacts, LoadedFacts
  <1>6. Own(p, s, d, u)
    <2>1. CASE c = None
      <3>1. u = NoChange /\ d = Loaded
        BY <1>3, <2>1 DEF Own
      <3>2. NoChange.attributes = NoOps /\ NoChange.user = None
        BY DEF NoChange
      <3>3. \A k \in Keys : NoOps[k] = Keep
        BY DEF NoOps
      <3> QED
        BY <1>1, <1>3, <3>1, <3>2, <3>3, LoadedFacts DEF Own, Told, Writing
    <2>2. CASE c # None
      <3>1. c \in Copy /\ d = Adopted(c)
        BY <1>1, <2>2
      <3> QED
        <4> HIDE DEF c, d, u, s
        <4> QED
          BY <1>1, <1>3, <2>2, <3>1, AdoptedFacts DEF Own, Told, Writing
    <2> QED
      BY <2>1, <2>2
  <1>7. Fits(p, s, d, row)
    <2> HIDE DEF d, s
    <2> QED
      BY <1>1, <1>5 DEF Fits, Row
  <1>8. Confined(q, row, d, e, u)
    <2> HIDE DEF d, e, u
    <2> QED
      BY <1>2, <1>4, TypesOf DEF Confined
  <1> HIDE DEF c, d, e, u, s
  <1> QED
    BY <1>1, <1>2, <1>3, <1>6, <1>7, <1>8, StepKeeps

LEMMA EndRequestKeeps ==
    ASSUME RecordInv, OnePerReplica, NEW q \in Requests, EndRequest(q)
    PROVE  RecordInv'
  <1> DEFINE c == copy[Home[q]]
             u == unlanded[Home[q]]
  <1>1. Own("idle", None, c, u) /\ Fits("idle", None, c, row)
    BY TypesOf DEF EndRequest, At, Own, Told, Writing, Fits
  <1>2. /\ copy' = [copy EXCEPT ![Home[q]] = c] /\ row' = row /\ lock' = lock
        /\ unlanded' = [unlanded EXCEPT ![Home[q]] = u] /\ ops' = ops
    BY TypesOf DEF EndRequest
  <1>3. Confined(q, row, c, Idle, u)
    BY <1>2, TypesOf DEF Confined, EndRequest
  <1> QED
    BY ZenonT(30), <1>1, <1>3, IdleFacts, TypesOf, StepKeeps
-----------------------------------------------------------------------------
(* The setters.                                                            *)

\* A request that changes the copy, and perhaps what has still to be written.
LEMMA SetterKeeps ==
    ASSUME RecordInv, OnePerReplica, NEW q \in Requests, NEW d \in Copy, NEW u \in Change,
           req[q].pc \in {"held", "mark"}, Count, Goto(q, "save"), UNCHANGED <<row, lock>>,
           copy' = [copy EXCEPT ![Home[q]] = d], unlanded' = [unlanded EXCEPT ![Home[q]] = u],
           Own("save", req[q].snap, d, u), Fits("save", req[q].snap, d, row)
    PROVE  RecordInv'
  <1> DEFINE e == [req[q] EXCEPT !.pc = "save"]
  <1>1. e \in Request /\ e.pc = "save" /\ e.snap = req[q].snap /\ req' = [req EXCEPT ![q] = e]
    BY MoveFacts DEF PCs, Goto
  <1> HIDE DEF e
  <1>2. ops' \in Nat
    BY TypesOf DEF Count
  <1>3. Confined(q, row, d, e, u)
    BY <1>1, <1>2, TypesOf DEF Confined
  <1> QED
    BY <1>1, <1>3, StepKeeps, TypesOf

LEMMA CopyIsThere ==
    ASSUME RecordInv, NEW q \in Requests, req[q].pc \notin {"idle", "find"}
    PROVE  copy[Home[q]] \in Copy /\ copy[Home[q]] # None
  BY TypesOf DEF Own

LEMMA MarkAllDirtyKeeps ==
    ASSUME RecordInv, OnePerReplica, NEW q \in Requests, MarkAllDirty(q)
    PROVE  RecordInv'
  <1> DEFINE c == copy[Home[q]]
             d == [c EXCEPT !.dirty = Columns]
             u == unlanded[Home[q]]
  <1>1. c \in Copy /\ c # None /\ req[q].pc = "mark"
    BY CopyIsThere DEF MarkAllDirty, At
  <1>2. d \in Copy /\ d # None /\ d.dirty = Columns /\ d.attrOps = c.attrOps
        /\ d.attributes = c.attributes /\ d.userId = c.userId /\ d.version = c.version
        /\ d.failed = c.failed
    <2>1. d \in Copy
      BY <1>1 DEF Copy
    <2> QED
      BY <1>1, <2>1, NoneFacts DEF Copy
  <1>3. copy' = [copy EXCEPT ![Home[q]] = d]
    BY TypesOf DEF MarkAllDirty, Here
  <1>4. unlanded' = [unlanded EXCEPT ![Home[q]] = u] /\ row' = row /\ lock' = lock
    BY TypesOf DEF MarkAllDirty
  <1> HIDE DEF c, d, u
  <1>5. Own(req[q].pc, req[q].snap, c, u) /\ Fits(req[q].pc, req[q].snap, c, row)
        /\ u \in Change
    BY TypesOf DEF c, u
  <1>6. Own("save", req[q].snap, d, u)
    BY <1>1, <1>2, <1>5 DEF Own, Told, Writing, Columns
  <1>7. Fits("save", req[q].snap, d, row)
    BY <1>1, <1>2, <1>5 DEF Fits, SameState, Columns
  <1> QED
    BY <1>1, <1>2, <1>3, <1>4, <1>5, <1>6, <1>7, SetterKeeps DEF MarkAllDirty

LEMMA HeartbeatKeeps ==
    ASSUME RecordInv, OnePerReplica, NEW q \in Requests, Heartbeat(q)
    PROVE  RecordInv'
  <1> DEFINE c == copy[Home[q]]
             d == [c EXCEPT !.dirty = @ \cup {"beat"}]
             u == unlanded[Home[q]]
  <1>1. c \in Copy /\ c # None /\ req[q].pc = "held"
    BY CopyIsThere DEF Heartbeat, At
  <1>2. d \in Copy /\ d # None /\ d.dirty = c.dirty \cup {"beat"} /\ d.attrOps = c.attrOps
        /\ d.attributes = c.attributes /\ d.userId = c.userId /\ d.version = c.version
        /\ d.failed = c.failed
    <2>1. d \in Copy
      BY <1>1 DEF Copy, Columns
    <2> QED
      BY <1>1, <2>1, NoneFacts DEF Copy
  <1>3. copy' = [copy EXCEPT ![Home[q]] = d]
    BY TypesOf DEF Heartbeat, Here
  <1>4. unlanded' = [unlanded EXCEPT ![Home[q]] = u] /\ row' = row /\ lock' = lock
    BY TypesOf DEF Heartbeat
  <1> HIDE DEF c, d, u
  <1>5. Own(req[q].pc, req[q].snap, c, u) /\ Fits(req[q].pc, req[q].snap, c, row)
        /\ u \in Change
    BY TypesOf DEF c, u
  <1>6. Own("save", req[q].snap, d, u)
    BY <1>1, <1>2, <1>5 DEF Own, Told, Writing
  <1>7. Fits("save", req[q].snap, d, row)
    BY <1>1, <1>2, <1>5 DEF Fits, SameState
  <1> QED
    BY <1>1, <1>2, <1>3, <1>4, <1>5, <1>6, <1>7, SetterKeeps DEF Heartbeat

LEMMA SetUserIdKeeps ==
    ASSUME RecordInv, OnePerReplica, NEW q \in Requests, NEW v \in Users, SetUserId(q, v)
    PROVE  RecordInv'
  <1> DEFINE c == copy[Home[q]]
             d == [c EXCEPT !.userId = v, !.dirty = @ \cup {"userId"}]
             u == unlanded[Home[q]]
             w == [u EXCEPT !.user = v]
  <1>1. c \in Copy /\ c # None /\ req[q].pc = "held" /\ u \in Change
    BY CopyIsThere, TypesOf DEF SetUserId, At
  <1>2. d \in Copy /\ d # None /\ d.dirty = c.dirty \cup {"userId"} /\ d.attrOps = c.attrOps
        /\ d.attributes = c.attributes /\ d.userId = v /\ d.version = c.version
        /\ d.failed = c.failed
    <2>1. d \in Copy
      BY <1>1 DEF Copy, Columns
    <2> QED
      BY <1>1, <2>1, NoneFacts DEF Copy
  <1>3. w \in Change /\ w.user = v /\ w.attributes = u.attributes
    BY <1>1 DEF Change
  <1>4. copy' = [copy EXCEPT ![Home[q]] = d]
    BY TypesOf DEF SetUserId, Here
  <1>5. unlanded' = [unlanded EXCEPT ![Home[q]] = w]
    BY TypesOf DEF SetUserId, Here
  <1>6. row' = row /\ lock' = lock
    BY DEF SetUserId
  <1> HIDE DEF c, d, u, w
  <1>7. Own(req[q].pc, req[q].snap, c, u) /\ Fits(req[q].pc, req[q].snap, c, row)
    BY TypesOf DEF c, u
  <1>8. Own("save", req[q].snap, d, w)
    BY <1>1, <1>2, <1>3, <1>7 DEF Own, Told, Writing
  <1>9. Fits("save", req[q].snap, d, row)
    BY <1>1, <1>2, <1>7 DEF Fits, SameState
  <1> QED
    BY <1>1, <1>2, <1>3, <1>4, <1>5, <1>6, <1>8, <1>9, SetterKeeps DEF SetUserId

LEMMA ChangeItemsKeeps ==
    ASSUME RecordInv, OnePerReplica, NEW q \in Requests, NEW entry \in AttrOps,
           ChangeItems(q, entry)
    PROVE  RecordInv'
  <1> DEFINE c == copy[Home[q]]
             bag == replayAttributeOps(c.attributes, entry)
             log == replayAttributeOps(c.attrOps, entry)
             d == [c EXCEPT !.attributes = bag, !.attrOps = log,
                            !.dirty = @ \cup {"attributes"}]
             u == unlanded[Home[q]]
             left == replayAttributeOps(u.attributes, entry)
             w == [u EXCEPT !.attributes = left]
  <1>1. c \in Copy /\ c # None /\ req[q].pc = "held" /\ u \in Change
    BY CopyIsThere, TypesOf DEF ChangeItems, At
  <1>2. bag \in Attributes /\ log \in AttrOps /\ left \in AttrOps
    BY <1>1, ReplayFacts DEF Copy, Change
  <1>3. copy' = [copy EXCEPT ![Home[q]] = d]
    BY TypesOf DEF ChangeItems, Here
  <1>4. unlanded' = [unlanded EXCEPT ![Home[q]] = w]
    BY TypesOf DEF ChangeItems, Here
  <1>5. row' = row /\ lock' = lock
    BY DEF ChangeItems
  <1>6. Own(req[q].pc, req[q].snap, c, u) /\ Fits(req[q].pc, req[q].snap, c, row)
        /\ row \in Row \cup {None}
    BY TypesOf
  <1>7. \A k \in Keys : log[k] # Keep /\ (c.attrOps[k] # Keep => c.attributes[k] = c.attrOps[k])
                          => bag[k] = log[k]
    BY DEF replayAttributeOps
  <1>8. row # None /\ c.attributes = replayAttributeOps(row.attributes, c.attrOps)
          => bag = replayAttributeOps(row.attributes, log)
    <2> SUFFICES ASSUME row # None,
                        c.attributes = replayAttributeOps(row.attributes, c.attrOps)
                 PROVE  bag = replayAttributeOps(row.attributes, log)
      OBVIOUS
    <2>1. row.attributes \in Attributes /\ c.attrOps \in AttrOps
      BY <1>1, <1>6 DEF Row, Copy
    <2>2. replayAttributeOps(replayAttributeOps(row.attributes, c.attrOps), entry)
            = replayAttributeOps(row.attributes, replayAttributeOps(c.attrOps, entry))
      <3> HIDE DEF c
      <3> QED
        BY <2>1, ReplayFacts
    <2> QED
      BY <2>2
  <1>9. u.attributes = c.attrOps => left = log
    OBVIOUS
  <1> HIDE DEF c, bag, log, u, left
  <1>10. d \in Copy /\ d # None /\ d.dirty = c.dirty \cup {"attributes"} /\ d.attrOps = log
        /\ d.attributes = bag /\ d.userId = c.userId /\ d.version = c.version
        /\ d.failed = c.failed
    <2>1. d \in Copy
      BY <1>1, <1>2 DEF Copy, Columns
    <2> QED
      BY <1>1, <2>1, NoneFacts DEF Copy
  <1>11. w \in Change /\ w.user = u.user /\ w.attributes = left
    BY <1>1, <1>2 DEF Change
  <1> HIDE DEF d, w
  <1>12. Own("save", req[q].snap, d, w)
    BY <1>1, <1>6, <1>7, <1>9, <1>10, <1>11 DEF Own, Told, Writing
  <1>13. Fits("save", req[q].snap, d, row)
    BY <1>1, <1>6, <1>8, <1>10 DEF Fits, SameState
  <1> QED
    BY <1>1, <1>3, <1>4, <1>5, <1>10, <1>11, <1>12, <1>13, SetterKeeps DEF ChangeItems
-----------------------------------------------------------------------------
(* Writing the copy back.                                                  *)

LEMMA SaveKeeps ==
    ASSUME RecordInv, OnePerReplica, NEW q \in Requests, Save(q)
    PROVE  RecordInv'
  <1> DEFINE c == copy[Home[q]]
             s == SnapshotOf(c)
             e == [pc |-> "write", tries |-> 0, snap |-> s]
             u == unlanded[Home[q]]
  <1>1. c \in Copy /\ c # None /\ req[q].pc = "save" /\ u \in Change
    BY CopyIsThere, TypesOf DEF Save, At
  <1>2. s \in Snap
    BY <1>1, SnapshotFacts
  <1>3. /\ copy' = [copy EXCEPT ![Home[q]] = c] /\ row' = row
        /\ unlanded' = [unlanded EXCEPT ![Home[q]] = u] /\ ops' = ops
        /\ req' = [req EXCEPT ![q] = e]
        /\ lock' \in [Replicas -> Requests \cup {None}]
    BY TypesOf DEF Save, Here, Acquire
  <1>4. Own(req[q].pc, req[q].snap, c, u) /\ Fits(req[q].pc, req[q].snap, c, row)
    BY TypesOf
  <1> HIDE DEF c, s, u
  <1>5. e \in Request /\ e.pc = "write" /\ e.snap = s
    BY <1>2 DEF Request, PCs
  <1>6. Own("write", s, c, u)
    BY <1>1, <1>4 DEF Own, Told, Writing, s
  <1>7. Fits("write", s, c, row)
    BY <1>4 DEF Fits
  <1> HIDE DEF e
  <1>8. Confined(q, row, c, e, u)
    BY <1>3, TypesOf DEF Confined
  <1> QED
    BY <1>1, <1>5, <1>6, <1>7, <1>8, StepKeeps, TypesOf

\* What the statement of q meets: its own snapshot, and a row that fits.
LEMMA LandFacts ==
    ASSUME RecordInv, NEW q \in Requests, Land(q)
    PROVE  LET c == copy[Home[q]]
               s == req[q].snap
           IN  /\ c \in Copy /\ c # None /\ s = SnapshotOf(c) /\ row \in Row /\ row' \in Row
               /\ Fits("settle", s, c, row') /\ Fits("held", None, c, row')
               /\ row' = row \/ row'.version = row.version + 1
               /\ s.guard # None => row.version = c.version /\ row'.version = row.version + 1
               /\ s.guard = None => row' = row
               /\ row' \in Row
  <1> DEFINE c == copy[Home[q]]
             s == req[q].snap
             u == unlanded[Home[q]]
  <1>1. c \in Copy /\ c # None /\ req[q].pc = "write" /\ row \in Row
    BY CopyIsThere, TypesOf DEF Land, At, Matches
  <1>2. s = SnapshotOf(c) /\ Own("write", s, c, u) /\ Fits("write", s, c, row)
    BY <1>1, TypesOf DEF Own, Writing
  <1>3. s.guard # None => row.version = s.guard
    BY DEF Land, Matches
  <1>4. row' = Written(s)
    BY DEF Land
  <1> HIDE DEF c, s, u
  <1>5. /\ s \in Snap /\ s.userId = c.userId
        /\ s.attributes = c.attributes
        /\ s.written = c.dirty
        /\ s.guard \in {c.version, None}
        /\ s.guard = None => /\ s.version = c.version
                             /\ "userId" \notin c.dirty
                             /\ "attributes" \notin c.dirty
        /\ s.guard # None => s.version = c.version + 1
    BY <1>1, <1>2, SnapshotFacts
  <1>6. c.dirty # {} /\ ("attributes" \notin c.dirty => c.attrOps = NoOps)
    BY <1>1, <1>2 DEF Own, Told
  <1>7. /\ row'.userId = IF "userId" \in c.dirty THEN c.userId ELSE row.userId
        /\ row'.attributes = IF "attributes" \in c.dirty THEN c.attributes ELSE row.attributes
        /\ row'.version = IF s.guard # None THEN s.version ELSE row.version
    BY <1>4, <1>5, <1>6 DEF Written
  <1>8. row' \in Row
    BY <1>1, <1>4, <1>5 DEF Written, Row, Snap
  <1>9. c.version \in Nat /\ row.version \in Nat /\ c.attributes \in Attributes
        /\ row.attributes \in Attributes
    BY <1>1 DEF Copy, Row
  <1>10. CASE s.guard = None
    <2>1. row' = row
      BY <1>1, <1>4, <1>5, <1>6, <1>10 DEF Written, Row
    <2>2. Fits("settle", s, c, row') /\ Fits("held", None, c, row')
      BY <1>2, <1>10, <2>1 DEF Fits
    <2> QED
      BY <1>1, <1>2, <1>8, <1>10, <2>1, <2>2 DEF c, s
  <1>11. CASE s.guard # None
    <2>1. row.version = c.version /\ row'.version = row.version + 1 /\ s.version = row'.version
      BY <1>3, <1>5, <1>7, <1>11
    <2>2. SameState(c, row)
      BY <1>1, <1>2, <2>1, NoneFacts DEF Fits
    <2>3. c.userId = row'.userId
      BY <1>7, <2>2 DEF SameState
    <2>4. c.attributes = row'.attributes
      <3>1. CASE "attributes" \in c.dirty
        BY <1>7, <3>1
      <3>2. CASE "attributes" \notin c.dirty
        BY <1>6, <1>7, <1>9, <2>2, <3>2, ReplayFacts DEF SameState
      <3> QED
        BY <3>1, <3>2
    <2>5. Fits("settle", s, c, row') /\ Fits("held", None, c, row')
      BY <1>9, <2>1, <2>3, <2>4 DEF Fits
    <2> QED
      BY <1>1, <1>2, <1>8, <1>11, <2>1, <2>5 DEF c, s
  <1> QED
    BY <1>10, <1>11

LEMMA WriteKeeps ==
    ASSUME RecordInv, OnePerReplica, NEW q \in Requests, Write(q)
    PROVE  RecordInv'
  <1> DEFINE c == copy[Home[q]]
             s == req[q].snap
             u == unlanded[Home[q]]
             e == [req[q] EXCEPT !.pc = "settle"]
             left == Remaining(u, s)
  <1>1. c \in Copy /\ c # None /\ s = SnapshotOf(c) /\ row \in Row /\ row' \in Row
    BY LandFacts DEF Write
  <1>2. Fits("settle", s, c, row') /\ (row' = row \/ row'.version = row.version + 1)
    BY LandFacts DEF Write
  <1>3. Own("write", s, c, u) /\ u \in Change /\ req[q].pc = "write"
    BY TypesOf DEF Write, Land, At
  <1>4. e \in Request /\ e.pc = "settle" /\ e.snap = s /\ req' = [req EXCEPT ![q] = e]
    BY MoveFacts DEF Write, Goto, PCs
  <1>5. copy' = [copy EXCEPT ![Home[q]] = c] /\ unlanded' = [unlanded EXCEPT ![Home[q]] = left]
    BY TypesOf DEF Write, Here
  <1>6. lock' = lock /\ ops' = ops
    BY DEF Write
  <1> HIDE DEF c, s, u, e
  <1>7. s.userId = c.userId /\ s.attributes = c.attributes /\ s.written = c.dirty
    BY <1>1, SnapshotFacts
  <1>8. left = NoChange
    <2>1. left.user = None
      BY <1>1, <1>3, <1>7 DEF Remaining, Own, Told
    <2>2. left.attributes = NoOps
      <3>1. ASSUME NEW k \in Keys
            PROVE  left.attributes[k] = Keep
        BY <1>1, <1>3, <1>7, <3>1 DEF Remaining, Own, Told, NoOps
      <3> QED
        BY <3>1 DEF Remaining, NoOps
    <2> QED
      BY <2>1, <2>2 DEF NoChange, Remaining
  <1>9. NoChange \in Change
    BY ReplayFacts DEF NoChange, Change
  <1>10. Own("settle", s, c, left)
    BY <1>1, <1>3, <1>8 DEF Own, Told, Writing
  <1>11. Confined(q, row', c, e, left)
    BY <1>4, <1>5, <1>6, TypesOf DEF Confined
  <1>12. row # None /\ row' # None
    BY <1>1, NoneFacts
  <1> HIDE DEF left
  <1> QED
    BY <1>1, <1>2, <1>4, <1>8, <1>9, <1>10, <1>11, <1>12, StepKeeps

LEMMA FailKeeps ==
    ASSUME RecordInv, OnePerReplica, NEW q \in Requests, Fail(q),
           req[q].pc \in Writing \ {"settle"}, row' \in Row \cup {None},
           UNCHANGED <<ops, unlanded>>, Fits("held", None, copy[Home[q]], row'),
           \/ row' = row
           \/ row # None /\ row' # None /\ row'.version = row.version + 1
    PROVE  RecordInv'
  <1> DEFINE c == copy[Home[q]]
             d == [c EXCEPT !.failed = TRUE]
             u == unlanded[Home[q]]
             e == [Idle EXCEPT !.pc = "held"]
  <1>1. c \in Copy /\ c # None /\ u \in Change
    BY CopyIsThere, TypesOf DEF Writing
  <1>2. d \in Copy /\ d # None /\ d.dirty = c.dirty /\ d.attrOps = c.attrOps
        /\ d.attributes = c.attributes /\ d.userId = c.userId /\ d.version = c.version
        /\ d.failed
    <2>1. d \in Copy
      BY <1>1 DEF Copy
    <2> QED
      BY <1>1, <2>1, NoneFacts DEF Copy
  <1>3. /\ copy' = [copy EXCEPT ![Home[q]] = d] /\ ops' = ops
        /\ unlanded' = [unlanded EXCEPT ![Home[q]] = u]
        /\ req' = [req EXCEPT ![q] = e]
        /\ lock' \in [Replicas -> Requests \cup {None}]
    BY TypesOf DEF Fail, Here, Release
  <1>4. Own(req[q].pc, req[q].snap, c, u)
    BY TypesOf
  <1>5. e \in Request /\ e.pc = "held" /\ e.snap = None
    BY IdleFacts
  <1> HIDE DEF c, d, u, e
  <1>6. Own("held", None, d, u)
    BY <1>1, <1>2, <1>4 DEF Own, Told, Writing
  <1>7. Fits("held", None, d, row')
    BY <1>1, <1>2 DEF Fits, SameState, c
  <1>8. Confined(q, row', d, e, u)
    BY ZenonT(30), <1>3, TypesOf DEF Confined
  <1> QED
    BY <1>1, <1>2, <1>5, <1>6, <1>7, <1>8, StepKeeps

LEMMA WriteLostKeeps ==
    ASSUME RecordInv, OnePerReplica, NEW q \in Requests, WriteLost(q)
    PROVE  RecordInv'
  <1>1. row \in Row /\ row' \in Row /\ Fits("held", None, copy[Home[q]], row')
        /\ (row' = row \/ row'.version = row.version + 1)
    BY LandFacts DEF WriteLost
  <1>2. req[q].pc \in Writing \ {"settle"}
    BY DEF WriteLost, Land, At, Writing
  <1> QED
    BY <1>1, <1>2, NoneFacts, FailKeeps DEF WriteLost

LEMMA FailuresKeep ==
    ASSUME RecordInv, OnePerReplica, NEW q \in Requests,
           WriteFails(q) \/ ProbeFails(q) \/ RereadFails(q)
    PROVE  RecordInv'
  <1>1. Fail(q) /\ row' = row /\ UNCHANGED <<ops, unlanded>>
        /\ req[q].pc \in Writing \ {"settle"}
    BY DEF WriteFails, ProbeFails, RereadFails, At, Writing
  <1>2. Fits("held", None, copy[Home[q]], row) /\ row \in Row \cup {None}
    BY TypesOf DEF Fits
  <1> QED
    BY <1>1, <1>2, FailKeeps

LEMMA MissesKeep ==
    ASSUME RecordInv, OnePerReplica, NEW q \in Requests,
           WriteMisses(q) \/ ProbeConflict(q)
    PROVE  RecordInv'
  <1> DEFINE p == IF WriteMisses(q) THEN "probe" ELSE "reread"
  <1>1. p \in PCs /\ Goto(q, p) /\ UNCHANGED <<row, copy, unlanded>>
        /\ lock' = lock /\ ops' = ops /\ req[q].pc \in {"write", "probe"}
        /\ p \in {"probe", "reread"}
    BY DEF WriteMisses, ProbeConflict, At, PCs
  <1> HIDE DEF p
  <1>2. Own(p, req[q].snap, copy[Home[q]], unlanded[Home[q]])
    BY <1>1, TypesOf DEF Own, Told, Writing
  <1>3. Fits(p, req[q].snap, copy[Home[q]], row)
    BY <1>1, TypesOf DEF Fits
  <1> QED
    BY <1>1, <1>2, <1>3, TypesOf, MoveKeeps

LEMMA RereadKeeps ==
    ASSUME RecordInv, OnePerReplica, NEW q \in Requests, Reread(q)
    PROVE  RecordInv'
  <1> DEFINE c == copy[Home[q]]
             d == Adopted(c)
             s == SnapshotOf(d)
             u == unlanded[Home[q]]
             e == [pc |-> "write", tries |-> req[q].tries + 1, snap |-> s]
  <1>1. c \in Copy /\ c # None /\ u \in Change /\ row \in Row /\ req[q].pc = "reread"
        /\ req[q] \in Request
    BY CopyIsThere, TypesOf DEF Reread, At
  <1>2. /\ d \in Copy /\ d # None
        /\ d.dirty = c.dirty /\ d.attrOps = c.attrOps /\ d.failed = c.failed
        /\ d.version = row.version /\ ("userId" \in c.dirty => d.userId = c.userId)
        /\ \A k \in Keys : c.attrOps[k] # Keep => d.attributes[k] = c.attrOps[k]
        /\ SameState(d, row)
    BY <1>1, AdoptedFacts
  <1>3. s \in Snap
    BY <1>2, SnapshotFacts
  <1>4. /\ copy' = [copy EXCEPT ![Home[q]] = d] /\ row' = row
        /\ unlanded' = [unlanded EXCEPT ![Home[q]] = u] /\ ops' = ops /\ lock' = lock
        /\ req' = [req EXCEPT ![q] = e]
    BY TypesOf DEF Reread, Here
  <1>5. Own(req[q].pc, req[q].snap, c, u)
    BY TypesOf
  <1> HIDE DEF c, d, s, u
  <1>6. e \in Request /\ e.pc = "write" /\ e.snap = s
    BY <1>1, <1>3 DEF Request, PCs
  <1> HIDE DEF e
  <1>7. Own("write", s, d, u)
    BY <1>1, <1>2, <1>5 DEF Own, Told, Writing, s
  <1>8. Fits("write", s, d, row)
    BY <1>1, <1>2 DEF Fits, Row
  <1>9. Confined(q, row, d, e, u)
    BY <1>4, TypesOf DEF Confined
  <1> QED
    BY <1>1, <1>2, <1>6, <1>7, <1>8, <1>9, StepKeeps

LEMMA SettleKeeps ==
    ASSUME RecordInv, OnePerReplica, NEW q \in Requests, Settle(q)
    PROVE  RecordInv'
  <1> DEFINE c == copy[Home[q]]
             s == req[q].snap
             d == Settled(c, s)
             u == unlanded[Home[q]]
             e == [Idle EXCEPT !.pc = "held"]
  <1>1. c \in Copy /\ c # None /\ u \in Change /\ req[q].pc = "settle"
        /\ row \in Row \cup {None}
    BY CopyIsThere, TypesOf DEF Settle, At
  <1>2. Own("settle", s, c, u) /\ Fits("settle", s, c, row)
    BY <1>1, TypesOf
  <1>3. /\ copy' = [copy EXCEPT ![Home[q]] = d] /\ row' = row
        /\ unlanded' = [unlanded EXCEPT ![Home[q]] = u] /\ ops' = ops
        /\ req' = [req EXCEPT ![q] = e]
        /\ lock' \in [Replicas -> Requests \cup {None}]
    BY TypesOf DEF Settle, Here, Release
  <1>4. e \in Request /\ e.pc = "held" /\ e.snap = None
    BY IdleFacts
  <1> HIDE DEF c, s, u, e
  <1>5. /\ s = SnapshotOf(c) /\ u = NoChange /\ c.dirty # {}
        /\ "attributes" \notin c.dirty => c.attrOps = NoOps
    BY <1>1, <1>2 DEF Own, Told, Writing
  <1>6. /\ s \in Snap /\ s.written = c.dirty
        /\ s.guard \in {c.version, None}
        /\ s.guard = None => /\ s.version = c.version
                             /\ "userId" \notin c.dirty
                             /\ "attributes" \notin c.dirty
    BY <1>1, <1>5, SnapshotFacts
  <1>7. s.version \in Nat /\ NoOps \in AttrOps
    BY <1>6, ReplayFacts DEF Snap
  <1>8. d \in Copy /\ d # None
    <2>1. d \in Copy
      BY <1>1, <1>5, <1>6, <1>7 DEF Settled, Copy
    <2> QED
      BY <2>1, NoneFacts
  <1>9. d.dirty = {} /\ d.attrOps = NoOps /\ d.userId = c.userId
        /\ d.attributes = c.attributes /\ d.version = s.version
    BY <1>1, <1>5, <1>6 DEF Settled, Copy
  <1> HIDE DEF d
  <1>10. NoChange.attributes = NoOps /\ NoChange.user = None
    BY DEF NoChange
  <1>11. \A k \in Keys : NoOps[k] = Keep
    BY DEF NoOps
  <1>12. Own("held", None, d, u)
    BY <1>5, <1>8, <1>9, <1>10, <1>11 DEF Own, Told, Writing
  <1>13. Fits("held", None, d, row)
    <2> SUFFICES ASSUME row # None
                 PROVE  Fits("held", None, d, row)
      BY DEF Fits
    <2>1. row.version \in Nat /\ row.attributes \in Attributes /\ c.version \in Nat
      BY <1>1 DEF Row, Copy
    <2>2. replayAttributeOps(row.attributes, NoOps) = row.attributes
      BY <2>1, ReplayFacts
    <2>3. CASE s.guard = None
      BY <1>1, <1>2, <1>5, <1>6, <1>9, <2>1, <2>2, <2>3 DEF Fits, SameState
    <2>4. CASE s.guard # None
      BY <1>1, <1>2, <1>9, <2>1, <2>2, <2>4 DEF Fits, SameState
    <2> QED
      BY <2>3, <2>4
  <1>14. Confined(q, row, d, e, u)
    BY <1>3, TypesOf DEF Confined
  <1> QED
    BY <1>1, <1>4, <1>8, <1>12, <1>13, <1>14, StepKeeps
-----------------------------------------------------------------------------
(* The theorems that need one request at a time on a replica.              *)

LEMMA InitKeeps ==
    ASSUME Init
    PROVE  RecordInv
  <1>1. row \in Row /\ row \in Row \cup {None}
    BY DEF Init, Row, Attributes
  <1>2. NoChange \in Change /\ Idle \in Request /\ Idle.pc = "idle"
    BY ReplayFacts, IdleFacts DEF NoChange, Change
  <1>3. TypeOK
    BY <1>1, <1>2 DEF Init, TypeOK
  <1>4. ASSUME NEW q \in Requests
        PROVE  RequestOK(q)
    <2>1. req[q] = Idle /\ copy[Home[q]] = None /\ unlanded[Home[q]] = NoChange
      BY HomeAssumption DEF Init
    <2> QED
      BY <1>2, <2>1 DEF RequestOK, Own, Fits
  <1>5. ASSUME NEW r \in Replicas
        PROVE  copy[r] = None
    BY DEF Init
  <1> QED
    BY <1>3, <1>4, <1>5 DEF RecordInv

LEMMA DeleteRowKeeps ==
    ASSUME RecordInv, DeleteRow
    PROVE  RecordInv'
  <1>1. TypeOK'
    BY DEF RecordInv, TypeOK, DeleteRow
  <1>2. ASSUME NEW q \in Requests
        PROVE  RequestOK(q)'
    <2>1. /\ req' = req /\ copy' = copy /\ unlanded' = unlanded /\ row' = None
      BY DEF DeleteRow
    <2> QED
      BY <2>1, TypesOf DEF RequestOK, Fits
  <1> QED
    BY <1>1, <1>2 DEF RecordInv, DeleteRow

LEMMA StutterKeeps ==
    ASSUME RecordInv, UNCHANGED vars
    PROVE  RecordInv'
  <1>1. TypeOK'
    BY DEF RecordInv, TypeOK, vars
  <1>2. ASSUME NEW q \in Requests
        PROVE  RequestOK(q)'
    BY DEF RecordInv, RequestOK, vars
  <1> QED
    BY <1>1, <1>2 DEF RecordInv, vars

LEMMA OperateKeeps ==
    ASSUME RecordInv, OnePerReplica, NEW q \in Requests, Operate(q)
    PROVE  RecordInv'
  <1>1. CASE Resolve(q)
    BY <1>1, ResolveKeeps
  <1>2. CASE GetSession(q)
    <2>1. ops' \in Nat /\ req[q].pc \in {"held", "find"}
      BY <1>2, TypesOf DEF GetSession, FindRow, At
    <2> QED
      BY <1>2, <2>1, FindRowKeeps DEF GetSession
  <1>3. CASE EndRequest(q)
    BY <1>3, EndRequestKeeps
  <1>4. CASE AddSession(q)
    <2>1. ops' \in Nat /\ req[q].pc \in {"held", "find"}
      BY <1>4, TypesOf DEF AddSession, FindRow, At
    <2> QED
      BY <1>4, <2>1, FindRowKeeps DEF AddSession
  <1>5. CASE MarkAllDirty(q)
    BY <1>5, MarkAllDirtyKeeps
  <1>6. CASE \E u \in Users : SetUserId(q, u)
    BY <1>6, SetUserIdKeeps
  <1>7. CASE \E k \in Keys : ClearItem(q, k) \/ \E v \in Values : SetItem(q, k, v)
    <2>1. ASSUME NEW k \in Keys, NEW v \in Values \cup {None}
          PROVE  [NoOps EXCEPT ![k] = v] \in AttrOps
      BY ReplayFacts DEF AttrOps
    <2> QED
      BY <1>7, <2>1, ChangeItemsKeeps DEF ClearItem, SetItem
  <1>8. CASE ClearItems(q)
    <2>1. [k \in Keys |-> None] \in AttrOps
      BY DEF AttrOps
    <2> QED
      BY <1>8, <2>1, ChangeItemsKeeps DEF ClearItems
  <1>9. CASE Heartbeat(q)
    BY <1>9, HeartbeatKeeps
  <1> QED
    BY <1>1, <1>2, <1>3, <1>4, <1>5, <1>6, <1>7, <1>8, <1>9 DEF Operate

LEMMA PersistKeeps ==
    ASSUME RecordInv, OnePerReplica, NEW q \in Requests, Persist(q)
    PROVE  RecordInv'
  BY SaveKeeps, WriteKeeps, WriteLostKeeps, FailuresKeep, MissesKeep, RereadKeeps,
     SettleKeeps DEF Persist

LEMMA NextKeeps ==
    ASSUME RecordInv, OnePerReplica, [Next]_vars
    PROVE  RecordInv'
  BY OperateKeeps, PersistKeeps, DeleteRowKeeps, StutterKeeps DEF Next

\* While each replica runs one request at a time, the inductive invariant holds
\* for every number of replicas, users, keys and values.
THEOREM RecordInvariant ==
    ASSUME OnePerReplica
    PROVE  Spec => []RecordInv
  BY InitKeeps, NextKeeps, PTL DEF Spec

\* A copy at the row's version agrees with the row but for what it still has to
\* write: comparing versions is comparing contents (Snapshot).
THEOREM VersionStandsForContents ==
    ASSUME OnePerReplica
    PROVE  Spec => []SameVersionSameState
  <1>1. RecordInv => SameVersionSameState
    <2> SUFFICES ASSUME RecordInv, NEW r \in Replicas, copy[r] # None, row # None,
                        copy[r].version = row.version
                 PROVE  SameState(copy[r], row)
      BY DEF SameVersionSameState, SameState
    <2>1. PICK q \in Requests : r = Home[q]
      BY DEF RecordInv
    <2>2. Fits(req[q].pc, req[q].snap, copy[r], row)
      BY <2>1, TypesOf
    <2> QED
      BY <2>2 DEF Fits
  <1> QED
    BY <1>1, RecordInvariant, PTL

\* A setter nobody was told failed is in the row (UpdateSession).
THEOREM AcknowledgedIsInTheRow ==
    ASSUME OnePerReplica
    PROVE  Spec => []AcknowledgedIsWritten
  <1>1. RecordInv => AcknowledgedIsWritten
    <2> SUFFICES ASSUME RecordInv, NEW r \in Replicas, copy[r] # None, ~copy[r].failed,
                        \A q \in Requests :
                           Home[q] = r => req[q].pc \in {"idle", "held", "find"}
                 PROVE  unlanded[r] = NoChange
      BY DEF AcknowledgedIsWritten
    <2>1. PICK q \in Requests : r = Home[q]
      BY DEF RecordInv
    <2>2. Own(req[q].pc, req[q].snap, copy[r], unlanded[r])
      BY <2>1, TypesOf
    <2> QED
      BY <2>1, <2>2 DEF Own, Told
  <1> QED
    BY <1>1, RecordInvariant, PTL

\* A key of the bag gets a new value only from a change that waits to be written.
LEMMA LandKeepsForeign ==
    ASSUME RecordInv, NEW q \in Requests, Land(q), NEW k \in Keys,
           row'.attributes[k] # row.attributes[k]
    PROVE  unlanded[Home[q]].attributes[k] # Keep
  <1> DEFINE c == copy[Home[q]]
             s == req[q].snap
             u == unlanded[Home[q]]
  <1>1. c \in Copy /\ c # None /\ s = SnapshotOf(c) /\ row \in Row
        /\ s.guard # None /\ row.version = c.version
    BY LandFacts
  <1>2. req[q].pc = "write" /\ row' = Written(s)
    BY DEF Land, At
  <1>3. Own("write", s, c, u) /\ Fits("write", s, c, row)
    BY <1>2, TypesOf
  <1>4. row # None
    BY <1>1, NoneFacts
  <1> HIDE DEF c, s, u
  <1>5. s.attributes = c.attributes /\ s.written = c.dirty
    BY <1>1, SnapshotFacts
  <1>6. c.attributes = replayAttributeOps(row.attributes, c.attrOps)
    BY <1>1, <1>3, <1>4 DEF Fits, SameState
  <1>7. row'.attributes = c.attributes
    BY <1>2, <1>3, <1>1, <1>5 DEF Written, Own, Told
  <1>8. c.attrOps[k] # Keep
    BY <1>6, <1>7 DEF replayAttributeOps
  <1> QED
    BY <1>1, <1>3, <1>8 DEF Own, u

\* A write gives a key a new value only for a change of its own replica, and
\* moves the version one up (persistReconciling).
THEOREM ForeignChangesKept ==
    ASSUME OnePerReplica
    PROVE  Spec => KeepsForeignChanges
  <1>1. ASSUME RecordInv, [Next]_vars, row # None, row' # None
        PROVE  /\ \A k \in Keys :
                    row'.attributes[k] # row.attributes[k]
                    => \E q \in Requests : /\ At(q, "write")
                                           /\ ~At(q, "write")'
                                           /\ unlanded[Home[q]].attributes[k] # Keep
               /\ row'.version = row.version + 1 \/ row' = row
    <2>1. CASE row' = row
      BY <2>1
    <2>2. CASE row' # row
      <3>1. PICK q \in Requests : Write(q) \/ WriteLost(q)
        <4>1. ~DeleteRow /\ ~UNCHANGED vars
          BY <1>1, <2>2 DEF DeleteRow, vars
        <4>2. ASSUME NEW q \in Requests, Operate(q)
              PROVE  row' = row
          BY <4>2 DEF Operate, Resolve, GetSession, EndRequest, AddSession, MarkAllDirty,
               SetUserId, ClearItem, SetItem, ClearItems, ChangeItems, Heartbeat, FindRow
        <4>3. ASSUME NEW q \in Requests, Persist(q)
              PROVE  Write(q) \/ WriteLost(q)
          BY <4>3, <2>2 DEF Persist, Save, WriteFails, WriteMisses, ProbeFails,
               ProbeConflict, Reread, RereadFails, Settle
        <4> QED
          BY <1>1, <2>2, <4>1, <4>2, <4>3 DEF Next
      <3>2. Land(q)
        BY <3>1 DEF Write, WriteLost
      <3>3. At(q, "write")
        BY <3>2 DEF Land
      <3>4. req'[q].pc # "write"
        <4>1. req \in [Requests -> Request]
          BY <1>1, TypesOf
        <4>2. CASE Write(q)
          BY <1>1, <4>1, <4>2, MoveFacts DEF Write, Goto, PCs
        <4>3. CASE WriteLost(q)
          BY <4>1, <4>3, IdleFacts DEF WriteLost, Fail
        <4> QED
          BY <3>1, <4>2, <4>3
      <3>5. row'.version = row.version + 1
        BY <1>1, <2>2, <3>2, LandFacts
      <3> QED
        BY <1>1, <3>2, <3>3, <3>4, <3>5, LandKeepsForeign DEF At
    <2> QED
      BY <2>1, <2>2
  <1> QED
    BY <1>1, RecordInvariant, PTL DEF Spec, KeepsForeignChanges
-----------------------------------------------------------------------------
(* Types, with any number of requests on a replica.                        *)

\* Once its session is resolved, a request has a copy; once it saves, a snapshot.
Equipped(q) ==
    /\ req[q].pc \notin {"idle", "find"} => copy[Home[q]] # None
    /\ req[q].pc \in Writing => req[q].snap # None

TypedInv == TypeOK /\ \A q \in Requests : Equipped(q)

\* A copy that is there stays there, and the others' requests are untouched.
LEMMA StepStaysTyped ==
    ASSUME TypedInv, NEW q \in Requests, NEW e \in Request,
           NEW d \in Copy \cup {None}, NEW u \in Change, Confined(q, row', d, e, u),
           row' \in Row \cup {None}, d = None => copy[Home[q]] = None,
           e.pc \notin {"idle", "find"} => d # None,
           e.pc \in Writing => e.snap # None
    PROVE  TypedInv'
  <1> USE HomeAssumption
  <1>1. TypeOK'
    BY DEF TypedInv, TypeOK, Confined
  <1>2. ASSUME NEW p \in Requests
        PROVE  Equipped(p)'
    <2>1. CASE p = q
      BY <2>1 DEF TypedInv, TypeOK, Confined, Equipped
    <2>2. CASE p # q
      BY <2>2 DEF TypedInv, TypeOK, Confined, Equipped
    <2> QED
      BY <2>1, <2>2
  <1> QED
    BY <1>1, <1>2 DEF TypedInv

LEMMA PartsTyped ==
    ASSUME TypedInv, NEW q \in Requests
    PROVE  /\ row \in Row \cup {None} /\ copy[Home[q]] \in Copy \cup {None}
           /\ req[q] \in Request /\ unlanded[Home[q]] \in Change
           /\ lock \in [Replicas -> Requests \cup {None}] /\ ops \in Nat
           /\ Home[q] \in Replicas
           /\ req \in [Requests -> Request]
           /\ copy \in [Replicas -> Copy \cup {None}]
           /\ unlanded \in [Replicas -> Change]
           /\ req[q].pc \notin {"idle", "find"} => copy[Home[q]] \in Copy /\ copy[Home[q]] # None
           /\ req[q].pc \in Writing => req[q].snap \in Snap /\ req[q].snap # None
           /\ copy' = copy => copy' = [copy EXCEPT ![Home[q]] = copy[Home[q]]]
           /\ unlanded' = unlanded => unlanded' = [unlanded EXCEPT ![Home[q]] = unlanded[Home[q]]]
  BY HomeAssumption DEF TypedInv, Equipped, TypeOK, Request

LEMMA MoveTyped ==
    ASSUME TypedInv, NEW q \in Requests, NEW p \in PCs, Goto(q, p)
    PROVE  \E e \in Request : e.pc = p /\ e.snap = req[q].snap /\ req' = [req EXCEPT ![q] = e]
  <1> DEFINE e == [req[q] EXCEPT !.pc = p]
  <1>1. req \in [Requests -> Request]
    BY PartsTyped
  <1>2. e \in Request /\ e.pc = p /\ e.snap = req[q].snap /\ req' = [req EXCEPT ![q] = e]
    BY <1>1 DEF Request, Goto
  <1> QED
    BY <1>2

LEMMA OperateTyped ==
    ASSUME TypedInv, NEW q \in Requests, Operate(q)
    PROVE  TypedInv'
  <1> DEFINE c == copy[Home[q]]
             u == unlanded[Home[q]]
  <1>1. ASSUME NEW p \in PCs, Goto(q, p), NEW d \in Copy \cup {None}, NEW w \in Change,
               row' = row, lock' = lock, ops' \in Nat,
               copy' = [copy EXCEPT ![Home[q]] = d], unlanded' = [unlanded EXCEPT ![Home[q]] = w],
               d = None => c = None,
               p \notin {"idle", "find"} => d # None, p \notin Writing
        PROVE  TypedInv'
    <2>1. PICK e \in Request : e.pc = p /\ req' = [req EXCEPT ![q] = e]
      BY <1>1, MoveTyped
    <2>2. Confined(q, row', d, e, w)
      BY <1>1, <2>1, PartsTyped DEF Confined
    <2> QED
      BY <1>1, <2>1, <2>2, PartsTyped, StepStaysTyped
  <1>2. Count => ops' \in Nat
    BY PartsTyped DEF Count
  <1>3. CASE Resolve(q)
    <2>1. "find" \in PCs /\ "find" \notin Writing
      BY DEF PCs, Writing
    <2> QED
      BY <1>1, <1>2, <1>3, <2>1, PartsTyped DEF Resolve
  <1>4. ASSUME NEW p \in {"held", "mark"}, FindRow(q, p)
        PROVE  TypedInv'
    <2> DEFINE d == IF c = None THEN Loaded ELSE Adopted(c)
    <2>1. row \in Row /\ c \in Copy \cup {None} /\ ops \in Nat
      BY <1>4, PartsTyped DEF FindRow
    <2>2. d \in Copy /\ d # None
      BY <2>1, LoadedFacts, AdoptedFacts
    <2>3. copy' = [copy EXCEPT ![Home[q]] = d]
      BY <1>4, PartsTyped DEF FindRow, Here
    <2>4. p \in PCs /\ p \notin Writing
      BY DEF PCs, Writing
    <2>5. row' = row /\ lock' = lock /\ ops' = ops /\ unlanded' = unlanded /\ Goto(q, p)
      BY <1>4 DEF FindRow
    <2> HIDE DEF d
    <2> QED
      BY <1>1, <2>1, <2>2, <2>3, <2>4, <2>5, PartsTyped
  <1>5. CASE EndRequest(q)
    <2>1. Confined(q, row', c, Idle, u)
      BY <1>5, PartsTyped DEF EndRequest, Confined
    <2> QED
      BY <1>5, <2>1, PartsTyped, IdleFacts, StepStaysTyped DEF EndRequest, Writing
  <1>6. ASSUME NEW d \in Copy, NEW w \in Change, Count, Goto(q, "save"),
               row' = row, lock' = lock, copy' = [copy EXCEPT ![Home[q]] = d],
               unlanded' = [unlanded EXCEPT ![Home[q]] = w]
        PROVE  TypedInv'
    <2>1. "save" \in PCs /\ "save" \notin Writing
      BY DEF PCs, Writing
    <2> QED
      BY <1>1, <1>2, <1>6, <2>1, NoneFacts
  <1>7. CASE MarkAllDirty(q)
    <2>1. c \in Copy /\ c # None /\ u \in Change
      BY <1>7, PartsTyped DEF MarkAllDirty, At
    <2>2. [c EXCEPT !.dirty = Columns] \in Copy
      BY <2>1 DEF Copy
    <2>3. copy' = [copy EXCEPT ![Home[q]] = [c EXCEPT !.dirty = Columns]]
      BY <1>7, PartsTyped DEF MarkAllDirty, Here
    <2> QED
      BY <1>6, <1>7, <2>1, <2>2, <2>3, PartsTyped DEF MarkAllDirty
  <1>8. CASE Heartbeat(q)
    <2> DEFINE d == [c EXCEPT !.dirty = @ \cup {"beat"}]
    <2>1. c \in Copy /\ c # None /\ u \in Change
      BY <1>8, PartsTyped DEF Heartbeat, At
    <2>2. d \in Copy
      BY <2>1 DEF Copy, Columns
    <2>3. copy' = [copy EXCEPT ![Home[q]] = d]
      BY <1>8, PartsTyped DEF Heartbeat, Here
    <2> HIDE DEF d
    <2> QED
      BY <1>6, <1>8, <2>1, <2>2, <2>3, PartsTyped DEF Heartbeat
  <1>9. ASSUME NEW v \in Users, SetUserId(q, v)
        PROVE  TypedInv'
    <2> DEFINE d == [c EXCEPT !.userId = v, !.dirty = @ \cup {"userId"}]
               w == [u EXCEPT !.user = v]
    <2>1. c \in Copy /\ c # None /\ u \in Change
      BY <1>9, PartsTyped DEF SetUserId, At
    <2>2. d \in Copy /\ w \in Change
      BY <2>1 DEF Copy, Columns, Change
    <2>3. copy' = [copy EXCEPT ![Home[q]] = d]
      BY <1>9, PartsTyped DEF SetUserId, Here
    <2>4. unlanded' = [unlanded EXCEPT ![Home[q]] = w]
      BY <1>9, PartsTyped DEF SetUserId, Here
    <2> HIDE DEF d, w
    <2> QED
      BY <1>6, <1>9, <2>2, <2>3, <2>4 DEF SetUserId
  <1>10. ASSUME NEW entry \in AttrOps, ChangeItems(q, entry)
         PROVE  TypedInv'
    <2> DEFINE bag == replayAttributeOps(c.attributes, entry)
               log == replayAttributeOps(c.attrOps, entry)
               left == replayAttributeOps(u.attributes, entry)
               d == [c EXCEPT !.attributes = bag, !.attrOps = log,
                              !.dirty = @ \cup {"attributes"}]
               w == [u EXCEPT !.attributes = left]
    <2>1. c \in Copy /\ c # None /\ u \in Change
      BY <1>10, PartsTyped DEF ChangeItems, At
    <2>2. bag \in Attributes /\ log \in AttrOps /\ left \in AttrOps
      BY <2>1, ReplayFacts DEF Copy, Change
    <2>3. copy' = [copy EXCEPT ![Home[q]] = d]
      BY <1>10, PartsTyped DEF ChangeItems, Here
    <2>4. unlanded' = [unlanded EXCEPT ![Home[q]] = w]
      BY <1>10, PartsTyped DEF ChangeItems, Here
    <2> HIDE DEF bag, log, left
    <2>5. d \in Copy /\ w \in Change
      BY <2>1, <2>2 DEF Copy, Columns, Change
    <2> HIDE DEF d, w
    <2> QED
      BY <1>6, <1>10, <2>3, <2>4, <2>5 DEF ChangeItems
  <1>11. [k \in Keys |-> None] \in AttrOps
         /\ \A k \in Keys, v \in Values \cup {None} : [NoOps EXCEPT ![k] = v] \in AttrOps
    BY ReplayFacts DEF AttrOps
  <1> QED
    BY <1>3, <1>4, <1>5, <1>7, <1>8, <1>9, <1>10, <1>11
       DEF Operate, GetSession, AddSession, ClearItem, SetItem, ClearItems

LEMMA PersistTyped ==
    ASSUME TypedInv, NEW q \in Requests, Persist(q)
    PROVE  TypedInv'
  <1> DEFINE c == copy[Home[q]]
             s == req[q].snap
             u == unlanded[Home[q]]
  <1>1. CASE Save(q) \/ Reread(q)
    <2> DEFINE d == IF Save(q) THEN c ELSE Adopted(c)
               e == [pc |-> "write", tries |-> IF Save(q) THEN 0 ELSE req[q].tries + 1,
                     snap |-> SnapshotOf(d)]
    <2>1. c \in Copy /\ c # None /\ (~Save(q) => row \in Row) /\ req[q].tries \in Nat
      BY <1>1, PartsTyped DEF Save, Reread, At, Request
    <2>2. d \in Copy /\ d # None
      BY <2>1, AdoptedFacts
    <2>3. e \in Request /\ e.pc = "write" /\ e.snap # None
      BY <2>1, <2>2, SnapshotFacts DEF Request, PCs
    <2>4. /\ copy' = [copy EXCEPT ![Home[q]] = d] /\ row' = row /\ ops' = ops
          /\ unlanded' = unlanded /\ req' = [req EXCEPT ![q] = e]
          /\ lock' \in [Replicas -> Requests \cup {None}]
      <3>1. CASE Save(q)
        BY <3>1, PartsTyped DEF Save, Here, Acquire
      <3>2. CASE ~Save(q)
        <4>1. Reread(q)
          BY <1>1, <3>2
        <4> QED
          BY <3>2, <4>1, PartsTyped DEF Reread, Here
      <3> QED
        BY <3>1, <3>2
    <2> HIDE DEF d, e
    <2>5. Confined(q, row', d, e, u)
      BY <2>4, PartsTyped DEF Confined
    <2> QED
      BY <2>2, <2>3, <2>4, <2>5, PartsTyped, StepStaysTyped
  <1>2. ASSUME Land(q)
        PROVE  row' \in Row
    <2>1. s \in Snap /\ row \in Row
      BY <1>2, PartsTyped DEF Land, At, Matches, Writing
    <2> HIDE DEF s
    <2>2. Written(s) \in Row
      BY <2>1 DEF Written, Row, Snap
    <2> QED
      BY <1>2, <2>2 DEF Land, s
  <1>3. CASE Write(q) \/ WriteMisses(q) \/ ProbeConflict(q)
    <2> DEFINE p == IF Write(q) THEN "settle" ELSE IF WriteMisses(q) THEN "probe" ELSE "reread"
               w == IF Write(q) THEN Remaining(u, s) ELSE u
    <2>1. p \in PCs /\ Goto(q, p) /\ copy' = copy /\ lock' = lock /\ ops' = ops
          /\ p \in Writing /\ req[q].pc \in Writing
      BY <1>3 DEF Write, WriteMisses, ProbeConflict, PCs, Writing, Land, At
    <2>2. row' \in Row \cup {None}
      BY <1>2, <1>3, PartsTyped DEF Write, WriteMisses, ProbeConflict
    <2>3. u \in Change /\ unlanded' = [unlanded EXCEPT ![Home[q]] = w]
      BY <1>3, PartsTyped DEF Write, WriteMisses, ProbeConflict, Here
    <2>4. Remaining(u, s) \in Change
      <3> HIDE DEF u, s
      <3> QED
        BY <2>3 DEF Remaining, Change, AttrOps
    <2>5. PICK e \in Request : e.pc = p /\ e.snap = s /\ req' = [req EXCEPT ![q] = e]
      BY <2>1, MoveTyped
    <2>6. w \in Change
      BY <2>3, <2>4
    <2> HIDE DEF w, p
    <2>7. Confined(q, row', c, e, w)
      BY <2>1, <2>3, <2>5, PartsTyped DEF Confined
    <2> QED
      BY <2>1, <2>2, <2>5, <2>6, <2>7, PartsTyped, StepStaysTyped DEF Writing
  <1>4. ASSUME NEW d \in Copy, row' \in Row \cup {None}, UNCHANGED <<ops, unlanded>>,
               copy' = [copy EXCEPT ![Home[q]] = d], Release(q),
               req' = [req EXCEPT ![q] = [Idle EXCEPT !.pc = "held"]]
        PROVE  TypedInv'
    <2> DEFINE e == [Idle EXCEPT !.pc = "held"]
    <2>1. e \in Request /\ e.pc = "held" /\ req' = [req EXCEPT ![q] = e]
      BY <1>4, IdleFacts
    <2> HIDE DEF e
    <2>2. Confined(q, row', d, e, u)
      BY <1>4, <2>1, PartsTyped DEF Confined, Release, Here
    <2> QED
      BY <1>4, <2>1, <2>2, PartsTyped, NoneFacts, StepStaysTyped DEF Writing
  <1>5. CASE WriteLost(q) \/ WriteFails(q) \/ ProbeFails(q) \/ RereadFails(q)
    <2> DEFINE d == [c EXCEPT !.failed = TRUE]
    <2>1. Fail(q) /\ req[q].pc \in Writing /\ UNCHANGED <<ops, unlanded>>
      BY <1>5 DEF WriteLost, Land, WriteFails, ProbeFails, RereadFails, At, Writing
    <2>2. row' \in Row \cup {None}
      BY <1>2, <1>5, PartsTyped DEF WriteLost, WriteFails, ProbeFails, RereadFails
    <2>3. c \in Copy
      BY <2>1, PartsTyped DEF Writing
    <2>4. d \in Copy
      BY <2>3 DEF Copy
    <2>5. copy' = [copy EXCEPT ![Home[q]] = d]
      BY <2>1, PartsTyped DEF Fail, Here
    <2> HIDE DEF d
    <2> QED
      BY <1>4, <2>1, <2>2, <2>4, <2>5 DEF Fail
  <1>6. CASE Settle(q)
    <2> DEFINE d == Settled(c, s)
    <2>1. c \in Copy /\ s \in Snap
      BY <1>6, PartsTyped DEF Settle, At, Writing
    <2>2. d \in Copy
      <3> HIDE DEF c, s
      <3> QED
        BY <2>1, ReplayFacts DEF Settled, Copy, Snap
    <2>3. copy' = [copy EXCEPT ![Home[q]] = d]
      BY <1>6, PartsTyped DEF Settle, Here
    <2> HIDE DEF d
    <2> QED
      BY <1>4, <1>6, <2>2, <2>3, PartsTyped DEF Settle
  <1> QED
    BY <1>1, <1>3, <1>5, <1>6 DEF Persist

\* The parts of the record, its copies and its requests keep their types, with
\* any number of requests on each replica.
THEOREM RecordTyped == Spec => []TypeOK
  <1>1. Init => TypedInv
    <2> SUFFICES ASSUME Init
                 PROVE  TypedInv
      OBVIOUS
    <2>1. RecordInv
      BY InitKeeps
    <2> QED
      BY <2>1, HomeAssumption, IdleFacts DEF Init, RecordInv, TypedInv, Equipped, Writing
  <1>2. TypedInv /\ [Next]_vars => TypedInv'
    <2> SUFFICES ASSUME TypedInv, [Next]_vars
                 PROVE  TypedInv'
      OBVIOUS
    <2>1. CASE DeleteRow
      BY <2>1 DEF DeleteRow, TypedInv, TypeOK, Equipped
    <2>2. CASE UNCHANGED vars
      BY <2>2 DEF vars, TypedInv, TypeOK, Equipped
    <2> QED
      BY <2>1, <2>2, OperateTyped, PersistTyped DEF Next
  <1>3. TypedInv => TypeOK
    BY DEF TypedInv
  <1> QED
    BY <1>1, <1>2, <1>3, PTL DEF Spec
=============================================================================
