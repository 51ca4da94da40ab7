------------------------- MODULE AuthStrategyProofs -------------------------
(***************************************************************************)
(* Proofs about AuthStrategy, for any number of requests and identifiers,  *)
(* and about the chain of filters that a request goes through              *)
(* (HttpDispatch), for any application.                                    *)
(*                                                                         *)
(* A login is an identity that moves: a request that found its row revokes *)
(* the row and carries the identity to a new one.  So an identity is in    *)
(* one row or in the hands of one request, never in both (OneCarrier);     *)
(* this needs that the row a request is about to revoke still holds what   *)
(* the request read there (RequestOK), which holds because a row is        *)
(* written only by the request that is creating it, before any response    *)
(* has shown its identifier (NewIsOwn), while what a request reads or      *)
(* rotates has been shown.  An identity that is being logged in, or could  *)
(* not be, is stored under its own identifier or nowhere (PrivateIsOwn).   *)
(*                                                                         *)
(* Confined says what a step of one request may do to the rows, to the     *)
(* identity it holds and to the session it is creating; every operation is *)
(* shown to be confined, and the theorems follow from that.                *)
(*                                                                         *)
(* HttpIInv follows a request along the chain: the filters behind it that  *)
(* cover its path have kept their promises (PromisesKeptBy), and a later   *)
(* filter only adds to the request's session and its CORS headers, so a    *)
(* promise once kept is kept for good (PromiseStays).  The filter that     *)
(* rewrites the path could uncover one it has passed: RewritesFirst says   *)
(* it stands before the guards that are scoped by path.                    *)
(***************************************************************************)
EXTENDS AuthStrategy, HttpDispatch, FiniteSetTheorems, SequenceTheorems, WellFoundedInduction, TLAPS

\* What a request holds depends on where it is.  What it names, old and given, is an id some
\* response has shown; the session it would rotate is still the one it read, or gone.
RequestOK(r, rows, sh) ==
    /\ r.sid \in sh \cup {None} /\ r.old \in sh \cup {None}
    /\ r.cookie \in sh \cup {None, Keep}
    /\ r.pc \in {"idle", "resolve", "logout", "reply"}
       => r.new = None /\ r.who = Nobody /\ r.old = None
    /\ r.pc = "resolve" => r.goal \in {"visit", "enter"}
    /\ r.pc = "revoke" => /\ r.old # None /\ r.new = None /\ r.goal # "anonymous"
                          /\ rows[r.old] \in {r.who, None}
    /\ r.pc = "mint" => r.new = None /\ (r.goal = "anonymous" => r.who = Nobody /\ r.old = None)
    /\ r.pc = "carry" => r.new # None /\ r.goal # "anonymous"
    /\ r.pc \in {"authenticate", "persist", "undo"} => r.new # None /\ r.goal = "login"

\* A session that is being created belongs to one request, and nobody was shown its id.
NewIsOwn ==
    \A q \in Requests :
        req[q].new # None =>
            /\ req[q].new \in minted \ (shown \cup failed)
            /\ \A p \in Requests : p # q => req[p].new # req[q].new

\* An identity that is being logged in, or could not be, is stored under its own id or nowhere,
\* and no request has read it.
Private(w) == w \in failed \/ \E q \in Requests : req[q].new = w
PrivateIsOwn ==
    \A w \in Ids : Private(w) =>
        /\ w \notin shown
        /\ \A id \in Ids : row[id] = w => id = w
        /\ \A q \in Requests : req[q].who # w

\* Identities are names of ids that were minted.
NamesMinted ==
    /\ \A id \in Ids : row[id] \in minted \cup {Nobody, None}
    /\ \A q \in Requests : req[q].who \in minted \cup {Nobody}

\* An identity is stored once, or one request has it in its hands.
Carries(q, w) == req[q].pc \in {"mint", "carry"} /\ req[q].who = w
OneCarrier ==
    /\ OneRowPerLogin
    /\ \A q \in Requests, w \in Ids : Carries(q, w) =>
          /\ \A id \in Ids : row[id] # w
          /\ \A p \in Requests : Carries(p, w) => p = q

AuthInv ==
    /\ TypeOK
    /\ jar \in shown \cup {None}
    /\ \A q \in Requests : RequestOK(req[q], row, shown)
    /\ NewIsOwn /\ PrivateIsOwn /\ NamesMinted /\ OneCarrier

-----------------------------------------------------------------------------
(* What a step of one request may change.                                  *)

\* What a step of request q, which leaves it at r, may do to the rows.
RowMoves(q, r) ==
    \A id \in Ids :
        \/ row'[id] \in {row[id], None}
        \/ id \notin minted /\ id \in minted' /\ row'[id] = Nobody
        \/ /\ id = req[q].new /\ row'[id] = req[q].who
           /\ req[q].pc = "carry" /\ (r.pc \in {"mint", "carry"} => r.who = Nobody)
        \/ id = req[q].new /\ row'[id] = id /\ req[q].pc = "authenticate"

\* Where the identity comes from that it holds then.
WhoMoves(q, r) ==
    /\ \/ r.who = Nobody
       \/ r.who = req[q].who
       \/ \E id \in shown : row[id] = r.who
    /\ r.pc \in {"mint", "carry"} /\ r.who \in Ids =>
          /\ r.who = req[q].who
          /\ \/ req[q].pc \in {"mint", "carry"}
             \/ \E id \in Ids : row[id] = r.who /\ row' = [row EXCEPT ![id] = None]

\* And the session it is creating then.
NewMoves(q, r) ==
    /\ r.new # None =>
          /\ \/ r.new = req[q].new /\ r.goal = req[q].goal
             \/ r.new \in minted' \ minted
          /\ r.new \notin shown' \cup failed'
    /\ shown' \subseteq shown \cup (minted' \ minted) \cup {req[q].new}
    /\ failed' \subseteq failed \cup {req[q].new}
    /\ shown' \cap failed' \subseteq shown \cap failed

Confined(q, r) ==
    /\ r \in Request
    /\ req' = [req EXCEPT ![q] = r]
    /\ row' \in [Ids -> Principals \cup {None}]
    /\ owed' \subseteq Ids /\ faults' \in 0..MaxFaults
    /\ minted \subseteq minted' /\ minted' \subseteq Ids
    /\ shown \subseteq shown' /\ shown' \subseteq minted'
    /\ failed \subseteq failed' /\ failed' \subseteq minted'
    /\ jar' \in shown' \cup {None}
    /\ RequestOK(r, row', shown')
    /\ RowMoves(q, r) /\ WhoMoves(q, r) /\ NewMoves(q, r)

LEMMA NotAnId == None \notin Ids /\ Nobody \notin Ids /\ Keep \notin Ids
                 /\ Nobody # None /\ Nobody # Keep /\ None # Keep
  BY DistinctAssumption

LEMMA Parts ==
    ASSUME AuthInv, NEW q \in Requests
    PROVE  /\ req[q] \in Request /\ RequestOK(req[q], row, shown)
           /\ req \in [Requests -> Request]
           /\ row \in [Ids -> Principals \cup {None}]
           /\ shown \subseteq minted /\ failed \subseteq minted /\ minted \subseteq Ids
           /\ owed \subseteq Ids /\ faults \in 0..MaxFaults
           /\ jar \in shown \cup {None}
           /\ req[q].new \in Ids \cup {None} /\ req[q].old \in Ids \cup {None}
           /\ req[q].sid \in Ids \cup {None} /\ req[q].who \in Principals
           /\ req[q].new # None => req[q].new \in minted \ (shown \cup failed)
           /\ \A id \in Ids : id \notin minted => row[id] = None
  BY DEF AuthInv, TypeOK, Request, NewIsOwn

\* A confined step of one request keeps the invariant of all of them.
LEMMA ConfinedKeeps ==
    ASSUME AuthInv, NEW q \in Requests, NEW r, Confined(q, r)
    PROVE  AuthInv'
  <1> USE NotAnId
  <1>a. /\ req'[q] = r
        /\ \A p \in Requests : p # q => req'[p] = req[p]
    BY Parts DEF Confined
  <1>1. TypeOK'
    <2>1. /\ row' \in [Ids -> Principals \cup {None}]
          /\ owed' \subseteq Ids /\ minted' \subseteq Ids
          /\ faults' \in 0..MaxFaults
          /\ shown' \subseteq minted' /\ failed' \subseteq minted'
      BY DEF Confined
    <2>2. jar' \in Ids \cup {None}
      BY DEF Confined
    <2>3. req' \in [Requests -> Request]
      BY Parts DEF Confined
    <2>4. ASSUME NEW id \in Ids \ minted'
          PROVE  row'[id] = None
      BY <2>4, Parts DEF Confined, RowMoves
    <2> QED
      BY <2>1, <2>2, <2>3, <2>4 DEF TypeOK
  <1>2. jar' \in shown' \cup {None}
    BY DEF Confined
  <1>3. ASSUME NEW p \in Requests
        PROVE  RequestOK(req'[p], row', shown')
    <2>1. CASE p = q
      BY <1>a, <2>1 DEF Confined
    <2>2. CASE p # q
      <3>1. RequestOK(req[p], row, shown) /\ shown \subseteq shown' /\ req'[p] = req[p]
        BY <1>a, <2>2, Parts DEF Confined
      <3>2. req[p].pc = "revoke" => row'[req[p].old] \in {req[p].who, None}
        BY <3>1, Parts DEF RequestOK, Confined, RowMoves
      <3> QED
        BY <3>1, <3>2 DEF RequestOK
    <2> QED
      BY <2>1, <2>2
  <1>4. NewIsOwn'
    <2>1. ASSUME NEW p \in Requests, req'[p].new # None
          PROVE  req'[p].new \in minted' \ (shown' \cup failed')
      <3>1. CASE p = q
        BY <1>a, <2>1, <3>1, Parts DEF Confined, NewMoves
      <3>2. CASE p # q
        <4>1. req'[p] = req[p] /\ req[p].new \in minted \ (shown \cup failed)
          BY <1>a, <2>1, <3>2, Parts
        <4>2. req[p].new # req[q].new
          BY <2>1, <3>2, <4>1 DEF AuthInv, NewIsOwn
        <4> QED
          BY <4>1, <4>2 DEF Confined, NewMoves
      <3> QED
        BY <3>1, <3>2
    <2>2. ASSUME NEW p \in Requests, NEW o \in Requests, p # o, req'[p].new # None
          PROVE  req'[o].new # req'[p].new
      <3>1. \A x, y \in Requests : x # y /\ req[x].new # None => req[x].new # req[y].new
        BY DEF AuthInv, NewIsOwn
      <3>2. \A x \in Requests : req[x].new \in minted \cup {None}
        BY Parts
      <3>3. r.new \in {None, req[q].new} \cup (minted' \ minted)
        BY DEF Confined, NewMoves
      <3> QED
        BY <1>a, <2>2, <3>1, <3>2, <3>3, Parts
    <2> QED
      BY <2>1, <2>2 DEF NewIsOwn
  <1>5. ASSUME NEW w \in Ids, Private(w)'
        PROVE  Private(w) \/ w \notin minted
    BY <1>5, <1>a DEF Private, Confined, NewMoves
  <1>6. ASSUME NEW w \in Ids, Private(w)
        PROVE  /\ w \notin shown
               /\ \A id \in Ids : row[id] = w => id = w
               /\ \A p \in Requests : req[p].who # w
    BY <1>6 DEF AuthInv, PrivateIsOwn
  <1>7. ASSUME NEW w \in Ids, w \notin minted
        PROVE  /\ \A id \in Ids : row[id] # w
               /\ \A p \in Requests : req[p].who # w
    BY <1>7 DEF AuthInv, NamesMinted
  <1>8. PrivateIsOwn'
    <2> SUFFICES ASSUME NEW w \in Ids, Private(w)'
                 PROVE  /\ w \notin shown'
                        /\ \A id \in Ids : row'[id] = w => id = w
                        /\ \A p \in Requests : req'[p].who # w
      BY DEF PrivateIsOwn
    <2>1. /\ w \notin shown
          /\ \A id \in Ids : row[id] = w => id = w
          /\ \A p \in Requests : req[p].who # w
      BY <1>5, <1>6, <1>7, Parts
    <2>2. \A id \in Ids : row'[id] = w => id = w
      BY <2>1 DEF Confined, RowMoves
    <2>3. r.who # w
      BY <2>1, Parts DEF Confined, WhoMoves
    <2>4. w \notin shown'
      <3>1. CASE w \in failed'
        BY <2>1, <3>1 DEF Confined, NewMoves
      <3>2. CASE \E p \in Requests : req'[p].new = w
        BY <1>4, <3>2 DEF NewIsOwn
      <3> QED
        BY <3>1, <3>2 DEF Private
    <2> QED
      BY <1>a, <2>1, <2>2, <2>3, <2>4
  <1>9. NamesMinted'
    <2>1. \A id \in Ids : row[id] \in minted \cup {Nobody, None}
      BY DEF AuthInv, NamesMinted
    <2>2. \A p \in Requests : req[p].who \in minted \cup {Nobody}
      BY DEF AuthInv, NamesMinted
    <2>3. \A id \in Ids : row'[id] \in minted' \cup {Nobody, None}
      BY <2>1, <2>2, Parts DEF Confined, RowMoves
    <2>4. r.who \in minted' \cup {Nobody}
      <3>1. r.who # None
        BY DEF Confined, Request, Principals
      <3> QED
        BY <2>1, <2>2, <3>1, Parts DEF Confined, WhoMoves
    <2> QED
      BY <1>a, <2>2, <2>3, <2>4 DEF NamesMinted, Confined
  <1>10. /\ \A x, y \in Ids : row[x] \in Ids /\ row[x] = row[y] => x = y
         /\ \A p \in Requests, w \in Ids : Carries(p, w) =>
              /\ \A id \in Ids : row[id] # w
              /\ \A o \in Requests : Carries(o, w) => o = p
    BY DEF AuthInv, OneCarrier, OneRowPerLogin
  <1>11. req[q].new # None => /\ req[q].new \in Ids
                              /\ \A id \in Ids : row[id] = req[q].new => id = req[q].new
                              /\ \A p \in Requests : req[p].who # req[q].new
    <2>1. req[q].new # None => req[q].new \in Ids /\ Private(req[q].new)
      BY Parts DEF Private
    <2> QED
      BY <1>6, <2>1
  <1>12. OneRowPerLogin'
    <2> SUFFICES ASSUME NEW x \in Ids, NEW y \in Ids, row'[x] \in Ids, row'[x] = row'[y]
                 PROVE  x = y
      BY DEF OneRowPerLogin
    <2>1. \/ row'[x] = row[x]
          \/ x = req[q].new /\ Carries(q, row'[x])
          \/ x = req[q].new /\ row'[x] = x
      BY DEF Confined, RowMoves, Carries
    <2>2. \/ row'[y] = row[y]
          \/ y = req[q].new /\ Carries(q, row'[y])
          \/ y = req[q].new /\ row'[y] = y
      BY DEF Confined, RowMoves, Carries
    <2> QED
      BY <1>10, <1>11, <2>1, <2>2
  <1>13. ASSUME NEW p \in Requests, NEW w \in Ids, Carries(p, w)'
         PROVE  /\ \A id \in Ids : row'[id] # w
                /\ \A o \in Requests : Carries(o, w)' => o = p
    <2>1. ASSUME NEW o \in Requests, Carries(o, w)'
          PROVE  \/ Carries(o, w)
                 \/ /\ o = q /\ r.who = w
                    /\ \E id \in Ids : row[id] = w /\ row' = [row EXCEPT ![id] = None]
      BY <1>a, <2>1 DEF Carries, Confined, WhoMoves
    <2>2. ASSUME NEW o \in Requests, Carries(o, w)'
          PROVE  req[o].who = w
      BY <1>a, <2>2 DEF Carries, Confined, WhoMoves
    <2>3. \A id \in Ids : row'[id] # w
      <3>1. CASE Carries(p, w)
        <4> SUFFICES ASSUME NEW id \in Ids, row'[id] = w
                     PROVE  FALSE
          OBVIOUS
        <4>1. row[id] # w /\ req[p].who = w
          BY <1>10, <3>1 DEF Carries
        <4>2. id = req[q].new
          BY <4>1 DEF Confined, RowMoves
        <4>3. w # id
          BY <1>11, <4>1, <4>2
        <4>4. /\ row'[id] = req[q].who /\ req[q].pc = "carry"
              /\ r.pc \in {"mint", "carry"} => r.who = Nobody
          BY <4>1, <4>3 DEF Confined, RowMoves
        <4>5. Carries(q, w)
          BY <4>4 DEF Carries
        <4>6. p = q
          BY <1>10, <3>1, <4>5
        <4> QED
          BY <1>a, <1>13, <4>4, <4>6, NotAnId DEF Carries
      <3>2. CASE \E id \in Ids : row[id] = w /\ row' = [row EXCEPT ![id] = None]
        BY <1>10, <3>2, Parts
      <3> QED
        BY <1>13, <2>1, <3>1, <3>2
    <2>4. ASSUME NEW o \in Requests, Carries(o, w)'
          PROVE  o = p
      BY <1>10, <1>13, <2>1, <2>4
    <2> QED
      BY <2>3, <2>4
  <1>14. OneCarrier'
    BY <1>12, <1>13 DEF OneCarrier
  <1> QED
    BY <1>1, <1>2, <1>3, <1>4, <1>8, <1>9, <1>14 DEF AuthInv

-----------------------------------------------------------------------------
(* Where the helpers of the strategy lead.                                 *)

\* A request that is creating and rotating nothing.
Free(r, sh) ==
    /\ r \in Request
    /\ r.sid \in sh \cup {None} /\ r.cookie \in sh \cup {None, Keep}
    /\ r.old = None /\ r.new = None /\ r.who = Nobody

Calm(r, sh) ==
    /\ Free(r, sh)
    /\ r.pc \in {"idle", "resolve", "logout", "reply", "mint"}
    /\ r.pc = "resolve" => r.goal \in {"visit", "enter"}

LEMMA CalmOK ==
    ASSUME NEW r, NEW rows, NEW sh, Calm(r, sh)
    PROVE  RequestOK(r, rows, sh)
  BY NotAnId DEF Calm, Free, RequestOK

LEMMA IdleCalm ==
    ASSUME NEW sh
    PROVE  Calm(Idle, sh)
  BY DEF Calm, Free, Idle, Request, Principals

LEMMA AnswerCalm ==
    ASSUME NEW r \in Request, NEW sh, r.cookie \in sh \cup {None, Keep}
    PROVE  Calm(Answer(r), sh)
  BY ZenonT(30) DEF Calm, Free, Answer, Idle, Request, Principals

\* A change of where a request is leaves it calm.
LEMMA MovedCalm ==
    ASSUME NEW r, NEW sh, Free(r, sh), NEW pc \in {"resolve", "logout", "mint"},
           NEW goal \in {"visit", "enter", "login", "anonymous"},
           pc = "resolve" => goal \in {"visit", "enter"}
    PROVE  Calm([r EXCEPT !.pc = pc, !.goal = goal], sh)
  <1> DEFINE x == [r EXCEPT !.pc = pc, !.goal = goal]
  <1>1. x \in Request
    BY ZenonT(30) DEF Free, Request
  <1>2. /\ x.pc = pc /\ x.goal = goal /\ x.sid = r.sid /\ x.cookie = r.cookie
        /\ x.old = r.old /\ x.new = r.new /\ x.who = r.who
    BY DEF Free, Request
  <1> HIDE DEF x
  <1>3. Calm(x, sh)
    BY <1>1, <1>2 DEF Free, Calm
  <1> QED
    BY <1>3 DEF x

LEMMA PlacedCalm ==
    ASSUME NEW r, NEW sh, Free(r, sh), NEW pc \in {"resolve", "logout", "mint"},
           pc = "resolve" => r.goal \in {"visit", "enter"}
    PROVE  Calm([r EXCEPT !.pc = pc], sh)
  <1> DEFINE x == [r EXCEPT !.pc = pc]
  <1>1. x \in Request
    BY DEF Free, Request
  <1>2. /\ x.pc = pc /\ x.goal = r.goal /\ x.sid = r.sid /\ x.cookie = r.cookie
        /\ x.old = r.old /\ x.new = r.new /\ x.who = r.who
    BY DEF Free, Request
  <1> HIDE DEF x
  <1>3. Calm(x, sh)
    BY <1>1, <1>2 DEF Free, Calm
  <1> QED
    BY <1>3 DEF x

LEMMA HandlerCalm ==
    ASSUME NEW r, NEW sh, Free(r, sh)
    PROVE  Calm(Handler(r), sh)
  <1>1. Calm([r EXCEPT !.pc = "resolve", !.goal = "enter"], sh)
    BY MovedCalm
  <1>2. Calm([r EXCEPT !.pc = "logout", !.goal = "enter"], sh)
    BY MovedCalm
  <1>3. Calm(Answer(r), sh)
    BY AnswerCalm DEF Free
  <1> QED
    BY <1>1, <1>2, <1>3 DEF Handler

LEMMA NoSessionCalm ==
    ASSUME NEW r, NEW sh, Free(r, sh), r.goal \in {"visit", "enter"},
           NEW x \in NoSession(r)
    PROVE  Calm(x, sh)
  <1>1. r.op \in {"page", "login", "logout"}
    BY DEF Free, Request
  <1>2. /\ r.goal \in {"visit", "enter"} => Calm([r EXCEPT !.pc = "resolve"], sh)
        /\ Calm([r EXCEPT !.pc = "mint", !.goal = "anonymous"], sh)
        /\ Calm([r EXCEPT !.pc = "mint", !.goal = "login"], sh)
        /\ Calm([r EXCEPT !.pc = "logout"], sh)
        /\ Calm(Answer(r), sh)
    <2>1. Calm([r EXCEPT !.pc = "logout"], sh)
      BY PlacedCalm
    <2>2. r.goal \in {"visit", "enter"} => Calm([r EXCEPT !.pc = "resolve"], sh)
      BY PlacedCalm
    <2>3. Calm(Answer(r), sh)
      BY AnswerCalm DEF Free
    <2>4. Calm([r EXCEPT !.pc = "mint", !.goal = "anonymous"], sh)
      BY MovedCalm
    <2>5. Calm([r EXCEPT !.pc = "mint", !.goal = "login"], sh)
      BY MovedCalm
    <2> QED
      BY <2>1, <2>2, <2>3, <2>4, <2>5
  <1>3. CASE r.goal = "visit"
    BY <1>2, <1>3 DEF NoSession
  <1>4. CASE r.goal = "enter"
    BY <1>1, <1>2, <1>4 DEF NoSession
  <1> QED
    BY <1>3, <1>4

LEMMA NotCreatedCalm ==
    ASSUME NEW r \in Request, NEW sh, r.sid \in sh \cup {None}, r.cookie \in sh \cup {None, Keep},
           NEW x \in NotCreated(r)
    PROVE  Calm(x, sh)
  <1> DEFINE bare == [r EXCEPT !.old = None, !.who = Nobody, !.new = None]
  <1>1. bare.goal = r.goal /\ Free(bare, sh)
    BY DEF Request, Principals, Free
  <1>2. r.goal \in {"visit", "anonymous", "enter", "login"}
    BY DEF Request
  <1>3. x \in CASE r.goal = "anonymous" -> {Handler(bare)}
                [] r.goal = "login" -> {Answer(bare)}
                [] OTHER -> NoSession(bare)
    BY DEF NotCreated
  <1> HIDE DEF bare
  <1>4. CASE r.goal = "anonymous"
    BY <1>1, <1>3, <1>4, HandlerCalm
  <1>5. CASE r.goal = "login"
    BY <1>1, <1>3, <1>5, AnswerCalm DEF Free
  <1>6. CASE r.goal \in {"visit", "enter"}
    BY <1>1, <1>3, <1>6, NoSessionCalm
  <1> QED
    BY <1>2, <1>4, <1>5, <1>6

\* The request a session was found for: it rotates it, or is calm.
LEMMA SessionFoundKinds ==
    ASSUME NEW r \in Request, NEW sh, r.cookie \in sh \cup {None, Keep},
           r.old = None, r.who = Nobody, r.new = None, r.goal \in {"visit", "enter"},
           NEW id \in Ids, id \in sh, NEW w \in Principals
    PROVE  LET x == SessionFound(r, id, w)
           IN  \/ Calm(x, sh)
               \/ /\ x \in Request /\ x.pc = "revoke" /\ x.goal = "login" /\ x.sid = id
                  /\ x.old = id /\ x.who = w /\ x.new = None /\ x.cookie = r.cookie
  <1> DEFINE x == SessionFound(r, id, w)
             found == [r EXCEPT !.sid = id, !.scoped = TRUE]
             out == [r EXCEPT !.pc = "logout", !.sid = id, !.scoped = TRUE]
             rotate == [r EXCEPT !.pc = "revoke", !.goal = "login",
                                 !.sid = id, !.scoped = TRUE, !.old = id, !.who = w]
  <1>1. r.op \in {"page", "login", "logout"}
    BY DEF Request
  <1>2. CASE r.goal = "visit"
    <2>1. x = Handler(found)
      BY <1>2 DEF SessionFound
    <2>2. Free(found, sh)
      BY DEF Free, Request
    <2> HIDE DEF found
    <2> QED
      BY <2>1, <2>2, HandlerCalm
  <1>3. CASE r.goal = "enter"
    <2>1. x \in {rotate, out, Answer(r)}
      BY <1>1, <1>3 DEF SessionFound
    <2>2. /\ rotate \in Request /\ rotate.pc = "revoke" /\ rotate.goal = "login"
          /\ rotate.sid = id /\ rotate.old = id /\ rotate.who = w /\ rotate.new = None
          /\ rotate.cookie = r.cookie
      BY DEF Request
    <2>3. Calm(out, sh)
      BY DEF Calm, Free, Request
    <2>4. Calm(Answer(r), sh)
      BY AnswerCalm
    <2> HIDE DEF x, rotate, out
    <2> QED
      BY <2>1, <2>2, <2>3, <2>4 DEF x
  <1> QED
    BY <1>2, <1>3

-----------------------------------------------------------------------------
(* Every operation is confined.                                            *)

LEMMA RevokeTame ==
    ASSUME AuthInv, NEW x \in Ids, RevokeSucceeds(x) \/ RevokeFails(x)
    PROVE  /\ row' \in [Ids -> Principals \cup {None}]
           /\ \A id \in Ids : row'[id] \in {row[id], None}
           /\ owed' \subseteq Ids /\ faults' \in 0..MaxFaults
  <1>1. row \in [Ids -> Principals \cup {None}] /\ owed \subseteq Ids /\ faults \in 0..MaxFaults
    BY DEF AuthInv, TypeOK
  <1>2. row' \in {row, [row EXCEPT ![x] = None]}
    BY DEF RevokeSucceeds, RevokeFails
  <1>3. owed' \subseteq Ids
    BY <1>1 DEF RevokeSucceeds, RevokeFails
  <1>4. faults' \in 0..MaxFaults
    BY <1>1, FaultsAssumption DEF RevokeSucceeds, RevokeFails, Fault
  <1> QED
    BY <1>1, <1>2, <1>3, <1>4

LEMMA FaultBound ==
    ASSUME AuthInv, Fault \/ UNCHANGED faults
    PROVE  faults' \in 0..MaxFaults
  BY FaultsAssumption DEF AuthInv, TypeOK, Fault

LEMMA CalmConfined ==
    ASSUME AuthInv, NEW q \in Requests, NEW r, Calm(r, shown'), req' = [req EXCEPT ![q] = r],
           row' \in [Ids -> Principals \cup {None}],
           \A id \in Ids : \/ row'[id] \in {row[id], None}
                           \/ id \notin minted /\ id \in minted' /\ row'[id] = Nobody,
           owed' \subseteq Ids, faults' \in 0..MaxFaults,
           minted \subseteq minted', minted' \subseteq Ids,
           shown \subseteq shown', shown' \subseteq shown \cup (minted' \ minted),
           failed' = failed, jar' \in shown' \cup {None}
    PROVE  Confined(q, r)
  <1>1. RequestOK(r, row', shown')
    BY CalmOK
  <1>2. RowMoves(q, r)
    BY DEF RowMoves
  <1>3. WhoMoves(q, r)
    BY NotAnId DEF WhoMoves, Calm, Free
  <1>4. shown \subseteq minted /\ failed \subseteq minted
    BY Parts
  <1>5. NewMoves(q, r)
    BY <1>4 DEF NewMoves, Calm, Free
  <1> QED
    BY <1>1, <1>2, <1>3, <1>4, <1>5 DEF Confined, Calm, Free

\* What a request holds where it is.
LEMMA HeldAt ==
    ASSUME AuthInv, NEW q \in Requests
    PROVE  /\ req[q].pc = "resolve" => Free(req[q], shown) /\ req[q].goal \in {"visit", "enter"}
           /\ req[q].pc = "revoke" => /\ req[q].old \in shown /\ req[q].old \in Ids
                                      /\ req[q].goal # "anonymous" /\ req[q].new = None
                                      /\ row[req[q].old] \in {req[q].who, None}
           /\ req[q].pc = "mint" => req[q].new = None
           /\ req[q].pc = "carry" => req[q].new \in Ids /\ req[q].goal # "anonymous"
           /\ req[q].pc \in {"authenticate", "persist", "undo"} =>
                 req[q].new \in Ids /\ req[q].goal = "login"
  BY Parts DEF RequestOK, Free

LEMMA StartConfined ==
    ASSUME AuthInv, NEW q \in Requests, Start(q)
    PROVE  \E r : Confined(q, r)
  <1>1. PICK op \in {"page", "login", "logout"} :
          req' = [req EXCEPT ![q] = [Idle EXCEPT
                    !.pc = "resolve", !.op = op, !.sid = jar,
                    !.stuck = IF RevocationPending(jar) THEN jar ELSE None,
                    !.me = IF op # "logout" \/ jar = None \/ row[jar] = None
                           THEN Nobody ELSE row[jar]]]
    BY DEF Start
  <1> DEFINE stuck == IF RevocationPending(jar) THEN jar ELSE None
             me == IF op # "logout" \/ jar = None \/ row[jar] = None
                           THEN Nobody ELSE row[jar]
             r == [Idle EXCEPT !.pc = "resolve", !.op = op, !.sid = jar,
                               !.stuck = stuck, !.me = me]
  <1>2. jar \in shown \cup {None} /\ stuck \in Ids \cup {None} /\ me \in Principals
    BY Parts DEF Principals
  <1>3. req' = [req EXCEPT ![q] = r]
    BY <1>1
  <1> HIDE DEF stuck, me
  <1>4. Calm(r, shown)
    BY <1>2, Parts DEF Calm, Free, Idle, Request, Principals
  <1> HIDE DEF r
  <1> QED
    BY <1>3, <1>4, Parts, CalmConfined DEF Start, store, history

LEMMA ResolveNoneConfined ==
    ASSUME AuthInv, NEW q \in Requests, ResolveNone(q)
    PROVE  \E r : Confined(q, r)
  <1>1. PICK r \in NoSession(req[q]) : req' = [req EXCEPT ![q] = r]
    BY DEF ResolveNone
  <1>2. Calm(r, shown)
    BY HeldAt, NoSessionCalm DEF ResolveNone
  <1>3. /\ row' \in [Ids -> Principals \cup {None}]
        /\ \A id \in Ids : row'[id] \in {row[id], None}
        /\ owed' \subseteq Ids /\ faults' \in 0..MaxFaults
    <2>1. CASE req[q].sid \in owed
      BY <2>1, Parts, RevokeTame DEF ResolveNone
    <2>2. CASE req[q].sid \notin owed
      BY <2>2, Parts, FaultBound DEF ResolveNone
    <2> QED
      BY <2>1, <2>2
  <1>4. minted' = minted /\ jar' = jar /\ shown' = shown /\ failed' = failed
    BY DEF ResolveNone, history
  <1> QED
    BY <1>1, <1>2, <1>3, <1>4, Parts, CalmConfined

\* A request that starts to rotate the session it read.
LEMMA RevokingConfined ==
    ASSUME AuthInv, NEW q \in Requests, NEW r \in Request, req' = [req EXCEPT ![q] = r],
           r.pc = "revoke", r.goal # "anonymous", r.old \in shown', r.new = None,
           r.sid \in shown' \cup {None}, r.cookie \in shown' \cup {None, Keep},
           row'[r.old] \in {r.who, None},
           \/ r.who = Nobody \/ r.who = req[q].who \/ \E id \in shown : row[id] = r.who,
           RowMoves(q, r), row' \in [Ids -> Principals \cup {None}],
           UNCHANGED <<owed, minted, jar, failed, faults>>,
           shown \subseteq shown', shown' \subseteq shown \cup {req[q].new},
           shown' \subseteq minted
    PROVE  Confined(q, r)
  <1>0. shown \subseteq minted /\ failed \subseteq minted /\ minted \subseteq Ids
    BY Parts
  <1>1. RequestOK(r, row', shown')
    BY <1>0, NotAnId DEF RequestOK
  <1>2. WhoMoves(q, r)
    BY DEF WhoMoves
  <1>3. NewMoves(q, r)
    BY Parts, NotAnId DEF NewMoves
  <1> QED
    BY <1>0, <1>1, <1>2, <1>3, Parts DEF Confined

LEMMA ResolveFoundConfined ==
    ASSUME AuthInv, NEW q \in Requests, ResolveFound(q)
    PROVE  \E r : Confined(q, r)
  <1> DEFINE sid == req[q].sid
             r == SessionFound(req[q], sid, row[sid])
  <1>1. req' = [req EXCEPT ![q] = r] /\ sid # None /\ row[sid] # None /\ req[q].pc = "resolve"
    BY DEF ResolveFound
  <1>2. sid \in shown /\ sid \in Ids /\ row[sid] \in Principals
    BY <1>1, Parts DEF RequestOK
  <1>3. UNCHANGED <<faults, row, owed, minted, jar, shown, failed>>
    BY DEF ResolveFound, store, history
  <1>4. Free(req[q], shown) /\ req[q].goal \in {"visit", "enter"} /\ req[q] \in Request
    BY <1>1, HeldAt, Parts
  <1>5. \/ Calm(r, shown)
        \/ /\ r \in Request /\ r.pc = "revoke" /\ r.goal = "login" /\ r.sid = sid
           /\ r.old = sid /\ r.who = row[sid] /\ r.new = None /\ r.cookie = req[q].cookie
    BY <1>2, <1>4, SessionFoundKinds DEF Free
  <1>6. RowMoves(q, r)
    BY <1>3 DEF RowMoves
  <1> HIDE DEF r
  <1>7. CASE Calm(r, shown)
    BY <1>1, <1>3, <1>7, Parts, CalmConfined
  <1>8. CASE r \in Request /\ r.pc = "revoke" /\ r.goal = "login" /\ r.sid = sid
             /\ r.old = sid /\ r.who = row[sid] /\ r.new = None /\ r.cookie = req[q].cookie
    BY <1>1, <1>2, <1>3, <1>4, <1>6, <1>8, Parts, RevokingConfined DEF Free
  <1> QED
    BY <1>5, <1>7, <1>8

LEMMA ResolveDueConfined ==
    ASSUME AuthInv, NEW q \in Requests, ResolveDue(q)
    PROVE  \E r : Confined(q, r)
  <1> DEFINE sid == req[q].sid
             who == row[sid]
             r == [req[q] EXCEPT !.pc = "revoke", !.old = sid, !.who = who]
  <1>1. req' = [req EXCEPT ![q] = r] /\ sid # None /\ row[sid] # None /\ req[q].pc = "resolve"
    BY DEF ResolveDue
  <1>2. sid \in shown /\ sid \in Ids /\ who \in Principals
    BY <1>1, Parts DEF RequestOK
  <1>3. UNCHANGED <<faults, row, owed, minted, jar, shown, failed>>
    BY DEF ResolveDue, store, history
  <1>4. Free(req[q], shown) /\ req[q].goal \in {"visit", "enter"} /\ req[q] \in Request
    BY <1>1, HeldAt, Parts
  <1>a. row[sid] = who
    OBVIOUS
  <1> HIDE DEF who
  <1>5. r \in Request
    BY <1>2, <1>4 DEF Request
  <1>6. /\ r.pc = "revoke" /\ r.goal = req[q].goal /\ r.sid = sid
        /\ r.old = sid /\ r.who = who /\ r.new = req[q].new /\ r.cookie = req[q].cookie
    BY <1>4 DEF Request
  <1>7. RowMoves(q, r)
    BY <1>3 DEF RowMoves
  <1> HIDE DEF r
  <1> QED
    BY <1>1, <1>a, <1>2, <1>3, <1>4, <1>5, <1>6, <1>7, Parts, RevokingConfined DEF Free

LEMMA RotateRevokesConfined ==
    ASSUME AuthInv, NEW q \in Requests, RotateRevokes(q)
    PROVE  \E r : Confined(q, r)
  <1> DEFINE r == [req[q] EXCEPT !.pc = "mint"]
             old == req[q].old
  <1>1. req' = [req EXCEPT ![q] = r]
    BY Parts DEF RotateRevokes
  <1>2. /\ old \in shown /\ old \in Ids /\ row[old] = req[q].who
        /\ req[q].new = None /\ req[q].goal # "anonymous" /\ req[q].pc = "revoke"
    BY HeldAt DEF RotateRevokes
  <1>3. /\ row' \in [Ids -> Principals \cup {None}]
        /\ \A id \in Ids : row'[id] \in {row[id], None}
        /\ owed' \subseteq Ids /\ faults' \in 0..MaxFaults
    BY <1>2, RevokeTame DEF RotateRevokes
  <1>4. row' = [row EXCEPT ![old] = None]
    BY DEF RotateRevokes, RevokeSucceeds
  <1>5. minted' = minted /\ jar' = jar /\ shown' = shown /\ failed' = failed
    BY DEF RotateRevokes, history
  <1>6. r \in Request /\ r.pc = "mint" /\ r.goal = req[q].goal /\ r.sid = req[q].sid
        /\ r.old = old /\ r.who = req[q].who /\ r.new = req[q].new /\ r.cookie = req[q].cookie
    BY Parts DEF Request
  <1> HIDE DEF r
  <1>7. RequestOK(r, row', shown')
    BY <1>2, <1>5, <1>6, Parts DEF RequestOK
  <1>8. RowMoves(q, r)
    BY <1>3 DEF RowMoves
  <1>9. WhoMoves(q, r)
    BY <1>2, <1>4, <1>6 DEF WhoMoves
  <1>10. NewMoves(q, r)
    BY <1>2, <1>5, <1>6 DEF NewMoves
  <1> QED
    BY <1>1, <1>3, <1>5, <1>6, <1>7, <1>8, <1>9, <1>10, Parts DEF Confined

LEMMA RotateAbandonsConfined ==
    ASSUME AuthInv, NEW q \in Requests, RotateAbandons(q)
    PROVE  \E r : Confined(q, r)
  <1>1. PICK r \in NotCreated(req[q]) : req' = [req EXCEPT ![q] = r]
    BY DEF RotateAbandons
  <1>2. Calm(r, shown)
    BY Parts, NotCreatedCalm DEF RotateAbandons, RequestOK
  <1>3. /\ row' \in [Ids -> Principals \cup {None}]
        /\ \A id \in Ids : row'[id] \in {row[id], None}
        /\ owed' \subseteq Ids /\ faults' \in 0..MaxFaults
    BY HeldAt, RevokeTame DEF RotateAbandons
  <1>4. minted' = minted /\ jar' = jar /\ shown' = shown /\ failed' = failed
    BY DEF RotateAbandons, history
  <1> QED
    BY <1>1, <1>2, <1>3, <1>4, Parts, CalmConfined

LEMMA MintRefusedConfined ==
    ASSUME AuthInv, NEW q \in Requests, MintRefused(q)
    PROVE  \E r : Confined(q, r)
  <1>1. PICK r \in NotCreated(req[q]) : req' = [req EXCEPT ![q] = r]
    BY DEF MintRefused
  <1>2. Calm(r, shown)
    BY Parts, NotCreatedCalm DEF RequestOK
  <1>3. UNCHANGED <<faults, row, owed, minted, jar, shown, failed>>
    BY DEF MintRefused, store, history
  <1> QED
    BY <1>1, <1>2, <1>3, Parts, CalmConfined

LEMMA MintFailsConfined ==
    ASSUME AuthInv, NEW q \in Requests, MintFails(q)
    PROVE  \E r : Confined(q, r)
  <1>1. PICK r \in NotCreated(req[q]) : req' = [req EXCEPT ![q] = r]
    BY DEF MintFails
  <1>2. Calm(r, shown)
    BY Parts, NotCreatedCalm DEF RequestOK
  <1>3. jar' = jar /\ shown' = shown /\ failed' = failed
    BY DEF MintFails, history
  <1>4. faults' \in 0..MaxFaults
    BY FaultBound DEF MintFails
  <1>5. CASE UNCHANGED store
    BY <1>1, <1>2, <1>3, <1>4, <1>5, Parts, CalmConfined DEF store
  <1>6. ASSUME NEW id \in Ids \ minted, minted' = minted \cup {id},
               row' \in {row, [row EXCEPT ![id] = Nobody]}, owed' \in {owed, owed \cup {id}}
        PROVE  Confined(q, r)
    <2>1. row' \in [Ids -> Principals \cup {None}]
      BY <1>6, Parts DEF Principals
    <2>2. \A x \in Ids : \/ row'[x] \in {row[x], None}
                         \/ x \notin minted /\ x \in minted' /\ row'[x] = Nobody
      BY <1>6, Parts
    <2>3. owed' \subseteq Ids /\ minted \subseteq minted' /\ minted' \subseteq Ids
      BY <1>6, Parts
    <2> QED
      BY <1>1, <1>2, <1>3, <1>4, <2>1, <2>2, <2>3, Parts, CalmConfined
  <1> QED
    BY <1>5, <1>6 DEF MintFails

LEMMA LogoutConfined ==
    ASSUME AuthInv, NEW q \in Requests, Logout(q) \/ LogoutFails(q)
    PROVE  \E r : Confined(q, r)
  <1> DEFINE expired == [req[q] EXCEPT !.cookie = None]
             r == IF Logout(q) THEN Answer(expired) ELSE Answer(req[q])
  <1>1. req' = [req EXCEPT ![q] = r]
    BY DEF Logout, LogoutFails
  <1>2. expired \in Request /\ expired.cookie = None
    BY Parts DEF Request
  <1>3. Calm(r, shown)
    <2>1. req[q].cookie \in shown \cup {None, Keep} /\ req[q] \in Request
      BY Parts DEF RequestOK
    <2>2. Calm(Answer(req[q]), shown)
      BY <2>1, AnswerCalm
    <2> HIDE DEF expired
    <2>3. Calm(Answer(expired), shown)
      BY <1>2, AnswerCalm
    <2> QED
      BY <2>2, <2>3
  <1> HIDE DEF r
  <1>4. minted' = minted /\ jar' = jar /\ shown' = shown /\ failed' = failed
    BY DEF Logout, LogoutFails, history
  <1>5. /\ row' \in [Ids -> Principals \cup {None}]
        /\ \A id \in Ids : row'[id] \in {row[id], None}
        /\ owed' \subseteq Ids /\ faults' \in 0..MaxFaults
    <2>1. CASE req[q].sid = None
      BY <2>1, Parts DEF Logout, LogoutFails
    <2>2. CASE req[q].sid # None
      BY <2>2, Parts, RevokeTame DEF Logout, LogoutFails
    <2> QED
      BY <2>1, <2>2
  <1> QED
    BY <1>1, <1>3, <1>4, <1>5, Parts, CalmConfined

LEMMA ReplyConfined ==
    ASSUME AuthInv, NEW q \in Requests, Reply(q)
    PROVE  \E r : Confined(q, r)
  <1>1. req' = [req EXCEPT ![q] = Idle] /\ Calm(Idle, shown)
    BY IdleCalm DEF Reply
  <1>2. jar' \in shown \cup {None}
    BY Parts DEF Reply, RequestOK
  <1>3. UNCHANGED <<row, owed, minted, shown, failed>>
    BY DEF Reply, store, history
  <1>4. faults' \in 0..MaxFaults
    BY FaultBound DEF Reply
  <1> QED
    BY <1>1, <1>2, <1>3, <1>4, Parts, CalmConfined

LEMMA MintConfined ==
    ASSUME AuthInv, NEW q \in Requests, Mint(q)
    PROVE  \E r : Confined(q, r)
  <1> DEFINE o == req[q]
  <1>1. PICK id \in Ids \ minted :
          /\ row' = [row EXCEPT ![id] = Nobody]
          /\ minted' = minted \cup {id}
          /\ req' = [req EXCEPT ![q] = Minted(o, id)]
          /\ shown' = IF o.goal = "anonymous" THEN shown \cup {id} ELSE shown
    BY Parts DEF Mint
  <1> DEFINE r == Minted(o, id)
  <1>2. /\ o \in Request /\ o.pc = "mint" /\ o.new = None /\ RequestOK(o, row, shown)
        /\ o.goal = "anonymous" => o.who = Nobody /\ o.old = None
    BY Parts DEF Mint, RequestOK
  <1>3. owed' = owed /\ faults' = faults /\ jar' = jar /\ failed' = failed
    BY DEF Mint
  <1>4. /\ row' \in [Ids -> Principals \cup {None}]
        /\ \A x \in Ids : \/ row'[x] \in {row[x], None}
                          \/ x \notin minted /\ x \in minted' /\ row'[x] = Nobody
    BY <1>1, Parts DEF Principals
  <1>5. /\ minted \subseteq minted' /\ minted' \subseteq Ids /\ shown \subseteq shown'
        /\ shown' \subseteq shown \cup (minted' \ minted)
        /\ owed' \subseteq Ids /\ faults' \in 0..MaxFaults /\ jar' \in shown' \cup {None}
        /\ shown \subseteq minted /\ failed \subseteq minted
    BY <1>1, <1>3, Parts
  <1>6. CASE o.goal = "anonymous"
    <2> DEFINE given == [o EXCEPT !.sid = id, !.scoped = TRUE, !.cookie = id]
    <2>1. r = Handler(given)
      BY <1>6 DEF Minted
    <2>2. Free(given, shown')
      BY ZenonT(30), <1>1, <1>2, <1>6 DEF Free, Request
    <2> HIDE DEF given
    <2>3. Calm(r, shown')
      BY <2>1, <2>2, HandlerCalm
    <2> HIDE DEF r, o
    <2> QED
      BY <1>1, <1>3, <1>4, <1>5, <2>3, CalmConfined DEF r
  <1>7. ASSUME NEW pc \in {"authenticate", "carry"}, r = [o EXCEPT !.pc = pc, !.new = id],
               pc = "authenticate" => o.goal = "login", o.goal # "anonymous"
        PROVE  Confined(q, r)
    <2> DEFINE x == [o EXCEPT !.pc = pc, !.new = id]
    <2>1. /\ x \in Request /\ x.pc = pc /\ x.new = id /\ x.goal = o.goal /\ x.sid = o.sid
          /\ x.who = o.who /\ x.old = o.old /\ x.cookie = o.cookie
      BY ZenonT(30), <1>2 DEF Request
    <2> HIDE DEF x, r
    <2>2. RequestOK(x, row', shown')
      BY <1>1, <1>2, <1>5, <1>7, <2>1, NotAnId DEF RequestOK
    <2>3. RowMoves(q, x)
      BY <1>4 DEF RowMoves
    <2>4. WhoMoves(q, x)
      BY <1>2, <2>1 DEF WhoMoves
    <2>5. NewMoves(q, x)
      BY <1>1, <1>3, <1>5, <1>7, <2>1 DEF NewMoves
    <2>6. x = r
      BY <1>7 DEF x
    <2>7. req' = [req EXCEPT ![q] = x]
      BY <1>1, <2>6 DEF r
    <2>8. Confined(q, x)
      BY <1>3, <1>4, <1>5, <2>1, <2>2, <2>3, <2>4, <2>5, <2>7 DEF Confined
    <2> QED
      BY <2>6, <2>8
  <1>8. CASE o.goal = "login" /\ o.old = None
    BY <1>7, <1>8 DEF Minted
  <1>9. CASE o.goal # "anonymous" /\ ~(o.goal = "login" /\ o.old = None)
    <2>1. r = [o EXCEPT !.pc = "carry", !.new = id]
      BY <1>9 DEF Minted
    <2> HIDE DEF r
    <2> QED
      BY <1>7, <1>9, <2>1
  <1> QED
    BY <1>6, <1>8, <1>9

\* A step of a request that writes the row of the session it is creating, or nothing.
LEMMA OwnWrite ==
    ASSUME AuthInv, NEW q \in Requests, NEW r, req[q].new \in Ids,
           \/ row' = row
           \/ /\ row' = [row EXCEPT ![req[q].new] = req[q].who]
              /\ req[q].pc = "carry" /\ (r.pc \in {"mint", "carry"} => r.who = Nobody)
           \/ row' = [row EXCEPT ![req[q].new] = req[q].new] /\ req[q].pc = "authenticate"
    PROVE  RowMoves(q, r) /\ row' \in [Ids -> Principals \cup {None}]
  BY Parts DEF RowMoves, Principals

\* A step of a request that keeps the session it is creating.
LEMMA LoginConfined ==
    ASSUME AuthInv, NEW q \in Requests, NEW pc \in {"authenticate", "persist", "undo"},
           req[q].new \in Ids, req[q].goal = "login",
           req' = [req EXCEPT ![q].pc = pc],
           \/ row' = row
           \/ row' = [row EXCEPT ![req[q].new] = req[q].who] /\ req[q].pc = "carry"
           \/ row' = [row EXCEPT ![req[q].new] = req[q].new] /\ req[q].pc = "authenticate",
           faults' \in 0..MaxFaults, UNCHANGED <<owed, minted, jar, shown, failed>>
    PROVE  \E r : Confined(q, r)
  <1> DEFINE r == [req[q] EXCEPT !.pc = pc]
  <1>1. req' = [req EXCEPT ![q] = r]
    BY Parts
  <1>2. r \in Request /\ r.pc = pc /\ r.goal = req[q].goal /\ r.sid = req[q].sid
        /\ r.old = req[q].old /\ r.who = req[q].who /\ r.new = req[q].new /\ r.cookie = req[q].cookie
    BY Parts DEF Request
  <1> HIDE DEF r
  <1>3. RowMoves(q, r) /\ row' \in [Ids -> Principals \cup {None}]
    BY <1>2, OwnWrite
  <1>4. RequestOK(r, row', shown')
    BY <1>2, Parts, NotAnId DEF RequestOK
  <1>5. WhoMoves(q, r)
    BY <1>2 DEF WhoMoves
  <1>6. NewMoves(q, r)
    BY <1>2, Parts DEF NewMoves
  <1> QED
    BY <1>1, <1>2, <1>3, <1>4, <1>5, <1>6, Parts DEF Confined

LEMMA CarryConfined ==
    ASSUME AuthInv, NEW q \in Requests, Carry(q)
    PROVE  \E r : Confined(q, r)
  <1> DEFINE o == req[q]
             n == o.new
             w == o.who
             bare == [o EXCEPT !.old = None, !.who = Nobody, !.new = None]
             given == [bare EXCEPT !.cookie = n]
             r == SessionFound(given, n, w)
  <1>1. o.pc = "carry" /\ row' = [row EXCEPT ![n] = w] /\ faults' = faults /\ owed' = owed
        /\ minted' = minted /\ jar' = jar /\ failed' = failed
    BY DEF Carry
  <1>2. o \in Request /\ n \in Ids /\ n \in minted /\ n \notin failed /\ w \in Principals
        /\ o.goal # "anonymous" /\ RequestOK(o, row, shown)
    BY <1>1, Parts, HeldAt, NotAnId
  <1>3. CASE o.goal = "login"
    BY <1>1, <1>2, <1>3, LoginConfined, Parts DEF Carry
  <1>4. CASE o.goal # "login"
    <2>1. req' = [req EXCEPT ![q] = r] /\ shown' = shown \cup {n}
      BY <1>4 DEF Carry
    <2>2. /\ given \in Request /\ given.cookie = n /\ given.old = None /\ given.new = None
          /\ given.who = Nobody /\ given.goal = o.goal
      BY <1>2 DEF Request, Principals
    <2>3. o.goal \in {"visit", "enter"}
      BY <1>2, <1>4 DEF Request
    <2> HIDE DEF given
    <2>4. \/ Calm(r, shown')
          \/ /\ r \in Request /\ r.pc = "revoke" /\ r.goal = "login" /\ r.sid = n
             /\ r.old = n /\ r.who = w /\ r.new = None /\ r.cookie = n
      BY <1>2, <2>1, <2>2, <2>3, SessionFoundKinds
    <2> HIDE DEF r
    <2>5. RowMoves(q, r) /\ row' \in [Ids -> Principals \cup {None}]
      BY <1>1, <1>2, <2>4, OwnWrite DEF Calm, Free
    <2>6. CASE r \in Request /\ r.pc = "revoke" /\ r.goal = "login" /\ r.sid = n
             /\ r.old = n /\ r.who = w /\ r.new = None /\ r.cookie = n
      <3>1. row'[r.old] \in {r.who, None}
        BY <1>1, <1>2, <2>6, Parts
      <3>2. n \in shown' /\ shown \subseteq shown' /\ shown' \subseteq shown \cup {req[q].new}
            /\ shown' \subseteq minted
        BY <1>2, <2>1, Parts
      <3> HIDE DEF o, n, w
      <3> QED
        BY <1>1, <2>1, <2>5, <2>6, <3>1, <3>2, RevokingConfined DEF o, n, w
    <2>7. CASE Calm(r, shown')
      <3>1. r.pc \in {"mint", "carry"} => r.who = Nobody
        BY <2>7 DEF Calm, Free
      <3>2. RequestOK(r, row', shown')
        BY <2>7, CalmOK
      <3>3. WhoMoves(q, r)
        BY <2>7, NotAnId DEF WhoMoves, Calm, Free
      <3>4. NewMoves(q, r)
        BY <1>1, <1>2, <2>1, <2>7, Parts DEF NewMoves, Calm, Free
      <3>5. r \in Request /\ shown' \subseteq minted' /\ shown \subseteq shown'
        BY <1>1, <1>2, <2>1, <2>7, Parts DEF Calm, Free
      <3> QED
        BY <1>1, <2>1, <2>5, <3>2, <3>3, <3>4, <3>5, Parts DEF Confined
    <2> QED
      BY <2>4, <2>6, <2>7
  <1> QED
    BY <1>3, <1>4

\* A request that gives up, or answers, and is calm.
LEMMA GivenUpConfined ==
    ASSUME AuthInv, NEW q \in Requests, NEW r, Calm(r, shown'), req' = [req EXCEPT ![q] = r],
           RowMoves(q, r), row' \in [Ids -> Principals \cup {None}],
           req[q].new \in Ids, owed' \subseteq Ids, faults' \in 0..MaxFaults,
           minted' = minted, jar' = jar,
           \/ shown' = shown /\ failed' = failed
           \/ shown' = shown \cup {req[q].new} /\ failed' = failed
           \/ shown' = shown /\ failed' = failed \cup {req[q].new}
    PROVE  Confined(q, r)
  <1>1. RequestOK(r, row', shown')
    BY CalmOK
  <1>2. WhoMoves(q, r)
    BY NotAnId DEF WhoMoves, Calm, Free
  <1>3. req[q].new \in minted \ (shown \cup failed)
    BY Parts, NotAnId
  <1>4. NewMoves(q, r)
    BY <1>3, Parts DEF NewMoves, Calm, Free
  <1> QED
    BY <1>1, <1>2, <1>3, <1>4, Parts DEF Confined, Calm, Free

LEMMA CarryFailsConfined ==
    ASSUME AuthInv, NEW q \in Requests, CarryFails(q)
    PROVE  \E r : Confined(q, r)
  <1>1. PICK r \in NotCreated(req[q]) : req' = [req EXCEPT ![q] = r]
    BY DEF CarryFails
  <1>2. Calm(r, shown)
    BY Parts, NotCreatedCalm DEF RequestOK
  <1>3. req[q].pc = "carry" /\ req[q].new \in Ids
    BY HeldAt DEF CarryFails
  <1>4. minted' = minted /\ jar' = jar /\ shown' = shown /\ failed' = failed /\ owed' = owed
    BY DEF CarryFails, history
  <1>5. row' = row \/ row' = [row EXCEPT ![req[q].new] = req[q].who]
    BY DEF CarryFails
  <1>6. faults' \in 0..MaxFaults
    BY FaultBound DEF CarryFails
  <1>7. CASE row' = row
    BY <1>1, <1>2, <1>4, <1>6, <1>7, Parts, CalmConfined
  <1>8. CASE row' = [row EXCEPT ![req[q].new] = req[q].who]
    <2>1. RowMoves(q, r) /\ row' \in [Ids -> Principals \cup {None}]
      BY <1>2, <1>3, <1>8, OwnWrite DEF Calm, Free
    <2> QED
      BY <1>1, <1>2, <1>3, <1>4, <1>6, <2>1, Parts, GivenUpConfined
  <1> QED
    BY <1>5, <1>7, <1>8

LEMMA AuthenticateConfined ==
    ASSUME AuthInv, NEW q \in Requests, Authenticate(q) \/ AuthenticateFails(q) \/ PersistFails(q)
    PROVE  \E r : Confined(q, r)
  <1>1. req[q].new \in Ids /\ req[q].goal = "login"
    BY HeldAt DEF Authenticate, AuthenticateFails, PersistFails
  <1>2. faults' \in 0..MaxFaults
    BY FaultBound DEF Authenticate, AuthenticateFails, PersistFails
  <1>3. CASE Authenticate(q)
    BY <1>1, <1>2, <1>3, LoginConfined DEF Authenticate, history
  <1>4. CASE AuthenticateFails(q)
    BY <1>1, <1>2, <1>4, LoginConfined DEF AuthenticateFails, history
  <1>5. CASE PersistFails(q)
    BY <1>1, <1>2, <1>5, LoginConfined DEF PersistFails, history, store
  <1> QED
    BY <1>3, <1>4, <1>5

LEMMA PersistConfined ==
    ASSUME AuthInv, NEW q \in Requests, Persist(q)
    PROVE  \E r : Confined(q, r)
  <1> DEFINE n == req[q].new
             told == [req[q] EXCEPT !.cookie = n]
             r == Answer(told)
  <1>1. n \in Ids /\ req' = [req EXCEPT ![q] = r] /\ shown' = shown \cup {n}
    BY HeldAt, Parts DEF Persist
  <1>2. told \in Request /\ told.cookie = n
    <2>1. ASSUME NEW k \in Request, NEW id \in Ids
          PROVE  [k EXCEPT !.cookie = id] \in Request /\ [k EXCEPT !.cookie = id].cookie = id
      BY SMTT(30) DEF Request
    <2>2. req[q] \in Request
      BY Parts
    <2> HIDE DEF n
    <2> QED
      BY <1>1, <2>1, <2>2
  <1> HIDE DEF told
  <1>3. Calm(r, shown')
    BY <1>1, <1>2, AnswerCalm
  <1> HIDE DEF r
  <1>4. UNCHANGED <<faults, row, owed, minted, jar, failed>>
    BY DEF Persist, store
  <1>5. RowMoves(q, r)
    BY <1>4 DEF RowMoves
  <1> QED
    BY <1>1, <1>3, <1>4, <1>5, Parts, GivenUpConfined

LEMMA UndoConfined ==
    ASSUME AuthInv, NEW q \in Requests, Undo(q)
    PROVE  \E r : Confined(q, r)
  <1> DEFINE r == Answer(req[q])
  <1>1. /\ req[q].new \in Ids /\ req' = [req EXCEPT ![q] = r]
        /\ minted' = minted /\ jar' = jar /\ shown' = shown
        /\ failed' = failed \cup {req[q].new}
    BY HeldAt DEF Undo
  <1>2. Calm(r, shown)
    BY Parts, AnswerCalm DEF RequestOK
  <1>3. /\ row' \in [Ids -> Principals \cup {None}]
        /\ \A id \in Ids : row'[id] \in {row[id], None}
        /\ owed' \subseteq Ids /\ faults' \in 0..MaxFaults
    BY <1>1, RevokeTame DEF Undo
  <1> HIDE DEF r
  <1>4. RowMoves(q, r)
    BY <1>3 DEF RowMoves
  <1> QED
    BY <1>1, <1>2, <1>3, <1>4, GivenUpConfined

-----------------------------------------------------------------------------
(* The theorems.                                                           *)

LEMMA StepConfined ==
    ASSUME AuthInv, NEW q \in Requests, Step(q)
    PROVE  \E r : Confined(q, r)
  BY StartConfined, ResolveNoneConfined, ResolveFoundConfined, ResolveDueConfined,
     RotateRevokesConfined, RotateAbandonsConfined, MintRefusedConfined, MintConfined,
     MintFailsConfined, CarryConfined, CarryFailsConfined, AuthenticateConfined,
     PersistConfined, UndoConfined, LogoutConfined, ReplyConfined DEF Step

LEMMA ExpireKeeps ==
    ASSUME AuthInv, NEW x \in Ids, Expire(x)
    PROVE  AuthInv'
  <1>1. /\ row' = [row EXCEPT ![x] = None]
        /\ UNCHANGED <<faults, owed, minted, jar, req, shown, failed>>
    BY DEF Expire, history
  <1>2. row \in [Ids -> Principals \cup {None}]
    BY DEF AuthInv, TypeOK
  <1>3. \A id \in Ids : row'[id] \in {row[id], None}
    BY <1>1, <1>2
  <1>4. TypeOK'
    BY <1>1, <1>2 DEF AuthInv, TypeOK
  <1>5. ASSUME NEW q \in Requests
        PROVE  RequestOK(req[q], row', shown)
    BY <1>3, Parts DEF RequestOK
  <1>6. NewIsOwn' /\ PrivateIsOwn'
    BY <1>1, <1>3, NotAnId DEF AuthInv, NewIsOwn, PrivateIsOwn, Private
  <1>7. NamesMinted'
    BY <1>1, <1>3 DEF AuthInv, NamesMinted
  <1>8. OneCarrier'
    BY <1>1, <1>3, NotAnId DEF AuthInv, OneCarrier, OneRowPerLogin, Carries
  <1> QED
    BY <1>1, <1>4, <1>5, <1>6, <1>7, <1>8 DEF AuthInv

LEMMA RestartKeeps ==
    ASSUME AuthInv, Restart
    PROVE  AuthInv'
  <1>1. /\ req' = [q \in Requests |-> Idle] /\ owed' = {}
        /\ UNCHANGED <<row, minted, jar, shown, failed>>
    BY DEF Restart, history
  <1>2. faults' \in 0..MaxFaults
    BY FaultBound DEF Restart
  <1>3. /\ Idle \in Request /\ Idle.new = None /\ Idle.who = Nobody /\ Idle.pc = "idle"
        /\ Calm(Idle, shown)
    BY IdleCalm DEF Idle, Calm, Free
  <1>4. TypeOK'
    BY <1>1, <1>2, <1>3 DEF AuthInv, TypeOK
  <1>5. ASSUME NEW q \in Requests
        PROVE  RequestOK(req'[q], row', shown')
    <2>1. req'[q] = Idle /\ shown' = shown
      BY <1>1
    <2> QED
      BY <1>3, <2>1, CalmOK
  <1>6. NewIsOwn' /\ PrivateIsOwn' /\ NamesMinted' /\ OneCarrier'
    BY <1>1, <1>3, NotAnId DEF AuthInv, NewIsOwn, PrivateIsOwn, Private, NamesMinted,
       OneCarrier, OneRowPerLogin, Carries
  <1> QED
    BY <1>1, <1>4, <1>5, <1>6 DEF AuthInv

LEMMA StutterKeeps ==
    ASSUME AuthInv, UNCHANGED vars
    PROVE  AuthInv'
  <1>1. UNCHANGED <<row, owed, minted, jar, req, faults, shown, failed>>
    BY DEF vars, store, history
  <1>2. \A q \in Requests : RequestOK(req'[q], row', shown')
    BY <1>1 DEF AuthInv
  <1> QED
    BY <1>1, <1>2 DEF AuthInv, TypeOK, NewIsOwn, PrivateIsOwn, Private, NamesMinted,
       OneCarrier, OneRowPerLogin, Carries

LEMMA InitHolds ==
    ASSUME Init
    PROVE  AuthInv
  <1>1. Idle \in Request /\ Idle.new = None /\ Idle.who = Nobody /\ Idle.pc = "idle"
        /\ Calm(Idle, shown)
    BY IdleCalm DEF Idle, Calm, Free
  <1>2. TypeOK
    BY <1>1, FaultsAssumption DEF Init, TypeOK
  <1>3. ASSUME NEW q \in Requests
        PROVE  RequestOK(req[q], row, shown)
    BY <1>1, CalmOK DEF Init
  <1>4. NewIsOwn /\ PrivateIsOwn /\ NamesMinted /\ OneCarrier
    BY <1>1, NotAnId DEF Init, NewIsOwn, PrivateIsOwn, Private, NamesMinted,
       OneCarrier, OneRowPerLogin, Carries
  <1> QED
    BY <1>2, <1>3, <1>4 DEF AuthInv, Init

LEMMA NextKeeps ==
    ASSUME AuthInv, [Next]_vars
    PROVE  AuthInv'
  BY StepConfined, ConfinedKeeps, ExpireKeeps, RestartKeeps, StutterKeeps DEF Next

\* The inductive invariant, whatever fails, restarts or interleaves.
THEOREM AuthInvariant == Spec => []AuthInv
  BY InitHolds, NextKeeps, PTL DEF Spec

\* Rows, cookies and requests have their types, and only minted ids have rows.
THEOREM AuthTyped == Spec => []TypeOK
  <1>1. AuthInv => TypeOK
    BY DEF AuthInv
  <1> QED
    BY <1>1, AuthInvariant, PTL

\* A login is one stored session, however many requests rotate it, and none under an id
\* that was shown when it was reported as failed (rotateSession, Login).
THEOREM LoginOneRow == Spec => []LoginIsOneRow
  <1>1. AuthInv => LoginIsOneRow
    <2> SUFFICES ASSUME AuthInv
                 PROVE  LoginIsOneRow
      OBVIOUS
    <2>1. OneRowPerLogin
      BY DEF AuthInv, OneCarrier
    <2>2. FailedLoginUnreachable
      <3> SUFFICES ASSUME NEW id \in shown, row[id] \in failed
                   PROVE  FALSE
        BY DEF FailedLoginUnreachable
      <3>1. id \in Ids /\ row[id] \in Ids /\ Private(row[id])
        BY DEF AuthInv, TypeOK, Private
      <3> QED
        BY <3>1 DEF AuthInv, PrivateIsOwn
    <2> QED
      BY <2>1, <2>2 DEF LoginIsOneRow
  <1> QED
    BY <1>1, AuthInvariant, PTL

\* A row whose id was shown stays what it is, or goes.
LEMMA FreshIdStep ==
    ASSUME AuthInv, [Next]_vars, NEW id \in shown
    PROVE  row'[id] \in {row[id], None}
  <1>0. id \in Ids /\ id \in minted
    BY DEF AuthInv, TypeOK
  <1>1. ASSUME NEW q \in Requests, Step(q)
        PROVE  row'[id] \in {row[id], None}
    <2>1. PICK r : Confined(q, r)
      BY <1>1, StepConfined
    <2>2. id # req[q].new
      BY <1>0, Parts, NotAnId
    <2> QED
      BY <1>0, <2>1, <2>2 DEF Confined, RowMoves
  <1>2. ASSUME NEW x \in Ids, Expire(x)
        PROVE  row'[id] \in {row[id], None}
    BY <1>0, <1>2 DEF Expire, AuthInv, TypeOK
  <1> QED
    BY <1>1, <1>2 DEF Next, Restart, vars, store

\* What was shown to a client never becomes somebody's session: a row gets an identity
\* only before its id is in any cookie (Login, rotateSession).
THEOREM FreshIdIsAuthenticated == Spec => LoginOnFreshId
  <1>1. AuthInv /\ [Next]_vars => \A id \in shown : row'[id] \in {row[id], None}
    BY FreshIdStep
  <1> QED
    BY <1>1, AuthInvariant, PTL DEF Spec, LoginOnFreshId

\* No step brings an identity back that is over.
LEMMA EndedStep ==
    ASSUME AuthInv, [Next]_vars, NEW w \in Ids, Over(w)
    PROVE  Over(w)'
  <1> USE NotAnId
  <1>0. /\ w \in minted /\ \A id \in Ids : row[id] # w
        /\ \A q \in Requests : /\ ~(req[q].pc \in {"mint", "carry"} /\ req[q].who = w)
                               /\ ~(req[q].goal = "login" /\ req[q].new = w)
    BY DEF Over, InTransit
  <1>1. ASSUME NEW q \in Requests, Step(q)
        PROVE  Over(w)'
    <2>1. PICK r : Confined(q, r)
      BY <1>1, StepConfined
    <2>2. req'[q] = r /\ \A p \in Requests : p # q => req'[p] = req[p]
      BY <2>1, Parts DEF Confined
    <2>3. \A id \in Ids : row'[id] # w
      BY <1>0, <2>1, HeldAt DEF Confined, RowMoves
    <2>4. ~(r.pc \in {"mint", "carry"} /\ r.who = w)
      BY <1>0, <2>1 DEF Confined, WhoMoves
    <2>5. ~(r.goal = "login" /\ r.new = w)
      BY <1>0, <2>1 DEF Confined, NewMoves
    <2>6. w \in minted'
      BY <1>0, <2>1 DEF Confined
    <2> QED
      BY <1>0, <2>2, <2>3, <2>4, <2>5, <2>6 DEF Over, InTransit
  <1>2. ASSUME NEW x \in Ids, Expire(x)
        PROVE  Over(w)'
    <2>1. \A id \in Ids : row'[id] \in {row[id], None}
      BY <1>2 DEF Expire, AuthInv, TypeOK
    <2> QED
      BY <1>0, <1>2, <2>1 DEF Expire, Over, InTransit
  <1>3. CASE Restart
    <2>1. \A q \in Requests : req'[q].pc = "idle" /\ req'[q].new = None
      BY <1>3 DEF Restart, Idle
    <2> QED
      BY <1>0, <1>3, <2>1 DEF Restart, Over, InTransit
  <1>4. CASE UNCHANGED vars
    BY <1>0, <1>4 DEF vars, store, history, Over, InTransit
  <1> QED
    BY <1>1, <1>2, <1>3, <1>4 DEF Next

\* An identity that is over is never stored again: nobody carries what was revoked,
\* expired or abandoned anywhere (rotateSession's wasLive).
THEOREM EndedStaysEnded == Spec => EndedIdentityStaysEnded
  <1>1. AuthInv /\ [Next]_vars => \A w \in Ids : Over(w) => Over(w)'
    BY EndedStep
  <1> QED
    BY <1>1, AuthInvariant, PTL DEF Spec, EndedIdentityStaysEnded

-----------------------------------------------------------------------------
(* The chain of filters and the handler.                                   *)

\* What rewrites the path stands before the guards that are scoped by it.  The application
\* orders its filters; a guard is asked about the path as it is when its turn comes.
RewritesFirst ==
    \A s \in Sites : \A i, j \in DOMAIN s.filters :
        i < j /\ s.filters[j].mw = "lower" /\ s.filters[i].mw \in {"sameOrigin", "cors", "csrf"}
        => s.filters[i].pattern = Whole /\ s.filters[i].excluded = {}

\* Promise, Lets, RoutePath and RouteMiddlewares of what they are about: the request a, its CORS headers
\* al, and the session cs it sees.
PromiseOf(mw, a, al, cs) ==
    /\ mw = "sameOrigin" /\ a.method \notin Safe =>
         \/ a.fetch \in {"same-origin", "none"}
         \/ a.fetch = "absent" /\ a.origin = "own"
         \/ a.fetch = "absent" /\ a.origin = "none" /\ a.referer # "foreign"
    /\ mw = "cors" => a.origin = "none" \/ al.origin # "none"
    /\ mw = "csrf" /\ a.method \notin Safe => a.cookie = "live" /\ a.token = "live" /\ cs = "live"
LetsOf(mw, a, cs) ==
    /\ mw \in {"auth", "admin"} => cs = "live" /\ a.role # "none"
    /\ mw = "admin" => a.role = "admin"
    /\ mw = "jwt" => a.bearer # "none"
    /\ mw = "jwtAdmin" => a.bearer = "admin"
RoutePathOf(a, p) == IF a.raw # <<>> THEN a.raw ELSE p
MiddlewaresOf(s, r) ==
    [i \in DOMAIN s.scoped |->
        IF CoversRoute(s.scoped[i].pattern, s.scoped[i].excluded, r.pattern)
        THEN s.scoped[i].mw ELSE "none"] \o r.mws

\* The filters before link n that cover the path have kept their promises.
PromisesKeptBy(n, s, p, a, al, cs) ==
    \A i \in DOMAIN s.filters :
        i < n /\ Covers(s.filters[i].pattern, s.filters[i].excluded, p)
        => PromiseOf(s.filters[i].mw, a, al, cs)

\* HandlerIsGuarded, of the same.
GuardedBy(h, s, p, a, al, cs) ==
    \A r \in h :
        /\ r.method = a.method /\ RouteFits(r, RoutePathOf(a, p)) /\ h = {r}
        /\ PromisesKeptBy(Len(s.filters) + 1, s, p, a, al, cs)
        /\ \A i \in DOMAIN MiddlewaresOf(s, r) : LetsOf(MiddlewaresOf(s, r)[i], a, cs)

\* AnswerIsHonest, likewise, of what was written.
HonestOf(w, s, p, a) ==
    /\ w = <<404>> /\ RoutePathOf(a, p) = p => \A r \in s.routes : RouteFits(r, p) => r.pattern.deep
    /\ w = <<405>> =>
          /\ RoutePathOf(a, p) = p => \E r \in s.routes : RouteFits(r, p) /\ ~r.pattern.deep
          /\ \A r \in s.routes : RouteFits(r, RoutePathOf(a, p)) => r.method # a.method

HttpTypeOK ==
    /\ site \in Sites /\ Constructed(site.cors) /\ ask \in Asks[site]
    /\ link \in 0..(Len(site.filters) + 1)

\* Until the chain ends nothing is written and nothing has run.
NothingYet == link # 0 => written = <<>> /\ handled = {}

\* The session the request sees is the one its cookie names, or a fresh one if it names none.
SessionFits ==
    /\ holds \in {"none", "live", "fresh"}
    /\ holds = "live" => ask.cookie = "live"
    /\ holds = "fresh" => ask.cookie # "live"

HttpIInv ==
    /\ HttpTypeOK /\ NothingYet /\ SessionFits
    /\ link # 0 => PromisesKeptBy(link, site, path, ask, allowed, CurrentSession)
    /\ GuardedBy(handled, site, path, ask, allowed, CurrentSession)
    /\ HonestOf(written, site, path, ask)
    /\ link = 0 => written # <<>> \/ ~site.recovers
    /\ allowed.credentials => allowed.origin # "all"
    /\ tokenOut \in {"none", holds}

LEMMA HttpFollows == HttpIInv => AnswersBehindGuards
  <1> SUFFICES ASSUME HttpIInv PROVE AnswersBehindGuards
    OBVIOUS
  <1>0. RoutePath = RoutePathOf(ask, path)
    BY DEF RoutePath, RoutePathOf
  <1>1. \A mw : PromiseOf(mw, ask, allowed, CurrentSession) => Promise(mw)
    BY DEF PromiseOf, Promise
  <1>2. \A mw : LetsOf(mw, ask, CurrentSession) => Lets(mw)
    BY DEF LetsOf, Lets, LoggedIn
  <1>3. \A r : RouteMiddlewares(r) = MiddlewaresOf(site, r)
    BY DEF RouteMiddlewares, MiddlewaresOf
  <1>4. HandlerIsGuarded
    <2>1. site.filters \in Seq(Scoped)
      BY HttpAssumption DEF HttpIInv, HttpTypeOK
    <2>2. \A i \in DOMAIN site.filters : i < Len(site.filters) + 1
      BY <2>1
    <2>3. \A i \in DOMAIN site.filters :
            Covers(site.filters[i].pattern, site.filters[i].excluded, RoutePath)
            /\ ~Covers(site.filters[i].pattern, site.filters[i].excluded, path) => OutOfSight(site.filters[i])
      BY DEF OutOfSight
    <2>4. ASSUME NEW r \in handled
          PROVE  /\ r.method = ask.method /\ RouteFits(r, RoutePath) /\ handled = {r}
                 /\ \A i \in DOMAIN site.filters :
                      Covers(site.filters[i].pattern, site.filters[i].excluded, path) => Promise(site.filters[i].mw)
                 /\ \A i \in DOMAIN RouteMiddlewares(r) : Lets(RouteMiddlewares(r)[i])
      BY <1>0, <1>1, <1>2, <1>3, <2>2 DEF HttpIInv, GuardedBy, PromisesKeptBy
    <2> QED
      BY <2>3, <2>4 DEF HandlerIsGuarded
  <1>5. AnswerIsHonest
    BY <1>0 DEF HttpIInv, HonestOf, AnswerIsHonest
  <1> QED
    BY <1>4, <1>5 DEF AnswersBehindGuards

LEMMA HttpInitIInv == HttpInit => HttpIInv
  <1> SUFFICES ASSUME HttpInit PROVE HttpIInv
    OBVIOUS
  <1>1. site \in Sites /\ site.filters \in Seq(Scoped) /\ Len(site.filters) \in Nat
    BY HttpAssumption DEF HttpInit
  <1>2. HttpTypeOK
    BY <1>1 DEF HttpInit, HttpTypeOK
  <1>3. PromisesKeptBy(link, site, path, ask, allowed, CurrentSession)
    BY <1>1 DEF HttpInit, PromisesKeptBy
  <1>4. GuardedBy(handled, site, path, ask, allowed, CurrentSession) /\ HonestOf(written, site, path, ask)
    BY DEF HttpInit, GuardedBy, HonestOf
  <1> QED
    BY <1>2, <1>3, <1>4 DEF HttpInit, HttpIInv, NothingYet, SessionFits

\* The types of a site.
LEMMA SiteFacts ==
    ASSUME HttpIInv
    PROVE  /\ site.filters \in Seq(Scoped) /\ Len(site.filters) \in Nat
           /\ DOMAIN site.filters = 1..Len(site.filters)
           /\ link \in 0..(Len(site.filters) + 1)
           /\ site \in Sites /\ ask \in Asks[site] /\ Constructed(site.cors)
  BY HttpAssumption DEF HttpIInv, HttpTypeOK

\* A promise is kept for good.
LEMMA PromiseStays ==
    ASSUME NEW mw, NEW a, NEW al, NEW bl, NEW cs, NEW ds, PromiseOf(mw, a, al, cs),
           al.origin # "none" => bl.origin # "none", cs = "live" => ds = "live"
    PROVE  PromiseOf(mw, a, bl, ds)
  BY DEF PromiseOf

\* A filter lets the request through, with its promise kept.
LEMMA FilterPasses ==
    ASSUME HttpIInv, link \in DOMAIN site.filters, UNCHANGED <<site, ask, path, written, handled>>,
           Passing, SessionFits', CurrentSession = "live" => CurrentSession' = "live",
           allowed.origin # "none" => allowed'.origin # "none",
           allowed'.credentials => allowed'.origin # "all",
           tokenOut' \in {"none", holds'},
           Covers(site.filters[link].pattern, site.filters[link].excluded, path)
           => PromiseOf(site.filters[link].mw, ask, allowed', CurrentSession')
    PROVE  HttpIInv'
  <1> DEFINE n == Len(site.filters)
  <1>1. /\ n \in Nat /\ DOMAIN site.filters = 1..n
        /\ link' = link + 1 /\ link \in 1..n /\ written = <<>> /\ handled = {}
    BY SiteFacts DEF Passing, HttpIInv, NothingYet
  <1> HIDE DEF n
  <1>2. HttpTypeOK'
    BY <1>1 DEF HttpIInv, HttpTypeOK, n
  <1>3. PromisesKeptBy(link', site', path', ask', allowed', CurrentSession')
    <2> SUFFICES ASSUME NEW i \in DOMAIN site.filters, i < link + 1,
                        Covers(site.filters[i].pattern, site.filters[i].excluded, path)
                 PROVE  PromiseOf(site.filters[i].mw, ask, allowed', CurrentSession')
      BY <1>1 DEF PromisesKeptBy
    <2>1. CASE i = link
      BY <2>1
    <2>2. CASE i < link
      <3>1. PromiseOf(site.filters[i].mw, ask, allowed, CurrentSession)
        BY <1>1, <2>2 DEF HttpIInv, PromisesKeptBy
      <3> QED
        BY <3>1, PromiseStays
    <2> QED
      BY <1>1, <2>1, <2>2
  <1>4. GuardedBy(handled', site', path', ask', allowed', CurrentSession')
    BY <1>1 DEF GuardedBy
  <1> QED
    BY <1>1, <1>2, <1>3, <1>4 DEF HttpIInv, NothingYet

\* The chain ends and no handler has run.
LEMMA ChainEnds ==
    ASSUME HttpIInv, link # 0, UNCHANGED <<site, ask, path, holds, tokenOut, handled>>, link' = 0,
           written' # <<>> \/ ~site.recovers, HonestOf(written', site, path, ask),
           allowed'.credentials => allowed'.origin # "all"
    PROVE  HttpIInv'
  <1>1. handled = {}
    BY DEF HttpIInv, NothingYet
  <1>2. GuardedBy(handled', site', path', ask', allowed', CurrentSession')
    BY <1>1 DEF GuardedBy
  <1>3. HttpTypeOK'
    BY SiteFacts DEF HttpTypeOK
  <1> QED
    BY <1>1, <1>2, <1>3 DEF HttpIInv, NothingYet, SessionFits

LEMMA OtherAnswers ==
    ASSUME NEW status, status \notin {404, 405}, NEW s, NEW p, NEW a
    PROVE  <<status>> # <<>> /\ HonestOf(<<status>>, s, p, a)
  BY DEF HonestOf

LEMMA StopsThere ==
    ASSUME HttpIInv, link # 0, UNCHANGED <<site, ask, path, holds, tokenOut, handled>>,
           NEW status, status \notin {404, 405}, Stop(status),
           allowed'.credentials => allowed'.origin # "all"
    PROVE  HttpIInv'
  <1>1. link' = 0 /\ written' = <<status>>
    BY DEF Stop, HttpIInv, NothingYet
  <1> QED
    BY <1>1, OtherAnswers, ChainEnds

\* Where a filter's turn is.
LEMMA TurnFacts ==
    ASSUME HttpIInv, NEW mw, Turn(mw)
    PROVE  /\ link \in DOMAIN site.filters /\ link # 0 /\ site.filters[link].mw = mw
           /\ SessionFits /\ tokenOut \in {"none", holds}
           /\ allowed.credentials => allowed.origin # "all"
  <1>1. link \in DOMAIN site.filters /\ site.filters[link].mw = mw
    BY DEF Turn, Filter
  <1>2. link # 0
    BY <1>1, SiteFacts
  <1> QED
    BY <1>1, <1>2 DEF HttpIInv

\* A filter that promises nothing.
LEMMA NoPromise ==
    ASSUME NEW mw, mw \notin {"sameOrigin", "cors", "csrf"}, NEW a, NEW al, NEW cs
    PROVE  PromiseOf(mw, a, al, cs)
  BY DEF PromiseOf

LEMMA SkipIInv == HttpIInv /\ Skip => HttpIInv'
  <1> SUFFICES ASSUME HttpIInv, Skip PROVE HttpIInv'
    OBVIOUS
  <1>1. /\ link \in DOMAIN site.filters /\ Passing
        /\ ~Covers(site.filters[link].pattern, site.filters[link].excluded, path)
        /\ UNCHANGED <<site, ask, path, holds, tokenOut, written, handled, allowed>>
    BY DEF Skip, Filter
  <1>2. SessionFits' /\ CurrentSession' = CurrentSession
    BY <1>1 DEF HttpIInv, SessionFits, CurrentSession
  <1>3. (allowed.credentials => allowed.origin # "all") /\ tokenOut \in {"none", holds}
    BY DEF HttpIInv
  <1> QED
    BY <1>1, <1>2, <1>3, FilterPasses

LEMMA SecurityHeadersIInv == HttpIInv /\ SecurityHeaders => HttpIInv'
  <1> SUFFICES ASSUME HttpIInv, SecurityHeaders PROVE HttpIInv'
    OBVIOUS
  <1>1. Turn("headers") /\ Passing /\ UNCHANGED <<site, ask, path, holds, tokenOut, written, handled, allowed>>
    BY DEF SecurityHeaders
  <1>2. SessionFits' /\ CurrentSession' = CurrentSession
    BY <1>1 DEF HttpIInv, SessionFits, CurrentSession
  <1>3. PromiseOf("headers", ask, allowed', CurrentSession')
    BY NoPromise
  <1> QED
    BY <1>1, <1>2, <1>3, TurnFacts, FilterPasses

LEMMA SameOriginIInv == HttpIInv /\ SameOrigin => HttpIInv'
  <1> SUFFICES ASSUME HttpIInv, SameOrigin PROVE HttpIInv'
    OBVIOUS
  <1>1. Turn("sameOrigin") /\ UNCHANGED <<site, ask, path, holds, tokenOut, handled, allowed>>
    BY DEF SameOrigin
  <1>2. CASE Stop(403)
    BY <1>1, <1>2, TurnFacts, StopsThere
  <1>3. CASE Passing /\ UNCHANGED written /\ ~(ask.method \notin Safe /\ refuse)
    <2>1. SessionFits' /\ CurrentSession' = CurrentSession
      BY <1>1 DEF HttpIInv, SessionFits, CurrentSession
    <2>2. PromiseOf("sameOrigin", ask, allowed', CurrentSession')
      <3>1. ask.fetch \in {"absent", "none", "same-origin", "same-site", "cross-site"}
        BY SiteFacts, HttpAssumption
      <3> QED
        BY <1>3, <3>1 DEF PromiseOf, refuse
    <2> QED
      BY <1>1, <1>3, <2>1, <2>2, TurnFacts, FilterPasses
  <1> QED
    BY <1>2, <1>3 DEF SameOrigin

\* A credentialed answer is not for everybody.
LEMMA AllowOriginFacts ==
    ASSUME HttpIInv, ask.origin # "none"
    PROVE  /\ AllowOrigin(site.cors).origin # "none"
           /\ AllowOrigin(site.cors).credentials => AllowOrigin(site.cors).origin # "all"
  <1>1. ask.origin \in {"own", "listed", "foreign"} /\ Constructed(site.cors)
    BY SiteFacts, HttpAssumption
  <1> QED
    BY <1>1 DEF AllowOrigin, allowedOriginsAll, Constructed, wildcardsEveryOrigin

LEMMA CorsIInv == HttpIInv /\ Cors => HttpIInv'
  <1> SUFFICES ASSUME HttpIInv, Cors PROVE HttpIInv'
    OBVIOUS
  <1>1. /\ Turn("cors") /\ UNCHANGED <<site, ask, path, holds, tokenOut, handled>>
        /\ allowed' = IF ask.origin # "none" /\ (link' # 0 \/ written' = <<200>>)
                      THEN AllowOrigin(site.cors) ELSE allowed
    BY DEF Cors
  <1>2. /\ allowed.origin # "none" => allowed'.origin # "none"
        /\ allowed'.credentials => allowed'.origin # "all"
        /\ ask.origin # "none" /\ link' # 0 => allowed'.origin # "none"
    BY <1>1, AllowOriginFacts, TurnFacts
  <1>3. CASE \E status \in {200, 400, 403} : Stop(status)
    BY <1>1, <1>2, <1>3, TurnFacts, StopsThere
  <1>4. CASE Passing /\ UNCHANGED written
    <2>1. SessionFits' /\ CurrentSession' = CurrentSession
      BY <1>1 DEF HttpIInv, SessionFits, CurrentSession
    <2>2. link' # 0
      BY <1>1, <1>4, SiteFacts, TurnFacts DEF Passing
    <2>3. PromiseOf("cors", ask, allowed', CurrentSession')
      BY <1>2, <2>2 DEF PromiseOf
    <2> QED
      BY <1>1, <1>2, <1>4, <2>1, <2>3, TurnFacts, FilterPasses
  <1> QED
    BY <1>3, <1>4 DEF Cors

LEMMA RateLimitedIInv == HttpIInv /\ RateLimited => HttpIInv'
  <1> SUFFICES ASSUME HttpIInv, RateLimited PROVE HttpIInv'
    OBVIOUS
  <1>1. Turn("limit") /\ UNCHANGED <<site, ask, path, holds, tokenOut, handled, allowed>>
    BY DEF RateLimited
  <1>2. CASE Stop(429)
    BY <1>1, <1>2, TurnFacts, StopsThere
  <1>3. CASE Passing /\ UNCHANGED written
    <2>1. SessionFits' /\ CurrentSession' = CurrentSession
      BY <1>1 DEF HttpIInv, SessionFits, CurrentSession
    <2>2. PromiseOf("limit", ask, allowed', CurrentSession')
      BY NoPromise
    <2> QED
      BY <1>1, <1>3, <2>1, <2>2, TurnFacts, FilterPasses
  <1> QED
    BY <1>2, <1>3 DEF RateLimited

\* What the request sees, in terms of its cookie.
LEMMA SessionSeen ==
    ASSUME HttpIInv
    PROVE  /\ CurrentSession = "live" <=> ask.cookie = "live"
           /\ CurrentSession \in {"none", "live", "fresh"}
           /\ CurrentSession = "none" => holds = "none"
           /\ holds # "none" => CurrentSession = holds
  BY DEF HttpIInv, SessionFits, CurrentSession

LEMMA SessionStartedIInv == HttpIInv /\ SessionStarted => HttpIInv'
  <1> SUFFICES ASSUME HttpIInv, SessionStarted PROVE HttpIInv'
    OBVIOUS
  <1>1. Turn("session") /\ Passing /\ UNCHANGED <<site, ask, path, written, handled, allowed>>
    BY DEF SessionStarted
  <1>2. /\ CurrentSession = "live" <=> ask.cookie = "live"
        /\ CurrentSession \in {"none", "live", "fresh"}
        /\ tokenOut \in {"none", holds} /\ SessionFits
    BY SessionSeen DEF HttpIInv
  <1>3. \/ holds' = holds /\ tokenOut' = tokenOut
        \/ holds' = CurrentSession /\ tokenOut' \in {"none", CurrentSession}
        \/ CurrentSession = "none" /\ holds' = "fresh" /\ tokenOut' \in {"none", "fresh"}
    BY DEF SessionStarted
  <1>4. SessionFits' /\ tokenOut' \in {"none", holds'}
    BY <1>1, <1>2, <1>3 DEF SessionFits
  <1>5. CurrentSession = "live" => CurrentSession' = "live"
    BY <1>1, <1>2, <1>4 DEF CurrentSession, SessionFits
  <1>6. PromiseOf("session", ask, allowed', CurrentSession')
    BY NoPromise
  <1> QED
    BY <1>1, <1>4, <1>5, <1>6, TurnFacts, FilterPasses

LEMMA CSRFIInv == HttpIInv /\ CSRF => HttpIInv'
  <1> SUFFICES ASSUME HttpIInv, CSRF PROVE HttpIInv'
    OBVIOUS
  <1>1. Turn("csrf") /\ UNCHANGED <<site, ask, path, holds, tokenOut, handled, allowed>>
    BY DEF CSRF
  <1>2. CASE \E status \in {204, 403} : Stop(status)
    BY <1>1, <1>2, TurnFacts, StopsThere
  <1>3. CASE Passing /\ UNCHANGED written /\ (ask.method \in Safe \/ TokenMatches)
    <2>1. SessionFits' /\ CurrentSession' = CurrentSession
      BY <1>1 DEF HttpIInv, SessionFits, CurrentSession
    <2>2. PromiseOf("csrf", ask, allowed', CurrentSession')
      BY <1>3, <2>1, SessionSeen DEF PromiseOf, TokenMatches
    <2> QED
      BY <1>1, <1>3, <2>1, <2>2, TurnFacts, FilterPasses
  <1> QED
    BY <1>2, <1>3 DEF CSRF, Safe

\* The path is rewritten, and every guard that is scoped by it is still to come.
LEMMA CaseSensitiveIInv == RewritesFirst /\ HttpIInv /\ CaseSensitive => HttpIInv'
  <1> SUFFICES ASSUME RewritesFirst, HttpIInv, CaseSensitive PROVE HttpIInv'
    OBVIOUS
  <1> DEFINE n == Len(site.filters)
  <1>1. /\ UNCHANGED <<site, ask, holds, tokenOut, written, handled, allowed>> /\ link' = link + 1
        /\ link \in DOMAIN site.filters /\ link # 0 /\ site.filters[link].mw = "lower"
    BY TurnFacts DEF CaseSensitive, Passing
  <1>2. /\ n \in Nat /\ DOMAIN site.filters = 1..n /\ link \in 1..n /\ site \in Sites
        /\ written = <<>> /\ handled = {}
    BY <1>1, SiteFacts DEF HttpIInv, NothingYet
  <1>3. CurrentSession' = CurrentSession
    BY <1>1 DEF CurrentSession
  <1> HIDE DEF n
  <1>4. HttpTypeOK'
    BY <1>1, <1>2 DEF HttpIInv, HttpTypeOK, n
  <1>5. PromisesKeptBy(link', site', path', ask', allowed', CurrentSession')
    <2> SUFFICES ASSUME NEW i \in DOMAIN site.filters, i < link + 1
                 PROVE  PromiseOf(site.filters[i].mw, ask, allowed, CurrentSession)
      BY <1>1, <1>3 DEF PromisesKeptBy
    <2>1. CASE site.filters[i].mw \notin {"sameOrigin", "cors", "csrf"}
      BY <2>1, NoPromise
    <2>2. CASE site.filters[i].mw \in {"sameOrigin", "cors", "csrf"}
      <3>1. i < link
        BY <1>1, <1>2, <2>2
      <3>2. site.filters[i].pattern = Whole /\ site.filters[i].excluded = {}
        BY <1>1, <1>2, <2>2, <3>1 DEF RewritesFirst
      <3>3. Covers(site.filters[i].pattern, site.filters[i].excluded, path)
        BY <3>2 DEF Covers, matches
      <3> QED
        BY <1>1, <3>1, <3>3 DEF HttpIInv, PromisesKeptBy
    <2> QED
      BY <2>1, <2>2
  <1>6. GuardedBy(handled', site', path', ask', allowed', CurrentSession') /\ HonestOf(written', site', path', ask')
    BY <1>1, <1>2 DEF GuardedBy, HonestOf
  <1> QED
    BY <1>1, <1>2, <1>4, <1>5, <1>6 DEF HttpIInv, NothingYet, SessionFits

\* Any set of numbers has a least one.
LEMMA LeastOf ==
    ASSUME NEW T \in SUBSET Nat, T # {}
    PROVE  \E x \in T : \A y \in T : x <= y
  <1>1. PICK x \in T : \A y \in T : ~(<<y, x>> \in OpToRel(<, Nat))
    BY NatLessThanWellFounded, WFMin
  <1>2. \A y \in T : ~(y < x)
    BY <1>1 DEF OpToRel
  <1> QED
    BY <1>2

LEMMA WildIsNat ==
    ASSUME NEW r \in [method : STRING, pattern : Pattern, mws : Seq(STRING), issues : BOOLEAN]
    PROVE  Wild(r) \in Nat
  <1> DEFINE D == {i \in DOMAIN r.pattern.segs : r.pattern.segs[i] = "*"}
  <1>1. r.pattern.segs \in Seq(STRING)
    BY DEF Pattern
  <1>2. IsFiniteSet(1..Len(r.pattern.segs)) /\ D \subseteq 1..Len(r.pattern.segs)
    BY <1>1, FS_Interval
  <1>3. Cardinality(D) \in Nat
    BY <1>2, FS_Subset, FS_CardinalityType
  <1> QED
    BY <1>3 DEF Wild

\* chi finds a route where there is one.
LEMMA NonePicked ==
    ASSUME HttpIInv, NEW method, Picked(method, RoutePath) = {}
    PROVE  \A r \in site.routes : RouteFits(r, RoutePath) => r.method # method
  <1> DEFINE able == {r \in site.routes : r.method = method /\ RouteFits(r, RoutePath)}
             T == {Wild(r) : r \in able}
  <1>1. SUFFICES able = {}
    OBVIOUS
  <1>2. SUFFICES ASSUME able # {} PROVE FALSE
    OBVIOUS
  <1>3. \A r \in able : Wild(r) \in Nat
    BY SiteFacts, HttpAssumption, WildIsNat
  <1>4. PICK x \in T : \A y \in T : x <= y
    BY <1>2, <1>3, LeastOf
  <1>5. PICK r \in able : Wild(r) = x
    BY <1>4
  <1>6. r \in {s \in able : \A other \in able : Wild(s) <= Wild(other)}
    BY <1>4, <1>5
  <1>7. Picked(method, RoutePath) = {s \in able : \A other \in able : Wild(s) <= Wild(other)}
    BY DEF Picked
  <1> QED
    BY <1>6, <1>7

\* A route that refuses nobody lets everybody in.
LEMMA NoneRefusing ==
    ASSUME HttpIInv, NEW r \in site.routes, FirstRefusing(r) = {}
    PROVE  \A i \in DOMAIN MiddlewaresOf(site, r) : LetsOf(MiddlewaresOf(site, r)[i], ask, CurrentSession)
  <1> DEFINE M == MiddlewaresOf(site, r)
             T == {i \in DOMAIN M : ~Lets(M[i])}
  <1>1. \A mw : Lets(mw) => LetsOf(mw, ask, CurrentSession)
    BY DEF Lets, LetsOf, LoggedIn
  <1>2. RouteMiddlewares(r) = M
    BY DEF RouteMiddlewares, MiddlewaresOf
  <1>3. M \in Seq(STRING \cup {"none"})
    <2> DEFINE U == STRING \cup {"none"}
               n == Len(site.scoped)
               Named(i) == IF CoversRoute(site.scoped[i].pattern, site.scoped[i].excluded, r.pattern)
                           THEN site.scoped[i].mw ELSE "none"
               S == [i \in DOMAIN site.scoped |-> Named(i)]
    <2>1. site.scoped \in Seq(Scoped) /\ r.mws \in Seq(STRING)
      BY SiteFacts, HttpAssumption
    <2>2. n \in Nat /\ DOMAIN site.scoped = 1..n /\ \A i \in 1..n : site.scoped[i] \in Scoped
      BY <2>1
    <2>3. ASSUME NEW i \in 1..n PROVE Named(i) \in U
      <3>1. site.scoped[i].mw \in STRING
        BY <2>2 DEF Scoped
      <3> QED
        BY <3>1
    <2>4. r.mws \in Seq(U)
      <3>1. Len(r.mws) \in Nat /\ r.mws \in [1..Len(r.mws) -> STRING]
        BY <2>1, LenProperties
      <3>2. r.mws \in [1..Len(r.mws) -> U]
        BY <3>1
      <3> HIDE DEF U
      <3> QED
        BY <3>1, <3>2
    <2>5. MiddlewaresOf(site, r) = S \o r.mws
      BY DEF MiddlewaresOf
    <2> HIDE DEF n, Named, U
    <2>6. S \in [1..n -> U]
      BY <2>2, <2>3
    <2> HIDE DEF S
    <2>7. S \in Seq(U)
      BY <2>2, <2>6
    <2>8. S \o r.mws \in Seq(U)
      BY <2>4, <2>7, ConcatProperties
    <2> QED
      BY <2>5, <2>8 DEF U
  <1> HIDE DEF M
  <1>4. ASSUME T # {} PROVE FALSE
    <2>1. T \in SUBSET Nat /\ DOMAIN M = 1..Len(M) /\ Len(M) \in Nat
      BY <1>3
    <2>2. PICK i \in T : \A j \in T : i <= j
      BY <1>4, <2>1, LeastOf
    <2>3. \A j \in 1..(i - 1) : Lets(M[j])
      BY <2>1, <2>2
    <2> QED
      BY <1>2, <2>1, <2>2, <2>3 DEF FirstRefusing
  <1> QED
    BY <1>1, <1>4 DEF M

LEMMA OneAnswer == \A status : Append(<<>>, status) = <<status>>
  OBVIOUS

LEMMA RefusedIInv == ASSUME HttpIInv, Routed, NEW r, Refused(r) PROVE HttpIInv'
  <1>1. PICK status \in {302, 401, 403, 500} : Panics(status) \/ Stop(status)
    BY DEF Refused, Refusal
  <1>2. link # 0 /\ UNCHANGED <<site, ask, path, holds, tokenOut, handled, allowed>>
        /\ (allowed.credentials => allowed.origin # "all") /\ written = <<>>
    BY SiteFacts DEF Refused, Routed, HttpIInv, NothingYet
  <1>4. HonestOf(<<>>, site, path, ask) /\ HonestOf(<<status>>, site, path, ask) /\ <<status>> # <<>>
    BY <1>1 DEF HonestOf
  <1>5. link' = 0 /\ (written' = <<status>> \/ (written' = <<>> /\ ~site.recovers))
    BY <1>1, <1>2, OneAnswer DEF Panics, Stop
  <1> QED
    BY <1>2, <1>4, <1>5, ChainEnds

\* A handler that runs, or is not called for its input's sake.
LEMMA HandledIInv ==
    ASSUME HttpIInv, Routed, NEW r \in Picked(ask.method, RoutePath), Handled(r)
    PROVE  HttpIInv'
  <1>1. /\ site.filters \in Seq(Scoped) /\ link = Len(site.filters) + 1 /\ link # 0
        /\ written = <<>> /\ handled = {}
        /\ UNCHANGED <<site, ask, path, allowed>> /\ (allowed.credentials => allowed.origin # "all")
    BY SiteFacts DEF Handled, Routed, HttpIInv, NothingYet
  <1>2. r \in site.routes /\ r.method = ask.method /\ RouteFits(r, RoutePathOf(ask, path))
    BY DEF Picked, RoutePath, RoutePathOf
  <1>3. /\ CurrentSession = "live" <=> ask.cookie = "live"
        /\ CurrentSession \in {"none", "live", "fresh"}
        /\ tokenOut \in {"none", holds} /\ SessionFits
        /\ (CurrentSession = "none" => holds = "none") /\ (holds # "none" => CurrentSession = holds)
    BY SessionSeen DEF HttpIInv
  <1>4. /\ \/ UNCHANGED <<holds, tokenOut>>
           \/ /\ holds' = IF CurrentSession = "none" THEN "fresh" ELSE CurrentSession
              /\ tokenOut' = holds' \/ tokenOut' = tokenOut
        /\ handled' = handled \/ handled' = handled \cup {r}
        /\ link' = 0
    BY DEF Handled, Stop, Panics
  <1>5. SessionFits' /\ tokenOut' \in {"none", holds'}
    BY <1>1, <1>3, <1>4 DEF SessionFits
  <1>6. CurrentSession = "live" => CurrentSession' = "live"
    BY <1>1, <1>3, <1>5 DEF CurrentSession, SessionFits
  <1>7. GuardedBy(handled', site', path', ask', allowed', CurrentSession')
    <2>1. PromisesKeptBy(Len(site.filters) + 1, site, path, ask, allowed, CurrentSession')
      <3>1. PromisesKeptBy(Len(site.filters) + 1, site, path, ask, allowed, CurrentSession)
        BY <1>1 DEF HttpIInv
      <3> QED
        BY <1>6, <3>1, PromiseStays DEF PromisesKeptBy
    <2>2. \A i \in DOMAIN MiddlewaresOf(site, r) : LetsOf(MiddlewaresOf(site, r)[i], ask, CurrentSession')
      BY <1>2, <1>6, NoneRefusing DEF Handled, LetsOf
    <2> QED
      BY <1>1, <1>2, <1>4, <2>1, <2>2 DEF GuardedBy
  <1>8. HonestOf(written', site, path, ask) /\ (written' # <<>> \/ ~site.recovers)
    <2>1. \/ \E status \in {400, 200, 500} : written' = Append(written, status)
          \/ written' = written /\ ~site.recovers
          \/ written' = written \o <<200>> \o (IF site.recovers THEN <<500>> ELSE <<>>)
      BY DEF Handled, Stop, Panics
    <2>2. CASE \E status \in {400, 200, 500} : written' = Append(written, status)
      BY <1>1, <2>2, OneAnswer DEF HonestOf
    <2>3. CASE written' = written /\ ~site.recovers
      BY <1>1, <2>3 DEF HonestOf
    <2>4. CASE written' = written \o <<200>> \o (IF site.recovers THEN <<500>> ELSE <<>>)
      <3>1. /\ <<>> \in Seq(Nat) /\ <<200>> \in Seq(Nat) /\ <<500>> \in Seq(Nat)
            /\ Len(<<>>) = 0 /\ Len(<<200>>) = 1
        OBVIOUS
      <3> DEFINE t == IF site.recovers THEN <<500>> ELSE <<>>
      <3>2. t \in Seq(Nat)
        BY <3>1
      <3>3. written' = <<>> \o <<200>> \o t
        BY <1>1, <2>4
      <3> HIDE DEF t
      <3>4. <<>> \o <<200>> = <<200>>
        BY <3>1
      <3>5. (<<200>> \o t)[1] = <<200>>[1] /\ Len(<<200>> \o t) = 1 + Len(t) /\ Len(t) \in Nat
        BY <3>1, <3>2
      <3>6. written'[1] = 200 /\ Len(written') # 0
        BY <3>3, <3>4, <3>5
      <3> QED
        BY <3>6 DEF HonestOf
    <2> QED
      BY <2>1, <2>2, <2>3, <2>4
  <1>9. HttpTypeOK'
    BY <1>1, <1>4, SiteFacts DEF HttpTypeOK
  <1> QED
    BY <1>1, <1>4, <1>5, <1>7, <1>8, <1>9 DEF HttpIInv, NothingYet

LEMMA PreflightIInv == HttpIInv /\ Preflight => HttpIInv'
  <1> SUFFICES ASSUME HttpIInv, Preflight PROVE HttpIInv'
    OBVIOUS
  <1>1. /\ link # 0 /\ (allowed.credentials => allowed.origin # "all")
        /\ UNCHANGED <<site, ask, path, holds, tokenOut, handled, allowed>> /\ Stop(204)
    BY SiteFacts DEF Preflight, Routed, HttpIInv
  <1> QED
    BY <1>1, StopsThere

LEMMA UnroutedIInv == HttpIInv /\ Unrouted => HttpIInv'
  <1> SUFFICES ASSUME HttpIInv, Unrouted PROVE HttpIInv'
    OBVIOUS
  <1> DEFINE claimed == \E r \in site.routes : RouteFits(r, RoutePath)
             status == IF claimed /\ methodsForPath(path) # {} THEN 405 ELSE 404
  <1>1. /\ link # 0 /\ (allowed.credentials => allowed.origin # "all") /\ written = <<>>
        /\ UNCHANGED <<site, ask, path, holds, tokenOut, handled, allowed>> /\ Stop(status)
    BY SiteFacts DEF Unrouted, Routed, HttpIInv, NothingYet
  <1>2. methodsForPath(path) = {} <=> isConcrete(path) = {}
    BY DEF methodsForPath
  <1>3. HonestOf(<<status>>, site, path, ask) /\ <<status>> # <<>>
    <2>1. \A r \in site.routes : RouteFits(r, RoutePath) => r.method # ask.method
      BY NonePicked DEF Unrouted
    <2>2. RoutePath = RoutePathOf(ask, path)
      BY DEF RoutePath, RoutePathOf
    <2>3. CASE claimed /\ methodsForPath(path) # {}
      BY <1>2, <2>1, <2>2, <2>3 DEF HonestOf, isConcrete
    <2>4. CASE ~(claimed /\ methodsForPath(path) # {})
      BY <1>2, <2>2, <2>4 DEF HonestOf, isConcrete
    <2> QED
      BY <2>3, <2>4
  <1>4. link' = 0 /\ written' = <<status>>
    BY <1>1 DEF Stop
  <1> QED
    BY <1>1, <1>3, <1>4, ChainEnds

LEMMA HttpStepIInv == RewritesFirst /\ HttpIInv /\ [HttpNext]_httpVars => HttpIInv'
  <1> SUFFICES ASSUME RewritesFirst, HttpIInv, [HttpNext]_httpVars PROVE HttpIInv'
    OBVIOUS
  <1>1. CASE UNCHANGED httpVars
    <2>1. CurrentSession' = CurrentSession
      BY <1>1 DEF httpVars, CurrentSession
    <2> QED
      BY <1>1, <2>1 DEF httpVars, HttpIInv, HttpTypeOK, NothingYet, SessionFits
  <1>2. CASE Route
    BY <1>2, RefusedIInv, HandledIInv DEF Route
  <1> QED
    BY <1>1, <1>2, SkipIInv, SecurityHeadersIInv, CaseSensitiveIInv, SameOriginIInv, CorsIInv,
       RateLimitedIInv, SessionStartedIInv, CSRFIInv, PreflightIInv, UnroutedIInv DEF HttpNext

\* A handler runs only for its own route, behind every filter and middleware that covers it, and
\* 404, 405 and the token handed out say what they mean (http/router/router.go, http/middleware).
THEOREM OnlyBehindGuards ==
    ASSUME RewritesFirst
    PROVE  HttpSpec => []AnswersBehindGuards
  <1> QED
    BY RewritesFirst, HttpFollows, HttpInitIInv, HttpStepIInv, PTL DEF HttpSpec
=============================================================================
