---------------------------- MODULE AuthStrategy ----------------------------
(***************************************************************************)
(* How StandardAuthStrategy moves an identity between session identifiers  *)
(* (auth/standard_auth_strategy.go), driven by SessionMiddleware and by    *)
(* the login and logout handlers.                                          *)
(*                                                                         *)
(* One browser, with one cookie jar, has several requests in flight to one *)
(* process.  Requests interleave at every call of the session storage, and *)
(* their responses arrive in any order or not at all.  The storage is      *)
(* abstract: SessionMediator and SessionRecord model what is behind it.  A *)
(* call of it succeeds, fails without effect, or fails having had its      *)
(* effect.                                                                 *)
(*                                                                         *)
(* An identity is the login that established it, named by the session      *)
(* identifier that login minted: carrying an identity over to another      *)
(* identifier does not change its name, logging in again makes a new one.  *)
(*                                                                         *)
(* Whether a session is due for rotation depends on clocks only and is a   *)
(* choice.  An expired session is one the storage no longer answers with.  *)
(***************************************************************************)
EXTENDS Naturals

CONSTANTS
    Ids,       \* session identifiers (bound: as many as may be minted)
    Requests,  \* requests in flight at once
    MaxFaults, \* bound: failed calls, lost responses and restarts
    Nobody,    \* the identity of an anonymous session
    None,      \* no row, no cookie, no session
    Keep       \* a response without Set-Cookie

ASSUME FaultsAssumption == MaxFaults \in Nat
ASSUME DistinctAssumption ==
    /\ Nobody # None /\ Nobody # Keep /\ None # Keep
    /\ {Nobody, None, Keep} \cap Ids = {}

VARIABLES
    row,     \* row[id]: whose session is stored under id, or None
    owed,    \* ids whose revocation failed (core.RevocationPending)
    minted,  \* ids generated so far
    jar,     \* the session cookie the browser holds, or None
    req,     \* req[q]: where the request is
    faults,  \* what went wrong so far, up to MaxFaults
    shown,   \* history: ids that were ever put in a Set-Cookie
    failed   \* history: identities whose login was reported as failed

store == <<row, owed, minted>>
history == <<shown, failed>>
vars == <<store, jar, req, faults, history>>

Principals == Ids \cup {Nobody}

Request ==
    [pc : {"idle", "resolve", "revoke", "mint", "carry", "authenticate",
           "persist", "undo", "logout", "reply"},
     op : {"page", "login", "logout"},
     goal : {"visit",      \* the middleware's CurrentSession
             "anonymous",  \* the middleware's NewSessionWithoutUser
             "enter",      \* the handler's CurrentSession
             "login"},     \* the session Login creates
     sid : Ids \cup {None},  \* ResolveSessionId: the published session, else the cookie
     scoped : BOOLEAN,       \* a session is published in the request's scope
     old : Ids \cup {None},        \* the session being rotated
     who : Principals,             \* the identity read from it
     new : Ids \cup {None},        \* the session created and not yet answered for
     cookie : Ids \cup {None, Keep},  \* the Set-Cookie of the response
     stuck : Ids \cup {None},      \* history: its cookie, if owed at the start
     me : Principals]              \* history: whom a logout is to log out

Idle == [pc |-> "idle", op |-> "page", goal |-> "visit", sid |-> None,
         scoped |-> FALSE, old |-> None, who |-> Nobody, new |-> None,
         cookie |-> Keep, stuck |-> None, me |-> Nobody]

TypeOK ==
    /\ row \in [Ids -> Principals \cup {None}]
    /\ owed \subseteq Ids /\ minted \subseteq Ids
    /\ jar \in Ids \cup {None}
    /\ req \in [Requests -> Request]
    /\ faults \in 0..MaxFaults
    /\ shown \subseteq minted /\ failed \subseteq minted
    /\ \A id \in Ids \ minted : row[id] = None

Init ==
    /\ row = [id \in Ids |-> None]
    /\ owed = {} /\ minted = {}
    /\ jar = None
    /\ req = [q \in Requests |-> Idle]
    /\ faults = 0
    /\ shown = {} /\ failed = {}

-----------------------------------------------------------------------------
RevocationPending(id) == id \in owed

\* Something goes wrong.
Fault == faults < MaxFaults /\ faults' = faults + 1

\* DeleteSession of the storage: it deletes, or fails, with the row gone or
\* not, and from then on owes the revocation.
RevokeSucceeds(id) ==
    /\ UNCHANGED faults
    /\ row' = [row EXCEPT ![id] = None]
    /\ owed' = owed \ {id}

RevokeFails(id) ==
    /\ Fault
    /\ row' \in {row, [row EXCEPT ![id] = None]}
    /\ owed' = owed \cup {id}

\* The request is answered; what it held is gone with it.
Answer(r) == [Idle EXCEPT !.pc = "reply", !.cookie = r.cookie, !.stuck = r.stuck]

\* next(message): the handler runs, with a session in its scope or without.
\* Login asks for the current session again, and so does message.Context()
\* while the scope has none.
Handler(r) ==
    IF r.op = "login" \/ ~r.scoped
    THEN [r EXCEPT !.pc = "resolve", !.goal = "enter"]
    ELSE IF r.op = "logout" THEN [r EXCEPT !.pc = "logout", !.goal = "enter"]
    ELSE Answer(r)

\* CurrentSession answered nil: what its caller does.  The scope has no
\* session, and message.Context() asks again as often as it is called.
NoSession(r) ==
    CASE r.goal = "visit" -> {[r EXCEPT !.pc = "resolve"],
                              [r EXCEPT !.pc = "mint", !.goal = "anonymous"]}
      [] r.goal = "enter" ->
            CASE r.op = "login" -> {[r EXCEPT !.pc = "mint", !.goal = "login"]}
              [] r.op = "logout" -> {[r EXCEPT !.pc = "logout"]}
              [] OTHER -> {Answer(r)}

\* Fault: Login authenticates the session it finds.
SessionFoundUnrotated(r, id, w) ==
    CASE r.goal = "visit" -> Handler([r EXCEPT !.sid = id, !.scoped = TRUE])
      [] r.goal = "enter" ->
            CASE r.op = "login" -> [r EXCEPT !.pc = "authenticate", !.goal = "login",
                                             !.sid = id, !.scoped = TRUE, !.new = id]
              [] r.op = "logout" -> [r EXCEPT !.pc = "logout", !.sid = id, !.scoped = TRUE]
              [] OTHER -> Answer(r)

\* CurrentSession answered with id, which the middleware or message.Context()
\* publishes in the scope.
SessionFound(r, id, w) ==
    CASE r.goal = "visit" -> Handler([r EXCEPT !.sid = id, !.scoped = TRUE])
      [] r.goal = "enter" ->
            CASE r.op = "login" -> [r EXCEPT !.pc = "revoke", !.goal = "login",
                                             !.sid = id, !.scoped = TRUE,
                                             !.old = id, !.who = w]
              [] r.op = "logout" -> [r EXCEPT !.pc = "logout", !.sid = id, !.scoped = TRUE]
              [] OTHER -> Answer(r)

\* rotateSession or newSessionWithoutUser failed: the middleware carries on
\* without a session, CurrentSession answers nil, Login fails.
NotCreated(r) ==
    LET bare == [r EXCEPT !.old = None, !.who = Nobody, !.new = None] IN
    CASE r.goal = "anonymous" -> {Handler(bare)}
      [] r.goal = "login" -> {Answer(bare)}
      [] OTHER -> NoSession(bare)

-----------------------------------------------------------------------------
Start(q) ==
    /\ req[q].pc = "idle"
    /\ \E op \in {"page", "login", "logout"} :
          req' = [req EXCEPT ![q] = [Idle EXCEPT
                    !.pc = "resolve", !.op = op, !.sid = jar,
                    !.stuck = IF RevocationPending(jar) THEN jar ELSE None,
                    !.me = IF op # "logout" \/ jar = None \/ row[jar] = None
                           THEN Nobody ELSE row[jar]]]
    /\ UNCHANGED <<faults, store, jar, history>>

\* CurrentSession: a lookup that fails, or finds no row, or an identifier
\* whose revocation is owed answers nil.  The last retries the revocation.
ResolveNone(q) ==
    LET sid == req[q].sid IN
    /\ req[q].pc = "resolve"
    /\ \E r \in NoSession(req[q]) : req' = [req EXCEPT ![q] = r]
    /\ IF sid \in owed
       THEN RevokeSucceeds(sid) \/ RevokeFails(sid)
       ELSE /\ IF sid = None THEN UNCHANGED faults
               ELSE (row[sid] = None /\ UNCHANGED faults) \/ Fault
            /\ UNCHANGED <<row, owed>>
    /\ UNCHANGED <<minted, jar, history>>

\* CurrentSession finds the session, and does or does not find it due.
ResolveFound(q) ==
    LET sid == req[q].sid IN
    /\ req[q].pc = "resolve"
    /\ sid # None /\ row[sid] # None /\ ~RevocationPending(sid)
    /\ req' = [req EXCEPT ![q] = SessionFound(@, sid, row[sid])]
    /\ UNCHANGED <<faults, store, jar, history>>

ResolveDue(q) ==
    LET sid == req[q].sid IN
    /\ req[q].pc = "resolve"
    /\ sid # None /\ row[sid] # None /\ ~RevocationPending(sid)
    /\ req' = [req EXCEPT ![q] = [@ EXCEPT !.pc = "revoke", !.old = sid,
                                          !.who = row[sid]]]
    /\ UNCHANGED <<faults, store, jar, history>>

\* Fault: the answer wasLive is not looked at.
RotateIgnoresAnswer(q) ==
    /\ req[q].pc = "revoke"
    /\ RevokeSucceeds(req[q].old)
    /\ req' = [req EXCEPT ![q].pc = "mint"]
    /\ UNCHANGED <<minted, jar, history>>

\* Fault: the old session is not revoked before the new one is minted.
RotateKeepsOld(q) ==
    /\ req[q].pc = "revoke"
    /\ row[req[q].old] # None
    /\ req' = [req EXCEPT ![q].pc = "mint"]
    /\ UNCHANGED <<store, faults, jar, history>>

\* rotateSession revokes the old identifier first, and goes on only if it did.
RotateRevokes(q) ==
    /\ req[q].pc = "revoke"
    /\ row[req[q].old] # None
    /\ RevokeSucceeds(req[q].old)
    /\ req' = [req EXCEPT ![q].pc = "mint"]
    /\ UNCHANGED <<minted, jar, history>>

RotateAbandons(q) ==
    /\ req[q].pc = "revoke"
    /\ \/ row[req[q].old] = None /\ RevokeSucceeds(req[q].old)
       \/ RevokeFails(req[q].old)
    /\ \E r \in NotCreated(req[q]) : req' = [req EXCEPT ![q] = r]
    /\ UNCHANGED <<minted, jar, history>>

\* newSessionWithoutUser stored the session and its token: the middleware
\* hands out the cookie, a rotation goes on, Login authenticates it.
Minted(r, id) ==
    CASE r.goal = "anonymous" -> Handler([r EXCEPT !.sid = id, !.scoped = TRUE, !.cookie = id])
      [] r.goal = "login" /\ r.old = None -> [r EXCEPT !.pc = "authenticate", !.new = id]
      [] OTHER -> [r EXCEPT !.pc = "carry", !.new = id]

MintRefused(q) ==
    /\ req[q].pc = "mint"
    /\ RevocationPending(req[q].sid)
    /\ \E r \in NotCreated(req[q]) : req' = [req EXCEPT ![q] = r]
    /\ UNCHANGED <<faults, store, jar, history>>

Mint(q) ==
    /\ req[q].pc = "mint"
    /\ ~RevocationPending(req[q].sid)
    /\ \E id \in Ids \ minted :
          /\ row' = [row EXCEPT ![id] = Nobody]
          /\ minted' = minted \cup {id}
          /\ req' = [req EXCEPT ![q] = Minted(@, id)]
          /\ shown' = IF req[q].goal = "anonymous" THEN shown \cup {id} ELSE shown
    /\ UNCHANGED <<faults, owed, jar, failed>>

\* The id could not be checked, stored or given a token.  A row that could not
\* be given one is revoked; one whose INSERT only lost its answer stays.
MintFails(q) ==
    /\ req[q].pc = "mint"
    /\ ~RevocationPending(req[q].sid)
    /\ \/ minted = Ids /\ UNCHANGED <<store, faults>>
       \/ Fault /\ UNCHANGED store
       \/ \E id \in Ids \ minted :
             /\ Fault
             /\ minted' = minted \cup {id}
             /\ row' \in {row, [row EXCEPT ![id] = Nobody]}
             /\ owed' \in {owed, owed \cup {id}}
    /\ \E r \in NotCreated(req[q]) : req' = [req EXCEPT ![q] = r]
    /\ UNCHANGED <<jar, history>>

\* The carried identity is written and confirmed through AddSession, which
\* refuses to recreate a row.  A rotation of CurrentSession then hands out the
\* cookie; Login's goes on to authenticate.
Carry(q) ==
    LET r == req[q]
        bare == [r EXCEPT !.old = None, !.who = Nobody, !.new = None] IN
    /\ r.pc = "carry"
    /\ row[r.new] # None
    /\ row' = [row EXCEPT ![r.new] = r.who]
    /\ IF r.goal = "login"
       THEN /\ req' = [req EXCEPT ![q].pc = "authenticate"]
            /\ UNCHANGED shown
       ELSE /\ req' = [req EXCEPT ![q] =
                          SessionFound([bare EXCEPT !.cookie = r.new], r.new, r.who)]
            /\ shown' = shown \cup {r.new}
    /\ UNCHANGED <<faults, owed, minted, jar, failed>>

\* The new row is left as it is, with the identity written or not.
CarryFails(q) ==
    /\ req[q].pc = "carry"
    /\ IF row[req[q].new] = None THEN UNCHANGED <<row, faults>>
       ELSE Fault /\ row' \in {row, [row EXCEPT ![req[q].new] = req[q].who]}
    /\ \E r \in NotCreated(req[q]) : req' = [req EXCEPT ![q] = r]
    /\ UNCHANGED <<owed, minted, jar, history>>

\* Login: SetUserId and the token of the authenticated session.
Authenticate(q) ==
    LET id == req[q].new IN
    /\ req[q].pc = "authenticate"
    /\ row[id] # None
    /\ row' = [row EXCEPT ![id] = id]
    /\ req' = [req EXCEPT ![q].pc = "persist"]
    /\ UNCHANGED <<faults, owed, minted, jar, history>>

AuthenticateFails(q) ==
    LET id == req[q].new IN
    /\ req[q].pc = "authenticate"
    /\ IF row[id] = None THEN UNCHANGED <<row, faults>>
       ELSE Fault /\ row' \in {row, [row EXCEPT ![id] = id]}
    /\ req' = [req EXCEPT ![q].pc = "undo"]
    /\ UNCHANGED <<owed, minted, jar, history>>

\* Login: the session is confirmed through AddSession; only then is its cookie
\* written and the session published.
Persist(q) ==
    LET id == req[q].new IN
    /\ req[q].pc = "persist"
    /\ row[id] # None
    /\ req' = [req EXCEPT ![q] = Answer([@ EXCEPT !.cookie = id])]
    /\ shown' = shown \cup {id}
    /\ UNCHANGED <<faults, store, jar, failed>>

PersistFails(q) ==
    /\ req[q].pc = "persist"
    /\ (row[req[q].new] = None /\ UNCHANGED faults) \/ Fault
    /\ req' = [req EXCEPT ![q].pc = "undo"]
    /\ UNCHANGED <<store, jar, history>>

\* Login failed after it created a session: the session is revoked.
Undo(q) ==
    /\ req[q].pc = "undo"
    /\ RevokeSucceeds(req[q].new) \/ RevokeFails(req[q].new)
    /\ req' = [req EXCEPT ![q] = Answer(@)]
    /\ failed' = failed \cup {req[q].new}
    /\ UNCHANGED <<minted, jar, shown>>

\* Logout: the session is revoked, then the cookie is expired.
Logout(q) ==
    /\ req[q].pc = "logout"
    /\ IF req[q].sid = None
       THEN UNCHANGED <<row, owed, faults>>
       ELSE RevokeSucceeds(req[q].sid)
    /\ req' = [req EXCEPT ![q] = Answer([@ EXCEPT !.cookie = None])]
    /\ UNCHANGED <<minted, jar, history>>

LogoutFails(q) ==
    /\ req[q].pc = "logout"
    /\ req[q].sid # None
    /\ RevokeFails(req[q].sid)
    /\ req' = [req EXCEPT ![q] = Answer(@)]
    /\ UNCHANGED <<minted, jar, history>>

\* The response reaches the browser, or is lost.
Reply(q) ==
    /\ req[q].pc = "reply"
    /\ \/ jar' = (IF req[q].cookie = Keep THEN jar ELSE req[q].cookie) /\ UNCHANGED faults
       \/ Fault /\ UNCHANGED jar
    /\ req' = [req EXCEPT ![q] = Idle]
    /\ UNCHANGED <<store, history>>

-----------------------------------------------------------------------------
\* A session expires and is collected.
Expire(id) ==
    /\ row[id] # None
    /\ row' = [row EXCEPT ![id] = None]
    /\ UNCHANGED <<faults, owed, minted, jar, req, history>>

\* The process stops: its requests are gone, and what it owed is forgotten.
Restart ==
    /\ Fault
    /\ owed' = {}
    /\ req' = [q \in Requests |-> Idle]
    /\ UNCHANGED <<row, minted, jar, history>>

Step(q) ==
    \/ Start(q)
    \/ ResolveNone(q) \/ ResolveFound(q) \/ ResolveDue(q)
    \/ RotateRevokes(q) \/ RotateAbandons(q)
    \/ MintRefused(q) \/ Mint(q) \/ MintFails(q)
    \/ Carry(q) \/ CarryFails(q)
    \/ Authenticate(q) \/ AuthenticateFails(q)
    \/ Persist(q) \/ PersistFails(q) \/ Undo(q)
    \/ Logout(q) \/ LogoutFails(q)
    \/ Reply(q)

Next ==
    \/ \E q \in Requests : Step(q)
    \/ \E id \in Ids : Expire(id)
    \/ Restart

Spec == Init /\ [][Next]_vars

-----------------------------------------------------------------------------
\* One login never authenticates two stored sessions at once, however many
\* requests rotate the session it established.  RotateSession revokes first
\* and carries the identity only when that revocation found a live session.
OneRowPerLogin ==
    \A id1, id2 \in Ids :
        row[id1] \in Ids /\ row[id1] = row[id2] => id1 = id2

\* A browser that was told "we could not sign you in" never holds an identifier
\* under which that login is stored, even if the roll-back failed as well.
\* Login writes the cookie last.
FailedLoginUnreachable ==
    \A id \in shown : row[id] \notin failed

\* A login is one stored session of the browser it was made in: never two of them,
\* and none the browser can name when it was told that the login failed.
LoginIsOneRow == OneRowPerLogin /\ FailedLoginUnreachable

\* Some request may still bring w back legitimately: it revoked a live session
\* of w and has not stored the next one yet, or it is logging w in.
InTransit(w) ==
    \E q \in Requests :
        \/ req[q].pc \in {"mint", "carry"} /\ req[q].who = w
        \/ req[q].goal = "login" /\ req[q].new = w

Over(w) == w \in minted /\ ~InTransit(w) /\ \A id \in Ids : row[id] # w

\* An identity that is over (revoked, expired, abandoned) is never stored
\* again: a request that loaded the session before it was revoked cannot carry
\* it anywhere.  (An identifier minted anonymously is over from the start.)
EndedIdentityStaysEnded ==
    [][\A w \in Ids : Over(w) => Over(w)']_vars

\* The identifier a login authenticates is one no response ever named: what a
\* client presented, or was made to present, never becomes somebody's session.
LoginOnFreshId ==
    [][\A id \in shown : row'[id] \in {row[id], None}]_vars

\* Once a logout is reported as done and the cookie expired, the identity the
\* browser asked to end has no stored session and no request bringing it back.
LogoutEndsIdentity ==
    [][\A q \in Requests, w \in Ids :
          req[q].pc = "logout" /\ req'[q].cookie = None /\ req[q].me = w
          => Over(w)']_vars

\* A request that gives up the session it created, without handing out its
\* cookie, does not leave it authenticated and unrevoked in the store.
AbandonedIsRevoked ==
    [][\A q \in Requests, id \in Ids :
          req[q].new = id /\ req'[q].new = None /\ req'[q].pc # "idle"
          => req'[q].cookie = id \/ row'[id] \notin Ids \/ id \in owed']_vars
=============================================================================
