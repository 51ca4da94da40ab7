----------------------------- MODULE IdentityMemo -----------------------------
(***************************************************************************)
(* The identity an access decision is made on, memoised for one request.   *)
(* Goroutines of the request ask (a response asks once for every row);     *)
(* another one of them logs somebody in, or out.  The memo is one slot on  *)
(* the message context, and its key is the session the request carries.    *)
(***************************************************************************)
EXTENDS Naturals, FiniteSets

CONSTANTS
    Askers,         \* goroutines that ask access control something
    Users,          \* who may log in
    Nobody,         \* an anonymous caller
    Unresolved,     \* a caller nobody could identify
    Empty,          \* nothing memoised
    Sessions        \* ids of sessions, the request's first one and those logins make

ASSUME MemoAssumption == Sessions \subseteq Nat

VARIABLES
    session,        \* messageContext.session: [id, user]
    live,           \* ids of the sessions the store still serves
    memo,           \* messageContext.identity and its key, or Empty
    pending,        \* the strategy's call under way: none, login, logout
    asker,          \* the askers: [pc, key, found]
    since,          \* ghost: whom the request belonged to at any moment of an asker's question
    overlapped      \* ghost: a resolution older than the last logout may have been memoised

memoVars == <<session, live, memo, pending, asker, since, overlapped>>

Key == session      \* its id, and the user's on it (requestIdentityMemo)

\* What the strategy answers: the session's user while the store serves it.
Owner(s, alive) == IF s.id \in alive THEN s.user ELSE Nobody
Current == Owner(session, live)

Asleep == [pc |-> "idle", key |-> [id |-> 0, user |-> Nobody], found |-> Nobody]

MemoInit ==
    /\ \E u \in Users \cup {Nobody} : session = [id |-> 0, user |-> u]
    /\ live = {0} /\ memo = Empty /\ pending = "none"
    /\ asker = [a \in Askers |-> Asleep]
    /\ since = [a \in Askers |-> {}]
    /\ overlapped = FALSE

\* Whoever is asking sees the request change hands.
Witnessed(s, alive) ==
    since' = [a \in Askers |->
                 IF asker[a].pc = "idle" THEN {} ELSE since[a] \cup {Owner(s, alive)}]

---------------------------------------------------------------------------
\* Fault: the slot answers whatever key it was stored under.
LoadAnyKey(k) == IF memo # Empty THEN memo.identity ELSE Empty

\* LoadIdentity: only for the key it was stored under.
LoadIdentity(k) == IF memo # Empty /\ memo.key = k THEN memo.identity ELSE Empty

\* resolveUserContext: the key, and what the slot has for it. The two are taken apart.
Ask(a) ==
    /\ asker[a].pc = "idle"
    /\ asker' = [asker EXCEPT ![a] = [pc |-> "load", key |-> Key, found |-> Nobody]]
    /\ since' = [since EXCEPT ![a] = {Current} \cup (IF pending = "logout" THEN {session.user} ELSE {})]
    /\ UNCHANGED <<session, live, memo, pending, overlapped>>

LoadMemo(a) ==
    /\ asker[a].pc = "load"
    /\ LET known == LoadIdentity(asker[a].key)
       IN  asker' = [asker EXCEPT ![a].pc = IF known = Empty THEN "resolve" ELSE "decide",
                                  ![a].found = IF known = Empty THEN Nobody ELSE known]
    /\ UNCHANGED <<session, live, memo, pending, since, overlapped>>

\* Outside the memo's lock: two goroutines may both resolve, and the session may change first.
Resolve(a) ==
    /\ asker[a].pc = "resolve"
    /\ \E who \in {Current, Unresolved} :
           asker' = [asker EXCEPT ![a].pc = "store", ![a].found = who]
    /\ UNCHANGED <<session, live, memo, pending, since, overlapped>>

StoreIdentity(a) ==
    /\ asker[a].pc = "store"
    /\ memo' = [key |-> asker[a].key, identity |-> asker[a].found]
    /\ asker' = [asker EXCEPT ![a].pc = "decide"]
    /\ UNCHANGED <<session, live, pending, since, overlapped>>

Decide(a) ==
    /\ asker[a].pc = "decide"
    /\ asker' = [asker EXCEPT ![a] = Asleep]
    /\ since' = [since EXCEPT ![a] = {}]
    /\ UNCHANGED <<session, live, memo, pending, overlapped>>

---------------------------------------------------------------------------
\* A login rotates: the session it has saved is published on the request, and the one before is
\* revoked.
MemoLogin(u) ==
    /\ pending = "none"
    /\ \E id \in Sessions :
           LET fresh == [id |-> id, user |-> u]
               alive == (live \ {session.id}) \cup {id}
           IN  id > session.id /\ session' = fresh /\ live' = alive /\ Witnessed(fresh, alive)
    /\ pending' = "login"
    /\ UNCHANGED <<memo, asker, overlapped>>

\* Logout revokes the session, which stays on the request; its copy is not disturbed.
Logout ==
    /\ pending = "none" /\ session.id \in live
    /\ live' = live \ {session.id} /\ Witnessed(session, live \ {session.id})
    /\ pending' = "logout"
    /\ overlapped' = (overlapped \/ \E a \in Askers : asker[a].pc = "store")
    /\ UNCHANGED <<session, memo, asker>>

\* InvalidateIdentity, the last thing of both.
Invalidate ==
    /\ pending # "none"
    /\ memo' = Empty
    /\ pending' = "none"
    /\ UNCHANGED <<session, live, asker, since, overlapped>>

MemoNext == \/ \E a \in Askers : Ask(a) \/ LoadMemo(a) \/ Resolve(a) \/ StoreIdentity(a) \/ Decide(a)
            \/ \E u \in Users : MemoLogin(u)
            \/ Logout \/ Invalidate

MemoSpec == MemoInit /\ [][MemoNext]_memoVars

---------------------------------------------------------------------------
\* A decision is made on whom the request belonged to while it was being made, and on nobody
\* when that could not be told: not on whoever it belonged to before a login that was published
\* first, however many goroutines of the request resolve at once. After a logout the same holds
\* unless a resolution begun before it was still to be memoised
\* (access_control.go:585-645, http/context.go:83-115, http/message.go:749-753).
DecidesOnCurrent ==
    \A a \in Askers :
        (asker[a].pc = "decide" /\ pending = "none" /\ ~overlapped)
        => asker[a].found \in since[a] \cup {Unresolved}
=============================================================================
