---------------------------- MODULE TokenSource ----------------------------
(***************************************************************************)
(* The Entra ID token of a SQL Server datasource: cachingTokenSource keeps *)
(* one token, has one acquisition in flight, renews in the background and  *)
(* asks a person at most once; the connector takes a token before it dials *)
(* and asks again when it has expired by the login; the constructor warms  *)
(* the source up and pings; the record of a sign-in outlives the process.  *)
(*                                                                         *)
(* Times are what is left of them: Tick takes one unit from every one.     *)
(***************************************************************************)
EXTENDS Integers, FiniteSets

CONSTANTS
    Callers,        \* goroutines that open a connection
    Booter,         \* the one that runs the constructor
    Slots,          \* acquisition objects alive at once (bound), numbered
    None,           \* no slot, no token, no record
    Accounts,       \* who may sign in
    Anyone,            \* a configuration without a username
    Usernames,      \* the configurations: accounts, or Anyone
    Methods,        \* [interactive, persistent]: the sign-in methods and their caches
    TokensGranted,         \* [left, refresh]: the tokens the credential may return
    RenewBefore, LastResort, RetryAfter,
    MaxAttempts     \* pings of the constructor

ASSUME TokenConstantsOK ==
    /\ Booter \in Callers
    /\ Slots \subseteq Nat /\ None \notin Slots /\ None \notin Accounts \cup TokensGranted
    /\ Anyone \notin Accounts \cup {None} /\ Usernames \subseteq Accounts \cup {Anyone}
    /\ Methods \subseteq [interactive : BOOLEAN, persistent : BOOLEAN]
    /\ TokensGranted \subseteq [left : Nat \ {0}, refresh : Nat]
    /\ RetryAfter \in Nat /\ LastResort \in Nat /\ RenewBefore \in Nat
    /\ MaxAttempts \in Nat \ {0}

VARIABLES
    interactive,    \* the method asks a person
    persistent,     \* auth.token_cache: persistent
    wanted,         \* the configured username, or Anyone
    disk,           \* the record file: an account, or None
    record,         \* the record this process was built with
    open,           \* the datasource's lifetime (root) has not ended
    boot,           \* where the constructor is: warm, ping, up, down
    tries,          \* pings made
    tok,            \* the cached token
    authenticated,  \* s.authenticated
    inflight,       \* s.inflight
    retryIn,        \* what is left until s.retryAt
    acq,            \* the acquisitions
    caller,         \* the callers
    person          \* ghost: somebody is signed in in this process

config == <<interactive, persistent, wanted, disk, record>>
source == <<tok, authenticated, inflight, retryIn, acq, person>>
tokenVars == <<config, open, boot, tries, source, caller>>

---------------------------------------------------------------------------
\* refreshAt has passed: the token's RefreshOn, or the hard margin before it.
Due(t) == t.left <= RenewBefore \/ t.refresh = 0

Usable(t, margin) == t # None /\ t.left > margin

\* Fault: the hard margin alone decides, so every caller of the margin starts a renewal.
ServesInMargin(t, wait) == Usable(t, RenewBefore)

\* A token that is due is handed out as it is: it is not in the hard margin, or it is
\* good for a last resort and a renewal has just failed.
Serves(t, wait) == \/ Usable(t, RenewBefore)
                   \/ Usable(t, LastResort) /\ wait > 0

\* A record of the account configured, or of any where none is (misfit, readRecord).
SignsInAs(account, w) == account # None /\ (w = Anyone \/ account = w)
ReadRecord(account, w) ==
    IF interactive /\ persistent /\ SignsInAs(account, w) THEN account ELSE None

Less(n) == IF n = 0 THEN 0 ELSE n - 1
Aged(t) == IF t = None THEN None
           ELSE [left |-> Less(t.left), refresh |-> Less(t.refresh)]

Free == [phase |-> "free", signed |-> FALSE, cut |-> FALSE, ok |-> FALSE]
AtRest == [pc |-> "idle", slot |-> None, again |-> FALSE]

Asking == {"resume", "check", "prompt"}
Talking == Asking \cup {"request", "token"}
Waiters(s) == {c \in Callers : caller[c].pc = "wait" /\ caller[c].slot = s}

\* A new process: one source per datasource, nothing cached; lazy_connect opens nothing.
TokenInit ==
    /\ \E m \in Methods : interactive = m.interactive /\ persistent = m.persistent
    /\ wanted \in Usernames /\ disk = None
    /\ record = ReadRecord(disk, wanted)
    /\ open = TRUE /\ boot \in {"warm", "up"} /\ tries = 0
    /\ tok = None /\ authenticated = FALSE /\ inflight = None /\ retryIn = 0
    /\ acq = [s \in Slots |-> Free]
    /\ caller = [c \in Callers |-> AtRest]
    /\ person = FALSE

\* A crash or a deploy, at any moment and under another configuration: only the file lives.
Restart ==
    /\ wanted' \in Usernames
    /\ record' = ReadRecord(disk, wanted')
    /\ open' = TRUE /\ boot' \in {"warm", "up"} /\ tries' = 0
    /\ tok' = None /\ authenticated' = FALSE /\ inflight' = None /\ retryIn' = 0
    /\ acq' = [s \in Slots |-> Free]
    /\ caller' = [c \in Callers |-> AtRest]
    /\ person' = FALSE
    /\ UNCHANGED <<interactive, persistent, disk>>

Tick ==
    /\ tok' = Aged(tok) /\ retryIn' = Less(retryIn)
    /\ UNCHANGED <<config, open, boot, tries, authenticated, inflight, person, acq, caller>>

\* Close ends the lifetime first, so a sign-in in flight is abandoned and not awaited.
Close ==
    /\ open /\ boot = "up"
    /\ open' = FALSE
    /\ UNCHANGED <<config, boot, tries, source, caller>>

---------------------------------------------------------------------------
(* A caller. Before the constructor has returned there is only its own.    *)

Move(c, pc, slot) == caller' = [caller EXCEPT ![c].pc = pc, ![c].slot = slot]

\* A connection takes its token before it dials: accessToken's first look at the lifetime.
Connect(c) ==
    /\ caller[c].pc = "idle"
    /\ boot = "up" \/ (c = Booter /\ boot \in {"warm", "ping"})
    /\ open
    /\ caller' = [caller EXCEPT ![c] = [AtRest EXCEPT !.pc = "lock"]]
    /\ UNCHANGED <<config, open, boot, tries, source>>

\* startLocked: the first acquisition of an interactive method signs in.  A new object is the
\* first free slot, since which one it is makes no difference.
Started(s) ==
    LET signIn == interactive /\ ~authenticated
    IN  /\ acq[s].phase = "free" /\ \A r \in Slots : r < s => acq[r].phase # "free"
        /\ inflight' = s
        /\ acq' = [acq EXCEPT ![s] = [Free EXCEPT
               !.phase = IF ~signIn THEN "request" ELSE IF record # None THEN "resume" ELSE "check"]]

\* The switch of accessToken, under the mutex.
Look(c) ==
    /\ caller[c].pc = "lock"
    /\ \/ /\ tok # None /\ ~Due(tok)
          /\ Move(c, "dial", None)
          /\ UNCHANGED <<inflight, acq>>
       \/ /\ tok # None /\ Due(tok) /\ Serves(tok, retryIn)
          /\ Move(c, "dial", None)
          /\ IF inflight = None /\ retryIn = 0
             THEN \E s \in Slots : Started(s)
             ELSE UNCHANGED <<inflight, acq>>
       \/ /\ tok # None => (Due(tok) /\ ~Serves(tok, retryIn))
          /\ IF inflight = None
             THEN \E s \in Slots : Started(s) /\ Move(c, "wait", s)
             ELSE Move(c, "wait", inflight) /\ UNCHANGED <<inflight, acq>>
    /\ UNCHANGED <<config, open, boot, tries, tok, authenticated, retryIn, person>>

\* An acquisition that is over goes with the last caller that waits for it.
Left(c) == [s \in Slots |-> IF acq[s].phase = "done" /\ Waiters(s) = {c} THEN Free ELSE acq[s]]

\* The constructor gives up: it closes what it has built.
BootFails == open' = FALSE /\ boot' = "down" /\ tries' = 0

\* A connection fails: the constructor's ping is tried again when the error says so.
LoginFailed(c) ==
    /\ caller' = [caller EXCEPT ![c] = AtRest]
    /\ CASE boot = "up" -> UNCHANGED <<open, boot, tries>>
         [] boot = "warm" -> BootFails
         [] boot = "ping" -> \/ tries + 1 < MaxAttempts /\ tries' = tries + 1 /\ UNCHANGED <<open, boot>>
                             \/ BootFails

\* The acquisition waited for is over: its token, or a last look at the cached one.
Answered(c) ==
    /\ caller[c].pc = "wait" /\ acq[caller[c].slot].phase = "done"
    /\ Move(c, IF acq[caller[c].slot].ok THEN "dial" ELSE "last", None)
    /\ acq' = Left(c)
    /\ UNCHANGED <<config, open, boot, tries, tok, authenticated, inflight, retryIn, person>>

\* The caller's own context ends first: its deadline, or the datasource's close.
GiveUp(c) ==
    /\ caller[c].pc = "wait"
    /\ acq' = Left(c)
    /\ LoginFailed(c)
    /\ UNCHANGED <<config, tok, authenticated, inflight, retryIn, person>>

\* lastResortToken, under the mutex.
LastLook(c) ==
    /\ caller[c].pc = "last"
    /\ IF open /\ Usable(tok, LastResort)
       THEN Move(c, "dial", None) /\ UNCHANGED <<open, boot, tries>>
       ELSE LoginFailed(c)
    /\ UNCHANGED <<config, source>>

\* The warm-up wants the token in the cache and no connection.
Warmed(c) ==
    /\ boot = "warm" /\ caller[c].pc = "dial"
    /\ boot' = "ping"
    /\ caller' = [caller EXCEPT ![c] = AtRest]
    /\ UNCHANGED <<config, open, tries, source>>

\* The handshake is done. It may have outlasted the token, which is then asked for again,
\* once, and what comes is sent. The server accepts, sends the login elsewhere, or refuses it.
ConnectLogin(c) ==
    /\ boot # "warm" /\ caller[c].pc = "dial"
    /\ \/ /\ caller' = [caller EXCEPT ![c] = AtRest]
          /\ boot' = "up" /\ tries' = 0 /\ UNCHANGED open
       \/ /\ caller' = [caller EXCEPT ![c].again = FALSE]
          /\ UNCHANGED <<open, boot, tries>>
       \/ LoginFailed(c)
       \/ /\ ~caller[c].again /\ open
          /\ caller' = [caller EXCEPT ![c].pc = "lock", ![c].again = TRUE]
          /\ UNCHANGED <<open, boot, tries>>
    /\ UNCHANGED <<config, source>>

---------------------------------------------------------------------------
(* The goroutine of an acquisition. Every call to the credential ends: it  *)
(* returns a token, or fails, on its own, by its timeout or by Close.      *)

Over(s, ok) == acq' = [acq EXCEPT ![s].phase = "store", ![s].ok = ok]

\* GetToken of a renewal, or of a method that asks no person.
Request(s) ==
    /\ acq[s].phase = "request"
    /\ \E ok \in BOOLEAN : Over(s, ok)
    /\ UNCHANGED <<config, open, boot, tries, tok, authenticated, inflight, retryIn, person, caller>>

\* resume: silently, from the persistent cache; cut short, it asks nobody.
Resume(s) ==
    /\ acq[s].phase = "resume"
    /\ \/ /\ acq' = [acq EXCEPT ![s].phase = "store", ![s].ok = TRUE, ![s].signed = TRUE]
          /\ person' = TRUE
       \/ /\ acq' = [acq EXCEPT ![s].phase = "store", ![s].cut = TRUE]
          /\ UNCHANGED person
       \/ /\ open
          /\ acq' = [acq EXCEPT ![s].phase = "check"]
          /\ UNCHANGED person
    /\ UNCHANGED <<config, open, boot, tries, tok, authenticated, inflight, retryIn, caller>>

\* Closed, or out of time, before the prompt: none opens.
Check(s) ==
    /\ acq[s].phase = "check"
    /\ \/ open /\ acq' = [acq EXCEPT ![s].phase = "prompt"]
       \/ acq' = [acq EXCEPT ![s].phase = "store", ![s].cut = TRUE]
    /\ UNCHANGED <<config, open, boot, tries, tok, authenticated, inflight, retryIn, person, caller>>

\* Authenticate: the person signs in, as whom they like, and the record is replaced in one
\* rename when it is one the next start would reuse; or they do not.
Prompt(s) ==
    /\ acq[s].phase = "prompt"
    /\ \/ /\ \E a \in Accounts :
               disk' \in IF persistent /\ SignsInAs(a, wanted) THEN {a, disk} ELSE {disk}
          /\ acq' = [acq EXCEPT ![s].phase = "token", ![s].signed = TRUE]
          /\ person' = TRUE
       \/ /\ acq' = [acq EXCEPT ![s].phase = "store"]
          /\ UNCHANGED <<disk, person>>
    /\ UNCHANGED <<interactive, persistent, wanted, record, open, boot, tries, tok, authenticated,
                   inflight, retryIn, caller>>

\* The first token after the prompt; whoever signed in stays so when it fails.
Token(s) ==
    /\ acq[s].phase = "token"
    /\ \E ok \in BOOLEAN : Over(s, ok)
    /\ UNCHANGED <<config, open, boot, tries, tok, authenticated, inflight, retryIn, person, caller>>

\* What a result does to the cache: nothing fresh, a failure or a token already due as MSAL
\* returns when it could not refresh, holds the next renewal off.
Cache(ok) ==
    \/ /\ ~ok
       /\ retryIn' = RetryAfter /\ UNCHANGED tok
    \/ /\ ok
       /\ tok' \in TokensGranted
       /\ retryIn' = IF Due(tok') THEN RetryAfter ELSE 0

\* Fault: a sign-in whose first token failed is forgotten.
StoreOnSuccess(s) ==
    /\ acq[s].phase = "store"
    /\ authenticated' = (authenticated \/ (acq[s].signed /\ acq[s].ok))
    /\ Cache(acq[s].ok)
    /\ inflight' = None
    /\ acq' = [acq EXCEPT ![s].phase = "publish"]
    /\ UNCHANGED <<config, open, boot, tries, person, caller>>

\* The result reaches the cache, and the next caller may start another acquisition ...
Store(s) ==
    /\ acq[s].phase = "store"
    /\ authenticated' = (authenticated \/ acq[s].signed)
    /\ Cache(acq[s].ok)
    /\ inflight' = None
    /\ acq' = [acq EXCEPT ![s].phase = "publish"]
    /\ UNCHANGED <<config, open, boot, tries, person, caller>>

\* ... before those that wait for this one are told.
Publish(s) ==
    /\ acq[s].phase = "publish"
    /\ acq' = [acq EXCEPT ![s] = IF Waiters(s) = {} THEN Free ELSE [@ EXCEPT !.phase = "done"]]
    /\ UNCHANGED <<config, open, boot, tries, tok, authenticated, inflight, retryIn, person, caller>>

---------------------------------------------------------------------------
CallerStep(c) == Answered(c) \/ LastLook(c) \/ Warmed(c) \/ ConnectLogin(c)
Acquire(s) == \/ Request(s) \/ Resume(s) \/ Check(s) \/ Prompt(s) \/ Token(s)
              \/ Store(s) \/ Publish(s)

TokenNext == \/ Restart \/ Tick \/ Close
        \/ \E c \in Callers : Connect(c) \/ Look(c) \/ GiveUp(c) \/ CallerStep(c)
        \/ \E s \in Slots : Acquire(s)

TokenSpec == TokenInit /\ [][TokenNext]_tokenVars

---------------------------------------------------------------------------

\* One acquisition talks to the credential at a time, and nobody is asked for a sign-in once
\* somebody is signed in, or after a resume that was cut short: not by a renewal, not by a
\* sign-in whose first token failed, however callers, closes and timeouts interleave
\* (token_source.go:48-74, 275, 324-331).
PersonAskedOnce ==
    /\ \A s, q \in Slots : acq[s].phase \in Talking /\ acq[q].phase \in Talking => s = q
    /\ \A s \in Slots : acq[s].phase = "prompt" => ~person /\ ~acq[s].cut

\* While the cached token is good for a last resort, no acquisition starts within RetryAfter
\* of one that brought nothing fresh: an outage is not met with a request per connection
\* (token_source.go:29-34, 204-210, 300-303).
OutageNotHammered ==
    [][(inflight = None /\ inflight' # None) => (retryIn = 0 \/ ~Usable(tok, LastResort))]_tokenVars

\* A silent sign-in is as the account configured now, whatever the file held and whatever the
\* configuration was when it was written (record.go:142-206).
ResumesAsConfigured ==
    \A s \in Slots : acq[s].phase = "resume" => SignsInAs(record, wanted)

\* No wake-up is lost: an acquisition somebody waits for is under way or has its answer
\* ready, and the one in flight is never a finished one (token_source.go:221-234, 307-311).
WaitersAreAnswered ==
    /\ \A c \in Callers : caller[c].pc = "wait" => acq[caller[c].slot].phase # "free"
    /\ inflight # None => acq[inflight].phase \in Talking \cup {"store"}

\* Each part holds however callers, closes, timeouts and restarts interleave: what an
\* acquisition may do to the credential, to a person and to those who wait for it.
AcquisitionsSound == PersonAskedOnce /\ ResumesAsConfigured /\ WaitersAreAnswered
=============================================================================
