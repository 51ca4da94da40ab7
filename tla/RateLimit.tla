------------------------------ MODULE RateLimit ------------------------------
(***************************************************************************)
(* The token buckets of MemoryRateLimitStore: one for each key, made when  *)
(* the key is first seen, swept when it has been idle for long enough that *)
(* nobody could tell.  Middlewares with rates of their own may share one   *)
(* store, and each of them sweeps with the window of its own rate.         *)
(*                                                                         *)
(* One token is a window's worth of units and a key earns Burst units in   *)
(* each unit of time, so what the code keeps as a fraction is a number.    *)
(***************************************************************************)
EXTENDS Integers, FiniteSets

CONSTANTS
    Keys,
    Burst,          \* of the rate that limits a key
    Window,         \* of the rate that limits a key
    SweepInterval

\* Every middleware has a rate of its own, and some window is the longest of them.
ASSUME LimitAssumption ==
    /\ Burst \in [Keys -> Nat \ {0}] /\ Window \in [Keys -> Nat \ {0}]
    /\ SweepInterval \in Nat
    /\ \E k \in Keys : \A j \in Keys : Window[j] <= Window[k]

VARIABLES
    bucket,         \* [tokens, refilled, seen]: what is there, and how long ago
    lastSweep,      \* how long ago, up to SweepInterval
    ideal           \* ghost: the tokens of a store that never sweeps

limitVars == <<bucket, lastSweep, ideal>>

Capacity(k) == Burst[k] * Window[k]
Longest == CHOOSE w \in {Window[k] : k \in Keys} : \A k \in Keys : Window[k] <= w
Lesser(a, b) == IF a < b THEN a ELSE b

LimitInit ==
    /\ bucket = [k \in {} |-> 0]
    /\ lastSweep = SweepInterval
    /\ ideal = [k \in Keys |-> Capacity(k)]

\* Time passes; ages stop where they make no difference any more.
Pass ==
    /\ bucket' = [k \in DOMAIN bucket |->
                     [bucket[k] EXCEPT !.refilled = Lesser(@ + 1, Window[k]),
                                       !.seen = Lesser(@ + 1, 2 * Longest + 1)]]
    /\ lastSweep' = Lesser(lastSweep + 1, SweepInterval)
    /\ ideal' = [k \in Keys |-> Lesser(ideal[k] + Burst[k], Capacity(k))]

\* Fault: half a window without a request counts as idle.
IdleEarly(age, window) == 2 * age > window

Idle(age, window) == age > 2 * window

\* sweepLocked, with the window of the middleware that calls.
Swept(window) ==
    IF lastSweep < SweepInterval THEN bucket
    ELSE [k \in {j \in DOMAIN bucket : ~Idle(bucket[j].seen, window)} |-> bucket[k]]

Refilled(b, k) == Lesser(b.tokens + b.refilled * Burst[k], Capacity(k))

\* Allow: a token for the key when there is one; a key not seen has a full bucket.
Allow(k) ==
    LET kept == Swept(Window[k])
        tokens == IF k \in DOMAIN kept THEN Refilled(kept[k], k) ELSE Capacity(k)
        left == IF tokens >= Window[k] THEN tokens - Window[k] ELSE tokens
    IN  /\ bucket' = [j \in DOMAIN kept \cup {k} |->
                         IF j = k THEN [tokens |-> left, refilled |-> 0, seen |-> 0] ELSE kept[j]]
        /\ lastSweep' = IF lastSweep < SweepInterval THEN lastSweep ELSE 0
        /\ ideal' = IF ideal[k] >= Window[k] THEN [ideal EXCEPT ![k] = @ - Window[k]] ELSE ideal

LimitNext == Pass \/ \E k \in Keys : Allow(k)
LimitSpec == LimitInit /\ [][LimitNext]_limitVars

---------------------------------------------------------------------------
\* Sweeping is not seen: a key has the tokens it would have had in a store that keeps every
\* bucket forever, and is let through exactly when that one would let it, as long as no
\* middleware of a shorter window shares the store
\* (rate_limit_store.go:56-95, 97-122).
SweepUnseen ==
    \A k \in Keys :
        (\A j \in Keys : Window[k] <= Window[j])
        => ideal[k] = IF k \in DOMAIN bucket THEN Refilled(bucket[k], k) ELSE Capacity(k)

=============================================================================
