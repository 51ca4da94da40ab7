------------------------------ MODULE Container ------------------------------
(***************************************************************************)
(* The service container (service/container.go) while several goroutines   *)
(* resolve: after boot every request makes its message and its controllers *)
(* and thereby resolves, for the first time, what was bound lazily.        *)
(*                                                                         *)
(* A goroutine resolves a key (a type and a name).  The key leads to a     *)
(* binding, directly or because an implementation of an interface was      *)
(* bound.  A shared binding (a singleton) is constructed once: its         *)
(* resolver is called with its arguments resolved, the instance is         *)
(* published, and then its fields are injected.  A goroutine that finds a  *)
(* binding under construction waits on its condition, unless it can        *)
(* already see the instance.                                               *)
(*                                                                         *)
(* Providers bind at boot, so the bindings do not change here.  Resolvers  *)
(* may fail and return a fresh instance otherwise.                         *)
(***************************************************************************)
EXTENDS Integers, Sequences, FiniteSets, SequencesExt

CONSTANTS
    Threads,     \* goroutines, each resolves one key
    Keys,        \* what can be asked for
    Bindings,    \* what was bound
    Wirings,     \* the wirings to consider, see Wiring
    MaxFailures, \* bound: how often a resolver returns an error
    None

Wiring ==
    [roots  : SUBSET Keys,                   \* what the application asks for
     shared : SUBSET Bindings,               \* the singletons
     direct : [Keys -> Bindings \cup {None}], \* bound under the key itself
     offers : [Keys -> SUBSET Bindings],     \* implementations of an interface
     args   : [Bindings -> Seq(Keys)],       \* the resolver's parameters
     fields : [Bindings -> Seq(Keys)],       \* container:"inject" fields
     mode   : {"error", "skip"}]             \* circularDependenciesMode

ASSUME WiringAssumption == Wirings \subseteq Wiring
ASSUME FailuresAssumption == MaxFailures \in Nat
ASSUME NoneAssumption == None \notin Bindings
ASSUME BindingsAssumption == IsFiniteSet(Bindings)

VARIABLES
    wiring,       \* never changes
    concrete,     \* concrete[b]: the published instance of b, or 0
    constructing, \* the bindings whose constructing flag is set
    stack,        \* stack[t]: the calls of resolve that t is in
    outcome,      \* outcome[t]: what t's outermost call returned
    made,         \* made[b]: how many instances b's resolver has returned
    given,        \* given[b]: the instances of b somebody has received
    undone,       \* undone[b]: the instances of b whose injection failed
    failures      \* how often a resolver has failed

instances == <<concrete, made, given, undone>>
vars == <<wiring, instances, constructing, stack, outcome, failures>>

Frame ==
    [key : Keys, b : Bindings \cup {None},
     pc : {"find", "take", "lock", "wait", "woken",
           "args", "fill", "fail"},
     pos : Nat \ {0},         \* the next argument or field
     left : SUBSET Bindings]  \* implementations still to try

TypeOK ==
    /\ wiring \in Wirings
    /\ concrete \in [Bindings -> Nat]
    /\ constructing \subseteq wiring.shared
    /\ stack \in [Threads -> Seq(Frame)]
    /\ outcome \in [Threads -> {"idle", "running", "ok", "error"}]
    /\ made \in [Bindings -> Nat]
    /\ given \in [Bindings -> SUBSET Nat] /\ undone \in [Bindings -> SUBSET Nat]
    /\ failures \in 0 .. MaxFailures

Init ==
    /\ wiring \in Wirings
    /\ concrete = [b \in Bindings |-> 0]
    /\ constructing = {}
    /\ stack = [t \in Threads |-> <<>>] /\ outcome = [t \in Threads |-> "idle"]
    /\ made = [b \in Bindings |-> 0]
    /\ given = [b \in Bindings |-> {}] /\ undone = [b \in Bindings |-> {}]
    /\ failures = 0

-----------------------------------------------------------------------------
(* The stack of calls. *)

At(t, p) == stack[t] # <<>> /\ Last(stack[t]).pc = p
B(t) == Last(stack[t]).b
Shared(b) == b \in wiring.shared

Call(k) == [key |-> k, b |-> None, pc |-> "find", pos |-> 1, left |-> wiring.offers[k]]

WithTop(s, f) == Append(Front(s), f)
Goto(t, p) == WithTop(stack[t], [Last(stack[t]) EXCEPT !.pc = p, !.pos = 1])

\* The caller of resolve takes the next argument or field, or gives up.
Resumed(s, failed) ==
    IF failed THEN WithTop(s, [Last(s) EXCEPT !.pc = "fail"])
    ELSE WithTop(s, [Last(s) EXCEPT !.pos = @ + 1])

Waiting(t, b) == At(t, "wait") /\ B(t) = b

\* Thread t goes on with stack s; b's condition is broadcast unless b is None.
Continue(t, s, b) ==
    stack' = [u \in Threads |->
        IF u = t THEN s
        ELSE IF Waiting(u, b) THEN Goto(u, "woken")
        ELSE stack[u]]

\* resolve returns in thread t, r is "ok" or "error".
Return(t, r, b) ==
    LET s == Front(stack[t]) IN
    /\ Continue(t, IF s = <<>> THEN s ELSE Resumed(s, r = "error"), b)
    /\ outcome' = IF s = <<>> THEN [outcome EXCEPT ![t] = r] ELSE outcome

\* Somebody receives the published instance of b, or nil if there is none.
Receive(b) == given' = [given EXCEPT ![b] = @ \cup ({concrete[b]} \ {0})]

-----------------------------------------------------------------------------
(* Resolving. *)

Resolve(t, k) ==
    /\ outcome[t] = "idle"
    /\ outcome' = [outcome EXCEPT ![t] = "running"]
    /\ stack' = [stack EXCEPT ![t] = <<Call(k)>>]
    /\ UNCHANGED <<wiring, instances, constructing, failures>>

\* The bindings that may serve call f next: the key's own, or the remaining
\* implementations of an interface in any order.
Candidates(f) == IF wiring.direct[f.key] # None THEN {wiring.direct[f.key]} ELSE f.left

Choose(t, b, p) ==
    LET f == Last(stack[t]) IN
    Continue(t, WithTop(stack[t], [f EXCEPT !.b = b, !.left = @ \ {b}, !.pc = p]), None)

\* Fault: the instance is only looked at under the lock.
FindLocked(t) ==
    /\ At(t, "find")
    /\ \E b \in Candidates(Last(stack[t])) :
        Choose(t, b, IF Shared(b) THEN "lock" ELSE "args")
    /\ UNCHANGED <<wiring, instances, constructing, outcome, failures>>

\* resolve picks a binding and getInstance looks, without the lock, whether it
\* has published an instance.
Find(t) ==
    /\ At(t, "find")
    /\ \E b \in Candidates(Last(stack[t])) :
        Choose(t, b, IF ~Shared(b) THEN "args"
                     ELSE IF concrete[b] = 0 THEN "lock"
                     ELSE "take")
    /\ UNCHANGED <<wiring, instances, constructing, outcome, failures>>

\* Nothing serves the key.
NotFound(t) ==
    /\ At(t, "find") /\ Candidates(Last(stack[t])) = {}
    /\ Return(t, "error", None)
    /\ UNCHANGED <<wiring, instances, constructing, failures>>

\* It reads it again to return it.  The reads race with the writes under the
\* lock: half of an interface value is a nil pointer, and a failed injection
\* puts back nil.
Take(t) ==
    /\ At(t, "take")
    /\ Return(t, "ok", None)
    /\ \/ Receive(B(t))
       \/ B(t) \in constructing /\ UNCHANGED given
    /\ UNCHANGED <<wiring, concrete, made, undone, constructing, failures>>

\* Fault: a goroutine that is woken does not look whether there is an instance.
LockAgain(t) ==
    /\ At(t, "lock") \/ At(t, "woken")
    /\ \/ /\ B(t) \in constructing
          /\ Continue(t, Goto(t, "wait"), None)
          /\ UNCHANGED constructing
       \/ /\ B(t) \notin constructing
          /\ constructing' = constructing \cup {B(t)}
          /\ Continue(t, Goto(t, "args"), None)
    /\ UNCHANGED <<wiring, concrete, made, given, undone, outcome, failures>>

\* The critical section of getInstance.  On entry a binding under construction
\* is waited for whatever has been published, after a wake-up it is not.
Lock(t) ==
    LET b == B(t)
        wait == b \in constructing /\ (At(t, "lock") \/ concrete[b] = 0)
    IN
    /\ At(t, "lock") \/ At(t, "woken")
    /\ \/ /\ wait
          /\ Continue(t, Goto(t, "wait"), None)
          /\ UNCHANGED <<constructing, given, outcome>>
       \/ /\ ~wait /\ concrete[b] # 0
          /\ Return(t, "ok", None) /\ Receive(b)
          /\ UNCHANGED constructing
       \/ /\ ~wait /\ concrete[b] = 0
          /\ constructing' = constructing \cup {b}
          /\ Continue(t, Goto(t, "args"), None)
          /\ UNCHANGED <<given, outcome>>
    /\ UNCHANGED <<wiring, concrete, made, undone, failures>>

\* The key the constructor of the topmost call needs next.
Dependencies(f) ==
    CASE f.pc = "args" -> wiring.args[f.b]
      [] f.pc = "fill" -> wiring.fields[f.b]
      [] OTHER -> <<>>
Needed(t, k) ==
    LET f == Last(stack[t]) IN
    stack[t] # <<>> /\ f.pos <= Len(Dependencies(f)) /\ k = Dependencies(f)[f.pos]
Active(t, k) == \E n \in DOMAIN stack[t] : stack[t][n].key = k

\* buildArgs and fill resolve the next dependency ...
Descend(t, k) ==
    /\ Needed(t, k) /\ ~Active(t, k)
    /\ stack' = [stack EXCEPT ![t] = Append(@, Call(k))]
    /\ UNCHANGED <<wiring, instances, constructing, outcome, failures>>

\* ... which this goroutine may be resolving already: an error, or whatever
\* instance the key's own binding has published, or nil.
Circular(t, k) ==
    LET b == wiring.direct[k]
        found == b # None /\ Shared(b)
    IN
    /\ Needed(t, k) /\ Active(t, k)
    /\ Continue(t, Resumed(stack[t], wiring.mode = "error"), None)
    /\ IF wiring.mode = "skip" /\ found
       THEN Receive(b) ELSE UNCHANGED given
    /\ UNCHANGED <<wiring, concrete, made, undone, constructing, outcome, failures>>

AllTaken(t, p) == At(t, p) /\ Last(stack[t]).pos > Len(Dependencies(Last(stack[t])))

\* The resolver returns an instance, which is published if it is a singleton.
Construct(t) ==
    LET b == B(t) IN
    /\ AllTaken(t, "args")
    /\ IF Shared(b)
       THEN /\ concrete' = [concrete EXCEPT ![b] = made[b] + 1]
            /\ made' = [made EXCEPT ![b] = @ + 1]
       ELSE UNCHANGED <<concrete, made>>
    /\ Continue(t, Goto(t, "fill"), None)
    /\ UNCHANGED <<wiring, given, undone, constructing, outcome, failures>>

ResolverFails(t) ==
    /\ AllTaken(t, "args") /\ failures < MaxFailures
    /\ failures' = failures + 1
    /\ Continue(t, Goto(t, "fail"), None)
    /\ UNCHANGED <<wiring, instances, constructing, outcome>>

\* Everything is injected and Init has run: the flag is cleared.
Filled(t) ==
    LET b == B(t) IN
    /\ AllTaken(t, "fill")
    /\ IF Shared(b)
       THEN /\ constructing' = constructing \ {b}
            /\ Receive(b)
            /\ Return(t, "ok", b)
       ELSE Return(t, "ok", None) /\ UNCHANGED <<constructing, given>>
    /\ UNCHANGED <<wiring, concrete, made, undone, failures>>

\* What a failed construction returns: an error, unless another implementation
\* of the interface is left to try.
GiveUp(t, b) ==
    LET f == Last(stack[t]) IN
    IF wiring.direct[f.key] # None THEN Return(t, "error", b)
    ELSE Continue(t, WithTop(stack[t], [f EXCEPT !.pc = "find", !.b = None, !.pos = 1]), b)
         /\ UNCHANGED outcome

\* Fault: those who wait are not woken.
FailSilently(t) ==
    LET b == B(t) IN
    /\ At(t, "fail")
    /\ IF Shared(b)
       THEN /\ constructing' = constructing \ {b}
            /\ concrete' = [concrete EXCEPT ![b] = 0]
            /\ undone' = [undone EXCEPT ![b] = @ \cup ({concrete[b]} \ {0})]
       ELSE UNCHANGED <<constructing, concrete, undone>>
    /\ GiveUp(t, None)
    /\ UNCHANGED <<wiring, made, given, failures>>

\* The resolver, an argument or an injection failed: the construction is undone
\* and the next goroutine starts over.
Fail(t) ==
    LET b == B(t) IN
    /\ At(t, "fail")
    /\ IF Shared(b)
       THEN /\ constructing' = constructing \ {b}
            /\ concrete' = [concrete EXCEPT ![b] = 0]
            /\ undone' = [undone EXCEPT ![b] = @ \cup ({concrete[b]} \ {0})]
            /\ GiveUp(t, b)
       ELSE GiveUp(t, None) /\ UNCHANGED <<constructing, concrete, undone>>
    /\ UNCHANGED <<wiring, made, given, failures>>

Step(t) ==
    \/ Find(t) \/ NotFound(t) \/ Take(t) \/ Lock(t)
    \/ \E k \in Keys : Descend(t, k) \/ Circular(t, k)
    \/ Construct(t) \/ ResolverFails(t) \/ Filled(t) \/ Fail(t)

Next == \E t \in Threads : Step(t) \/ \E k \in wiring.roots : Resolve(t, k)

Spec == Init /\ [][Next]_vars

\* Go's scheduler runs every goroutine that can go on.
LiveSpec == Spec /\ \A t \in Threads : WF_vars(Step(t))
-----------------------------------------------------------------------------
(* Properties. *)

Builds(t, b) ==
    \E n \in DOMAIN stack[t] :
        stack[t][n].b = b /\ stack[t][n].pc \in {"args", "fill", "fail"}

\* The constructing flag of a singleton is set while exactly one goroutine has it
\* under construction, however often constructions fail.
OneConstructor ==
    \A b \in wiring.shared :
        /\ b \in constructing <=> \E t \in Threads : Builds(t, b)
        /\ \A t, u \in Threads : Builds(t, b) /\ Builds(u, b) => t = u

\* Whoever asks for a singleton, the application or a field or an argument,
\* receives the published instance, or one whose injection failed afterwards:
\* there are never two of it in use.
OneInstance ==
    \A b \in wiring.shared : given[b] \subseteq {concrete[b]} \cup undone[b]

\* A singleton is one: never two goroutines construct it, and nobody holds another
\* instance than the one that was published.
OneSingleton == OneConstructor /\ OneInstance

Reaches(w, k) == ({w.direct[k]} \ {None}) \cup w.offers[k]
Needs(w, b, c, list) == \E k \in ToSet(list[b]) : c \in Reaches(w, k)

\* The wirings in which no circle of dependencies leads through the parameter of
\* a resolver: the bindings have levels, which fields may share.
Orderly ==
    {w \in Wirings : \E level \in [Bindings -> 1 .. Cardinality(Bindings)] :
        \A b, c \in Bindings :
            /\ Needs(w, b, c, w.args) => level[c] < level[b]
            /\ Needs(w, b, c, w.fields) => level[c] <= level[b]}

WaitsFor(t, u) == \E b \in constructing : Waiting(t, b) /\ Builds(u, b)

\* Goroutines that construct singletons never wait for each other in a circle,
\* nor one for itself, even when their fields refer to each other in a circle.
NoWaitCycle ==
    \A group \in (SUBSET Threads) \ {{}} :
        (\A t \in group : \E u \in group : WaitsFor(t, u)) => wiring \notin Orderly

\* And every Resolve returns, although resolvers and injections may fail under
\* the goroutines that wait for them.
ResolveReturns ==
    \A t \in Threads :
        outcome[t] = "running" /\ wiring \in Orderly ~> outcome[t] \in {"ok", "error"}
=============================================================================
