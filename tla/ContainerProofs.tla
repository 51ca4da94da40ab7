-------------------------- MODULE ContainerProofs ---------------------------
(***************************************************************************)
(* Proofs about Container: a singleton is one, whatever was bound to what, *)
(* however many goroutines resolve, and however often resolvers and        *)
(* injections fail; and no goroutines wait for each other in a circle.     *)
(*                                                                         *)
(* ContInv says what the constructing flag stands for: exactly one call,   *)
(* of one goroutine, that builds the binding (Flagged), and while that     *)
(* call still resolves arguments nothing is published (Unpublished). So a  *)
(* constructor that publishes replaces no instance that somebody may have  *)
(* received.                                                               *)
(*                                                                         *)
(* A step moves the stack of one goroutine and wakes others, which changes *)
(* nothing that they build (Moved, Alike). It starts a construction, ends  *)
(* one, or does neither: Starts, Ends, KeepsGoing.                         *)
(*                                                                         *)
(* CallsInv is for NoWaitCycle.  A wiring without a circle through the     *)
(* parameter of a resolver gives the bindings levels, which do not rise    *)
(* along a stack and fall past a call that takes arguments (Descends). So  *)
(* in a circle of goroutines those that wait for a binding of the lowest   *)
(* level wait for one another to fill fields.  But what is filled is       *)
(* published, and who looks for it then does not go for the lock: of these *)
(* waits no circle comes about (Ahead).                                    *)
(***************************************************************************)
EXTENDS Container, SequenceTheorems, FiniteSetTheorems, WellFoundedInduction, TLAPS

\* Call n of a stack constructs b, or still waits for its arguments.
BuildsIn(s, n, b) == n \in 1 .. Len(s) /\ s[n].b = b /\ s[n].pc \in {"args", "fill", "fail"}
ArgsIn(s, n, b) == n \in 1 .. Len(s) /\ s[n].b = b /\ s[n].pc = "args"

\* Only the topmost call does anything else than wait for a dependency; what is past the
\* search has a binding, and only a singleton is locked, waited for or taken.
StackOK(s) ==
    \A n \in 1 .. Len(s) :
        /\ n < Len(s) => s[n].pc \in {"args", "fill"}
        /\ s[n].pc # "find" => s[n].b \in Bindings
        /\ s[n].pc \in {"take", "lock", "wait", "woken"} => Shared(s[n].b)

\* The constructing flag stands for one call of one goroutine.
Flagged ==
    \A b \in wiring.shared :
        /\ b \in constructing <=> \E t \in Threads, n \in Nat : BuildsIn(stack[t], n, b)
        /\ \A t, u \in Threads, n, m \in Nat :
             BuildsIn(stack[t], n, b) /\ BuildsIn(stack[u], m, b) => t = u /\ n = m

\* A singleton whose arguments are being resolved has no instance.
Unpublished ==
    \A b \in wiring.shared, t \in Threads, n \in Nat :
        ArgsIn(stack[t], n, b) => concrete[b] = 0

\* The inductive invariant.
ContInv ==
    /\ TypeOK
    /\ \A t \in Threads : StackOK(stack[t]) /\ (outcome[t] = "idle" => stack[t] = <<>>)
    /\ Flagged /\ Unpublished
    /\ \A b \in wiring.shared : 0 \notin given[b]
    /\ OneInstance

-----------------------------------------------------------------------------
(* Stacks.                                                                 *)

\* A stack without its topmost call, and with another one in its place.
LEMMA FrontFacts ==
    ASSUME NEW s \in Seq(Frame), s # <<>>
    PROVE  /\ Len(s) \in Nat \ {0} /\ Last(s) = s[Len(s)] /\ Last(s) \in Frame
           /\ Front(s) \in Seq(Frame) /\ Len(Front(s)) = Len(s) - 1
           /\ \A n \in 1 .. Len(s) - 1 : Front(s)[n] = s[n]
  <1>1. Len(s) \in Nat \ {0}
    BY EmptySeq
  <1>2. \A n \in 1 .. Len(s) : s[n] \in Frame
    BY ElementOfSeq
  <1>3. 1 \in Int /\ Len(s) - 1 \in Int /\ \A n \in 1 .. Len(s) - 1 : s[n] \in Frame
    BY <1>1, <1>2
  <1> DEFINE r == SubSeq(s, 1, Len(s) - 1)
  <1>4. /\ r \in Seq(Frame)
        /\ Len(r) = IF 1 <= Len(s) - 1 THEN (Len(s) - 1) - 1 + 1 ELSE 0
        /\ \A n \in 1 .. (Len(s) - 1) - 1 + 1 : r[n] = s[1 + n - 1]
    BY <1>3, SubSeqProperties
  <1>5. Front(s) = r /\ Last(s) = s[Len(s)]
    BY DEF Front, Last
  <1> HIDE DEF r
  <1>6. Len(r) = Len(s) - 1
    <2> DEFINE k == Len(s)
    <2>1. k \in Nat \ {0} /\ Len(r) = IF 1 <= k - 1 THEN (k - 1) - 1 + 1 ELSE 0
      BY <1>1, <1>4
    <2> HIDE DEF k
    <2>2. Len(r) = k - 1
      BY <2>1
    <2> QED
      BY <2>2 DEF k
  <1>7. ASSUME NEW n \in 1 .. Len(s) - 1
        PROVE  r[n] = s[n]
    <2>1. n \in 1 .. (Len(s) - 1) - 1 + 1 /\ 1 + n - 1 = n
      BY <1>1
    <2> QED
      BY <1>4, <2>1
  <1> QED
    BY <1>1, <1>2, <1>4, <1>5, <1>6, <1>7

LEMMA WithTopFacts ==
    ASSUME NEW s \in Seq(Frame), s # <<>>, NEW f \in Frame
    PROVE  /\ WithTop(s, f) \in Seq(Frame) /\ Len(WithTop(s, f)) = Len(s)
           /\ WithTop(s, f)[Len(s)] = f /\ WithTop(s, f) # <<>>
           /\ \A n \in 1 .. Len(s) - 1 : WithTop(s, f)[n] = s[n]
  <1> DEFINE r == Front(s)
  <1>1. r \in Seq(Frame) /\ Len(r) = Len(s) - 1 /\ \A n \in 1 .. Len(s) - 1 : r[n] = s[n]
    BY FrontFacts
  <1>2. Len(s) \in Nat \ {0}
    BY FrontFacts
  <1> HIDE DEF r
  <1>3. /\ Append(r, f) \in Seq(Frame) /\ Len(Append(r, f)) = Len(s)
        /\ Append(r, f)[Len(s)] = f /\ Append(r, f) # <<>>
        /\ \A n \in 1 .. Len(s) - 1 : Append(r, f)[n] = s[n]
    BY <1>1, <1>2
  <1> QED
    BY <1>3 DEF WithTop, r

\* Another frame on top: what that does to the calls that build.
LEMMA WithTopBuilds ==
    ASSUME NEW s \in Seq(Frame), s # <<>>, NEW f \in Frame
    PROVE  \A n \in Nat, b \in Bindings :
              /\ BuildsIn(WithTop(s, f), n, b)
                 <=> \/ n # Len(s) /\ BuildsIn(s, n, b)
                     \/ n = Len(s) /\ f.b = b /\ f.pc \in {"args", "fill", "fail"}
              /\ ArgsIn(WithTop(s, f), n, b)
                 <=> \/ n # Len(s) /\ ArgsIn(s, n, b)
                     \/ n = Len(s) /\ f.b = b /\ f.pc = "args"
  <1> DEFINE r == WithTop(s, f)
  <1>1. /\ Len(r) = Len(s) /\ r[Len(s)] = f /\ \A n \in 1 .. Len(s) - 1 : r[n] = s[n]
        /\ Len(s) \in Nat \ {0}
    BY WithTopFacts, FrontFacts
  <1> HIDE DEF r
  <1>2. \A n \in Nat : n \in 1 .. Len(r) <=> n = Len(s) \/ n \in 1 .. Len(s) - 1
    BY <1>1
  <1>3. \A n \in Nat, b \in Bindings :
              /\ BuildsIn(r, n, b)
                 <=> \/ n # Len(s) /\ BuildsIn(s, n, b)
                     \/ n = Len(s) /\ f.b = b /\ f.pc \in {"args", "fill", "fail"}
              /\ ArgsIn(r, n, b)
                 <=> \/ n # Len(s) /\ ArgsIn(s, n, b)
                     \/ n = Len(s) /\ f.b = b /\ f.pc = "args"
    BY <1>1, <1>2 DEF BuildsIn, ArgsIn
  <1> QED
    BY <1>3 DEF r

LEMMA WithTopOK ==
    ASSUME NEW s \in Seq(Frame), s # <<>>, NEW f \in Frame, StackOK(s),
           f.pc # "find" => f.b \in Bindings,
           f.pc \in {"take", "lock", "wait", "woken"} => Shared(f.b)
    PROVE  StackOK(WithTop(s, f))
  <1> DEFINE r == WithTop(s, f)
  <1>1. /\ Len(r) = Len(s) /\ r[Len(s)] = f /\ \A n \in 1 .. Len(s) - 1 : r[n] = s[n]
        /\ Len(s) \in Nat \ {0}
    BY WithTopFacts, FrontFacts
  <1> HIDE DEF r
  <1>2. \A n \in 1 .. Len(r) : n = Len(s) \/ n \in 1 .. Len(s) - 1
    BY <1>1
  <1>3. StackOK(r)
    BY <1>1, <1>2 DEF StackOK
  <1> QED
    BY <1>3 DEF r

\* The frames that Goto and Resumed make.
Gone(f, p) == [f EXCEPT !.pc = p, !.pos = 1]
Turned(f) == [f EXCEPT !.pc = "fail"]
Onward(f) == [f EXCEPT !.pos = @ + 1]

LEMMA FrameSet ==
    ASSUME NEW f \in Frame, NEW p \in {"find", "take", "lock", "wait", "woken", "args", "fill", "fail"}
    PROVE  /\ Gone(f, p) \in Frame /\ Gone(f, p).pc = p /\ Gone(f, p).b = f.b
           /\ Turned(f) \in Frame /\ Turned(f).pc = "fail" /\ Turned(f).b = f.b
           /\ Onward(f) \in Frame /\ Onward(f).pc = f.pc /\ Onward(f).b = f.b
  <1>1. /\ Gone(f, p) \in Frame /\ Gone(f, p).pc = p /\ Gone(f, p).b = f.b
    <2> DEFINE g == [f EXCEPT !.pc = p]
    <2>1. g \in Frame /\ g.pc = p /\ g.b = f.b
      BY DEF Frame
    <2> HIDE DEF g
    <2>2. [g EXCEPT !.pos = 1] \in Frame
      BY <2>1 DEF Frame
    <2>3. [g EXCEPT !.pos = 1].pc = p /\ [g EXCEPT !.pos = 1].b = f.b
      BY <2>1 DEF Frame
    <2>4. Gone(f, p) = [g EXCEPT !.pos = 1]
      BY DEF g, Gone
    <2> QED
      BY <2>2, <2>3, <2>4
  <1>2. [f EXCEPT !.pc = "fail"] \in Frame
    BY DEF Frame
  <1>3. [f EXCEPT !.pos = f.pos + 1] \in Frame
    <2>1. f.pos + 1 \in Nat \ {0}
      BY DEF Frame
    <2> QED
      BY <2>1 DEF Frame
  <1>4. Turned(f) \in Frame /\ Turned(f).pc = "fail" /\ Turned(f).b = f.b
    BY <1>2 DEF Frame, Turned
  <1>5. Onward(f) \in Frame /\ Onward(f).pc = f.pc /\ Onward(f).b = f.b
    BY <1>3 DEF Frame, Onward
  <1> QED
    BY <1>1, <1>4, <1>5

\* Stacks of goroutines that were at most woken.
Alike(r, s) ==
    /\ r \in Seq(Frame) /\ StackOK(r)
    /\ \A n \in Nat, b \in Bindings : /\ BuildsIn(r, n, b) <=> BuildsIn(s, n, b)
                                      /\ ArgsIn(r, n, b) <=> ArgsIn(s, n, b)
    /\ s = <<>> => r = <<>>

LEMMA Parts ==
    ASSUME ContInv, NEW t \in Threads
    PROVE  /\ stack[t] \in Seq(Frame) /\ StackOK(stack[t])
           /\ wiring \in Wiring /\ wiring.shared \subseteq Bindings
           /\ stack[t] # <<>> =>
                /\ Len(stack[t]) \in Nat \ {0} /\ Last(stack[t]) = stack[t][Len(stack[t])]
                /\ Last(stack[t]) \in Frame
                /\ Last(stack[t]).pc # "find" => B(t) \in Bindings
                /\ Last(stack[t]).pc \in {"take", "lock", "wait", "woken"} => Shared(B(t))
           /\ stack \in [Threads -> Seq(Frame)]
           /\ concrete \in [Bindings -> Nat] /\ made \in [Bindings -> Nat]
           /\ constructing \subseteq wiring.shared
           /\ given \in [Bindings -> SUBSET Nat] /\ undone \in [Bindings -> SUBSET Nat]
           /\ outcome \in [Threads -> {"idle", "running", "ok", "error"}]
           /\ failures \in 0 .. MaxFailures /\ wiring \in Wirings
  <1>1. TypeOK /\ StackOK(stack[t])
    BY DEF ContInv
  <1>2. wiring \in Wiring /\ wiring.shared \subseteq Bindings /\ stack[t] \in Seq(Frame)
    BY <1>1, WiringAssumption DEF TypeOK, Wiring
  <1>3. stack[t] # <<>> => /\ Len(stack[t]) \in Nat \ {0}
                           /\ Last(stack[t]) = stack[t][Len(stack[t])]
                           /\ Last(stack[t]) \in Frame
    BY <1>2, FrontFacts
  <1>4. stack[t] # <<>> =>
                /\ Last(stack[t]).pc # "find" => B(t) \in Bindings
                /\ Last(stack[t]).pc \in {"take", "lock", "wait", "woken"} => Shared(B(t))
    BY <1>1, <1>3 DEF StackOK, B
  <1> QED
    BY <1>1, <1>2, <1>3, <1>4 DEF TypeOK

LEMMA Woken ==
    ASSUME ContInv, NEW u \in Threads, At(u, "wait")
    PROVE  Alike(Goto(u, "woken"), stack[u])
  <1> DEFINE s == stack[u]
             f == Gone(Last(s), "woken")
  <1>1. s \in Seq(Frame) /\ StackOK(s) /\ s # <<>> /\ Last(s) \in Frame /\ Last(s).pc = "wait"
        /\ Last(s) = s[Len(s)] /\ Last(s).b \in Bindings /\ Shared(Last(s).b)
    BY Parts DEF At, B
  <1>2. f \in Frame /\ f.pc = "woken" /\ f.b = Last(s).b
    BY <1>1, FrameSet
  <1>3. Goto(u, "woken") = WithTop(s, f)
    BY DEF Goto, Gone
  <1> HIDE DEF f, s
  <1>4. StackOK(WithTop(s, f))
    BY <1>1, <1>2, WithTopOK
  <1>5. WithTop(s, f) \in Seq(Frame)
    BY <1>1, <1>2, WithTopFacts
  <1>6. \A n \in Nat, b \in Bindings : /\ BuildsIn(WithTop(s, f), n, b) <=> BuildsIn(s, n, b)
                                       /\ ArgsIn(WithTop(s, f), n, b) <=> ArgsIn(s, n, b)
    BY <1>1, <1>2, WithTopBuilds DEF BuildsIn, ArgsIn
  <1> QED
    BY <1>1, <1>3, <1>4, <1>5, <1>6 DEF Alike, s

LEMMA ContinueFacts ==
    ASSUME ContInv, NEW t \in Threads, NEW s \in Seq(Frame), NEW b, Continue(t, s, b)
    PROVE  /\ stack' \in [Threads -> Seq(Frame)] /\ stack'[t] = s
           /\ \A u \in Threads : u # t => Alike(stack'[u], stack[u])
  <1>1. ASSUME NEW u \in Threads
        PROVE  Alike(stack[u], stack[u])
    BY Parts DEF Alike
  <1>2. ASSUME NEW u \in Threads, Waiting(u, b)
        PROVE  Alike(Goto(u, "woken"), stack[u])
    BY <1>2, Woken DEF Waiting
  <1>3. \A u \in Threads : u # t =>
           stack'[u] = IF Waiting(u, b) THEN Goto(u, "woken") ELSE stack[u]
    BY DEF Continue
  <1>4. \A u \in Threads : u # t => Alike(stack'[u], stack[u])
    BY <1>1, <1>2, <1>3
  <1>5. stack'[t] = s
    BY DEF Continue
  <1>6. \A u \in Threads : stack'[u] \in Seq(Frame)
    BY <1>4, <1>5 DEF Alike
  <1> QED
    BY <1>4, <1>5, <1>6 DEF Continue

\* The calls of a stack that are left when its topmost one has returned.
LEMMA FrontOK ==
    ASSUME NEW s \in Seq(Frame), s # <<>>, StackOK(s)
    PROVE  /\ Front(s) \in Seq(Frame) /\ StackOK(Front(s))
           /\ Front(s) # <<>> => Last(Front(s)).pc \in {"args", "fill"}
           /\ \A n \in Nat, b \in Bindings :
                 /\ BuildsIn(Front(s), n, b) <=> n # Len(s) /\ BuildsIn(s, n, b)
                 /\ ArgsIn(Front(s), n, b) <=> n # Len(s) /\ ArgsIn(s, n, b)
  <1> DEFINE r == Front(s)
             k == Len(s)
  <1>1. /\ k \in Nat \ {0} /\ r \in Seq(Frame) /\ Len(r) = k - 1
        /\ \A n \in 1 .. k - 1 : r[n] = s[n]
    BY FrontFacts
  <1>2. r # <<>> => Len(r) \in Nat \ {0} /\ Last(r) = r[Len(r)]
    BY <1>1, FrontFacts
  <1>3. \A n \in 1 .. k : /\ n < k => s[n].pc \in {"args", "fill"}
                          /\ s[n].pc # "find" => s[n].b \in Bindings
                          /\ s[n].pc \in {"take", "lock", "wait", "woken"} => Shared(s[n].b)
    BY DEF StackOK
  <1> HIDE DEF r
  <1>4. StackOK(r)
    BY <1>1, <1>3 DEF StackOK
  <1>5. r # <<>> => Last(r).pc \in {"args", "fill"}
    BY <1>1, <1>2, <1>3
  <1>6. \A n \in Nat : n \in 1 .. Len(r) <=> n # k /\ n \in 1 .. k
    BY <1>1
  <1>7. \A n \in Nat, b \in Bindings :
                 /\ BuildsIn(r, n, b) <=> n # Len(s) /\ BuildsIn(s, n, b)
                 /\ ArgsIn(r, n, b) <=> n # Len(s) /\ ArgsIn(s, n, b)
    BY <1>1, <1>6 DEF BuildsIn, ArgsIn
  <1> QED
    BY <1>1, <1>4, <1>5, <1>7 DEF r

\* A caller that goes on, or gives up, builds what it built.
LEMMA ResumedOK ==
    ASSUME NEW s \in Seq(Frame), s # <<>>, StackOK(s), Last(s).pc \in {"args", "fill"},
           NEW failed \in BOOLEAN
    PROVE  /\ Resumed(s, failed) \in Seq(Frame) /\ StackOK(Resumed(s, failed))
           /\ \A n \in Nat, b \in Bindings :
                 /\ BuildsIn(Resumed(s, failed), n, b) <=> BuildsIn(s, n, b)
                 /\ ArgsIn(Resumed(s, failed), n, b) => ArgsIn(s, n, b)
  <1> DEFINE f == IF failed THEN Turned(Last(s)) ELSE Onward(Last(s))
             r == WithTop(s, f)
  <1>1. Len(s) \in Nat \ {0} /\ Last(s) = s[Len(s)] /\ Last(s) \in Frame
    BY FrontFacts
  <1>2. /\ f \in Frame /\ f.b = Last(s).b
        /\ f.pc = Last(s).pc \/ f.pc = "fail"
    BY <1>1, FrameSet
  <1>3. Last(s).b \in Bindings
    BY <1>1 DEF StackOK
  <1>4. Resumed(s, failed) = r
    BY DEF Resumed, Turned, Onward
  <1> HIDE DEF f
  <1>5. r \in Seq(Frame) /\ StackOK(r)
    BY <1>2, <1>3, WithTopFacts, WithTopOK
  <1>6. \A n \in Nat, b \in Bindings :
          /\ BuildsIn(r, n, b) <=> \/ n # Len(s) /\ BuildsIn(s, n, b)
                                   \/ n = Len(s) /\ f.b = b /\ f.pc \in {"args", "fill", "fail"}
          /\ ArgsIn(r, n, b) <=> \/ n # Len(s) /\ ArgsIn(s, n, b)
                                 \/ n = Len(s) /\ f.b = b /\ f.pc = "args"
    BY <1>2, WithTopBuilds
  <1> HIDE DEF r
  <1>7. \A n \in Nat, b \in Bindings :
                 /\ BuildsIn(r, n, b) <=> BuildsIn(s, n, b)
                 /\ ArgsIn(r, n, b) => ArgsIn(s, n, b)
    BY <1>1, <1>2, <1>6 DEF BuildsIn, ArgsIn
  <1> QED
    BY <1>4, <1>5, <1>7

-----------------------------------------------------------------------------
\* What a step of goroutine t leaves of the stacks.
Moved(t) ==
    /\ stack' \in [Threads -> Seq(Frame)]
    /\ StackOK(stack'[t])
    /\ \A u \in Threads : u # t => Alike(stack'[u], stack[u])
    /\ outcome' \in [Threads -> {"idle", "running", "ok", "error"}]
    /\ \A u \in Threads : outcome'[u] = "idle" => stack'[u] = <<>>
    /\ wiring' = wiring

LEMMA ContinueMoved ==
    ASSUME ContInv, NEW t \in Threads, stack[t] # <<>>, NEW s \in Seq(Frame), StackOK(s), NEW b,
           Continue(t, s, b), outcome' = outcome, wiring' = wiring
    PROVE  Moved(t) /\ stack'[t] = s
  <1>1. /\ stack' \in [Threads -> Seq(Frame)] /\ stack'[t] = s
        /\ \A u \in Threads : u # t => Alike(stack'[u], stack[u])
    BY ContinueFacts
  <1>2. \A u \in Threads : outcome[u] = "idle" => stack[u] = <<>>
    BY DEF ContInv
  <1>3. outcome \in [Threads -> {"idle", "running", "ok", "error"}]
    BY DEF ContInv, TypeOK
  <1>4. \A u \in Threads : outcome'[u] = "idle" => stack'[u] = <<>>
    BY <1>1, <1>2 DEF Alike
  <1> QED
    BY <1>1, <1>3, <1>4 DEF Moved

LEMMA ReturnMoved ==
    ASSUME ContInv, NEW t \in Threads, stack[t] # <<>>, NEW r \in {"ok", "error"}, NEW b,
           Return(t, r, b), wiring' = wiring
    PROVE  /\ Moved(t)
           /\ \A n \in Nat, c \in Bindings :
                 /\ BuildsIn(stack'[t], n, c) <=> n # Len(stack[t]) /\ BuildsIn(stack[t], n, c)
                 /\ ArgsIn(stack'[t], n, c) => n # Len(stack[t]) /\ ArgsIn(stack[t], n, c)
  <1> DEFINE s == Front(stack[t])
             q == IF s = <<>> THEN s ELSE Resumed(s, r = "error")
  <1>1. /\ s \in Seq(Frame) /\ StackOK(s)
        /\ s # <<>> => Last(s).pc \in {"args", "fill"}
        /\ \A n \in Nat, c \in Bindings :
                 /\ BuildsIn(s, n, c) <=> n # Len(stack[t]) /\ BuildsIn(stack[t], n, c)
                 /\ ArgsIn(s, n, c) <=> n # Len(stack[t]) /\ ArgsIn(stack[t], n, c)
    BY Parts, FrontOK
  <1>2. /\ Continue(t, q, b)
        /\ outcome' = IF s = <<>> THEN [outcome EXCEPT ![t] = r] ELSE outcome
    BY DEF Return
  <1> HIDE DEF s
  <1>3. /\ q \in Seq(Frame) /\ StackOK(q)
        /\ \A n \in Nat, c \in Bindings : /\ BuildsIn(q, n, c) <=> BuildsIn(s, n, c)
                                          /\ ArgsIn(q, n, c) => ArgsIn(s, n, c)
    <2>1. CASE s = <<>>
      BY <1>1, <2>1
    <2>2. CASE s # <<>>
      <3>1. (r = "error") \in BOOLEAN
        OBVIOUS
      <3> QED
        BY <1>1, <2>2, <3>1, ResumedOK
    <2> QED
      BY <2>1, <2>2
  <1> HIDE DEF q
  <1>4. /\ stack' \in [Threads -> Seq(Frame)] /\ stack'[t] = q
        /\ \A u \in Threads : u # t => Alike(stack'[u], stack[u])
    BY <1>2, <1>3, ContinueFacts
  <1>5. \A u \in Threads : outcome[u] = "idle" => stack[u] = <<>>
    BY DEF ContInv
  <1>6. outcome \in [Threads -> {"idle", "running", "ok", "error"}]
    BY DEF ContInv, TypeOK
  <1>7. /\ outcome' \in [Threads -> {"idle", "running", "ok", "error"}]
        /\ outcome'[t] # "idle" /\ \A u \in Threads : u # t => outcome'[u] = outcome[u]
    BY <1>2, <1>5, <1>6
  <1>8. \A u \in Threads : outcome'[u] = "idle" => stack'[u] = <<>>
    BY <1>4, <1>5, <1>7 DEF Alike
  <1>9. Moved(t)
    BY <1>3, <1>4, <1>7, <1>8 DEF Moved
  <1> QED
    BY <1>1, <1>3, <1>4, <1>9

-----------------------------------------------------------------------------
\* The invariant of the stacks and flags, in its three ways to go on: no construction starts
\* or ends, one starts, one ends.
Stacks ==
    /\ \A t \in Threads : StackOK(stack[t]) /\ (outcome[t] = "idle" => stack[t] = <<>>)
    /\ Flagged /\ Unpublished

LEMMA MovedOK ==
    ASSUME ContInv, NEW t \in Threads, Moved(t)
    PROVE  /\ \A u \in Threads : StackOK(stack[u])'
           /\ \A u \in Threads : (outcome[u] = "idle" => stack[u] = <<>>)'
           /\ \A u \in Threads, n \in Nat, b \in wiring.shared :
                u # t => /\ BuildsIn(stack'[u], n, b) <=> BuildsIn(stack[u], n, b)
                         /\ ArgsIn(stack'[u], n, b) <=> ArgsIn(stack[u], n, b)
  <1>1. wiring.shared \subseteq Bindings
    BY Parts
  <1>2. \A u \in Threads : StackOK(stack'[u])
    BY DEF Moved, Alike
  <1>3. \A u \in Threads : StackOK(stack[u])'
    BY <1>2 DEF Moved, StackOK, Shared
  <1>4. \A u \in Threads, n \in Nat, b \in wiring.shared :
                u # t => /\ BuildsIn(stack'[u], n, b) <=> BuildsIn(stack[u], n, b)
                         /\ ArgsIn(stack'[u], n, b) <=> ArgsIn(stack[u], n, b)
    BY <1>1 DEF Moved, Alike
  <1> QED
    BY <1>3, <1>4 DEF Moved

LEMMA KeepsGoing ==
    ASSUME ContInv, NEW t \in Threads, Moved(t), constructing' = constructing,
           \A n \in Nat, b \in wiring.shared :
              /\ BuildsIn(stack'[t], n, b) <=> BuildsIn(stack[t], n, b)
              /\ ArgsIn(stack'[t], n, b) => ArgsIn(stack[t], n, b)
              /\ ArgsIn(stack'[t], n, b) => concrete'[b] = concrete[b],
           \A b \in wiring.shared : \/ concrete'[b] = concrete[b]
                                    \/ \E n \in Nat : ArgsIn(stack[t], n, b)
    PROVE  Stacks'
  <1>1. /\ \A u \in Threads : StackOK(stack[u])'
        /\ \A u \in Threads : (outcome[u] = "idle" => stack[u] = <<>>)'
        /\ \A u \in Threads, n \in Nat, b \in wiring.shared :
                u # t => /\ BuildsIn(stack'[u], n, b) <=> BuildsIn(stack[u], n, b)
                         /\ ArgsIn(stack'[u], n, b) <=> ArgsIn(stack[u], n, b)
    BY MovedOK
  <1>2. \A u \in Threads, n \in Nat, b \in wiring.shared :
            BuildsIn(stack'[u], n, b) <=> BuildsIn(stack[u], n, b)
    BY <1>1
  <1>3. wiring' = wiring /\ Flagged /\ Unpublished
    BY DEF Moved, ContInv
  <1>4. Flagged'
    BY <1>2, <1>3 DEF Flagged
  <1>5. ASSUME NEW b \in wiring.shared, NEW u \in Threads, NEW n \in Nat, ArgsIn(stack'[u], n, b)
        PROVE  concrete'[b] = 0
    <2>1. ArgsIn(stack[u], n, b) /\ concrete[b] = 0
      BY <1>1, <1>3, <1>5 DEF Unpublished
    <2>2. CASE u = t
      BY <1>5, <2>1, <2>2
    <2>3. CASE u # t
      <3>1. ASSUME NEW m \in Nat, ArgsIn(stack[t], m, b)
            PROVE  FALSE
        <4>1. BuildsIn(stack[t], m, b) /\ BuildsIn(stack[u], n, b)
          BY <2>1, <3>1 DEF BuildsIn, ArgsIn
        <4> QED
          BY <1>3, <2>3, <4>1 DEF Flagged
      <3> QED
        BY <2>1, <3>1
    <2> QED
      BY <2>2, <2>3
  <1>6. Unpublished'
    BY <1>3, <1>5 DEF Unpublished
  <1> QED
    BY <1>1, <1>4, <1>6 DEF Stacks

LEMMA Starts ==
    ASSUME ContInv, NEW t \in Threads, Moved(t), NEW c \in wiring.shared, NEW k \in Nat,
           c \notin constructing, constructing' = constructing \cup {c},
           concrete[c] = 0, concrete' = concrete,
           \A n \in Nat, b \in wiring.shared :
              /\ BuildsIn(stack'[t], n, b) <=> BuildsIn(stack[t], n, b) \/ (n = k /\ b = c)
              /\ ArgsIn(stack'[t], n, b) => ArgsIn(stack[t], n, b) \/ b = c
    PROVE  Stacks'
  <1>1. /\ \A u \in Threads : StackOK(stack[u])'
        /\ \A u \in Threads : (outcome[u] = "idle" => stack[u] = <<>>)'
        /\ \A u \in Threads, n \in Nat, b \in wiring.shared :
                u # t => /\ BuildsIn(stack'[u], n, b) <=> BuildsIn(stack[u], n, b)
                         /\ ArgsIn(stack'[u], n, b) <=> ArgsIn(stack[u], n, b)
    BY MovedOK
  <1>2. \A u \in Threads, n \in Nat, b \in wiring.shared :
            BuildsIn(stack'[u], n, b) <=> \/ BuildsIn(stack[u], n, b)
                                          \/ u = t /\ n = k /\ b = c
    BY <1>1
  <1>3. wiring' = wiring /\ Flagged /\ Unpublished
    BY DEF Moved, ContInv
  <1>4. \A u \in Threads, n \in Nat : ~BuildsIn(stack[u], n, c)
    BY <1>3 DEF Flagged
  <1>5. ASSUME NEW b \in wiring.shared
        PROVE  /\ b \in constructing' <=> \E u \in Threads, n \in Nat : BuildsIn(stack'[u], n, b)
               /\ \A v, u \in Threads, n, m \in Nat :
                    BuildsIn(stack'[v], n, b) /\ BuildsIn(stack'[u], m, b) => v = u /\ n = m
    <2>1. CASE b = c
      BY <1>2, <1>4, <2>1
    <2>2. CASE b # c
      BY <1>2, <1>3, <2>2 DEF Flagged
    <2> QED
      BY <2>1, <2>2
  <1>6. Flagged'
    BY <1>3, <1>5 DEF Flagged
  <1>7. Unpublished'
    BY <1>1, <1>3 DEF Unpublished
  <1> QED
    BY <1>1, <1>6, <1>7 DEF Stacks

LEMMA Ends ==
    ASSUME ContInv, NEW t \in Threads, Moved(t), NEW c \in wiring.shared, NEW k \in Nat,
           BuildsIn(stack[t], k, c), constructing' = constructing \ {c},
           \A b \in wiring.shared : b # c => concrete'[b] = concrete[b],
           \A n \in Nat, b \in wiring.shared :
              /\ BuildsIn(stack'[t], n, b) <=> n # k /\ BuildsIn(stack[t], n, b)
              /\ ArgsIn(stack'[t], n, b) => n # k /\ ArgsIn(stack[t], n, b)
    PROVE  Stacks'
  <1>1. /\ \A u \in Threads : StackOK(stack[u])'
        /\ \A u \in Threads : (outcome[u] = "idle" => stack[u] = <<>>)'
        /\ \A u \in Threads, n \in Nat, b \in wiring.shared :
                u # t => /\ BuildsIn(stack'[u], n, b) <=> BuildsIn(stack[u], n, b)
                         /\ ArgsIn(stack'[u], n, b) <=> ArgsIn(stack[u], n, b)
    BY MovedOK
  <1>2. wiring' = wiring /\ Flagged /\ Unpublished
    BY DEF Moved, ContInv
  <1>3. \A u \in Threads, n \in Nat, b \in wiring.shared :
            BuildsIn(stack[u], n, b) => /\ b = c => u = t /\ n = k
                                        /\ u = t /\ n = k => b = c
    BY <1>2 DEF Flagged, BuildsIn
  <1>4. \A u \in Threads, n \in Nat, b \in wiring.shared :
            BuildsIn(stack'[u], n, b) <=> b # c /\ BuildsIn(stack[u], n, b)
    BY <1>1, <1>3
  <1>5. ASSUME NEW b \in wiring.shared
        PROVE  /\ b \in constructing' <=> \E u \in Threads, n \in Nat : BuildsIn(stack'[u], n, b)
               /\ \A v, u \in Threads, n, m \in Nat :
                    BuildsIn(stack'[v], n, b) /\ BuildsIn(stack'[u], m, b) => v = u /\ n = m
    BY <1>2, <1>4 DEF Flagged
  <1>6. Flagged'
    BY <1>2, <1>5 DEF Flagged
  <1>7. ASSUME NEW b \in wiring.shared, NEW u \in Threads, NEW n \in Nat, ArgsIn(stack'[u], n, b)
        PROVE  concrete'[b] = 0
    <2>1. BuildsIn(stack'[u], n, b) /\ ArgsIn(stack[u], n, b)
      BY SMTT(30), <1>1, <1>7 DEF BuildsIn, ArgsIn
    <2> QED
      BY <1>2, <1>4, <2>1 DEF Unpublished
  <1>8. Unpublished'
    BY <1>2, <1>7 DEF Unpublished
  <1> QED
    BY <1>1, <1>6, <1>8 DEF Stacks

\* The frames that Choose and GiveUp make.
Chosen(f, b, p) == [f EXCEPT !.b = b, !.left = @ \ {b}, !.pc = p]
Afresh(f) == [f EXCEPT !.pc = "find", !.b = None, !.pos = 1]

LEMMA ChosenFrame ==
    ASSUME NEW f \in Frame, NEW b \in Bindings, NEW p \in {"take", "lock", "args"}
    PROVE  Chosen(f, b, p) \in Frame /\ Chosen(f, b, p).pc = p /\ Chosen(f, b, p).b = b
  <1>1. [f EXCEPT !.b = b, !.left = @ \ {b}, !.pc = p] \in Frame
    BY DEF Frame
  <1> QED
    BY <1>1 DEF Frame, Chosen

LEMMA AfreshFrame ==
    ASSUME NEW f \in Frame
    PROVE  Afresh(f) \in Frame /\ Afresh(f).pc = "find"
  <1> DEFINE g == [f EXCEPT !.pc = "find", !.b = None]
  <1>1. g \in Frame /\ g.pc = "find"
    BY DEF Frame
  <1> HIDE DEF g
  <1>2. [g EXCEPT !.pos = 1] \in Frame /\ [g EXCEPT !.pos = 1].pc = "find"
    BY <1>1 DEF Frame
  <1>3. Afresh(f) = [g EXCEPT !.pos = 1]
    BY DEF g, Afresh
  <1> QED
    BY <1>2, <1>3

LEMMA CallFrame ==
    ASSUME wiring \in Wiring, NEW k \in Keys
    PROVE  Call(k) \in Frame /\ Call(k).pc = "find"
  BY DEF Call, Frame, Wiring

\* Another topmost call.
LEMMA TopMoved ==
    ASSUME ContInv, NEW t \in Threads, stack[t] # <<>>, NEW f \in Frame,
           f.pc # "find" => f.b \in Bindings,
           f.pc \in {"take", "lock", "wait", "woken"} => Shared(f.b),
           NEW b, Continue(t, WithTop(stack[t], f), b), outcome' = outcome, wiring' = wiring
    PROVE  /\ Moved(t)
           /\ \A n \in Nat, c \in Bindings :
              /\ BuildsIn(stack'[t], n, c)
                 <=> \/ n # Len(stack[t]) /\ BuildsIn(stack[t], n, c)
                     \/ n = Len(stack[t]) /\ f.b = c /\ f.pc \in {"args", "fill", "fail"}
              /\ ArgsIn(stack'[t], n, c)
                 <=> \/ n # Len(stack[t]) /\ ArgsIn(stack[t], n, c)
                     \/ n = Len(stack[t]) /\ f.b = c /\ f.pc = "args"
  <1> DEFINE s == stack[t]
             r == WithTop(s, f)
  <1>1. s \in Seq(Frame) /\ StackOK(s) /\ s # <<>>
    BY Parts
  <1> HIDE DEF s
  <1>2. r \in Seq(Frame) /\ StackOK(r)
    BY <1>1, WithTopFacts, WithTopOK
  <1>3. \A n \in Nat, c \in Bindings :
              /\ BuildsIn(r, n, c)
                 <=> \/ n # Len(s) /\ BuildsIn(s, n, c)
                     \/ n = Len(s) /\ f.b = c /\ f.pc \in {"args", "fill", "fail"}
              /\ ArgsIn(r, n, c)
                 <=> \/ n # Len(s) /\ ArgsIn(s, n, c)
                     \/ n = Len(s) /\ f.b = c /\ f.pc = "args"
    BY <1>1, WithTopBuilds
  <1>4. Continue(t, r, b)
    BY DEF s
  <1> HIDE DEF r
  <1>5. Moved(t) /\ stack'[t] = r
    BY <1>2, <1>4, ContinueMoved
  <1> QED
    BY <1>3, <1>5 DEF s

LEMMA GiveUpMoved ==
    ASSUME ContInv, NEW t \in Threads, stack[t] # <<>>, NEW b, GiveUp(t, b), wiring' = wiring
    PROVE  /\ Moved(t)
           /\ \A n \in Nat, c \in Bindings :
                 /\ BuildsIn(stack'[t], n, c) <=> n # Len(stack[t]) /\ BuildsIn(stack[t], n, c)
                 /\ ArgsIn(stack'[t], n, c) => n # Len(stack[t]) /\ ArgsIn(stack[t], n, c)
  <1> DEFINE f == Afresh(Last(stack[t]))
  <1>1. Last(stack[t]) \in Frame
    BY Parts
  <1>2. f \in Frame /\ f.pc = "find"
    BY <1>1, AfreshFrame
  <1>3. \/ Return(t, "error", b)
        \/ Continue(t, WithTop(stack[t], f), b) /\ outcome' = outcome
    BY DEF GiveUp, Afresh
  <1> HIDE DEF f
  <1> QED
    BY <1>2, <1>3, ReturnMoved, TopMoved

\* The topmost call, if it builds, and if it does not.
LEMMA TopBuilds ==
    ASSUME ContInv, NEW t \in Threads, stack[t] # <<>>
    PROVE  /\ \A n \in Nat, b \in Bindings :
                 /\ ArgsIn(stack[t], n, b) => BuildsIn(stack[t], n, b)
                 /\ n = Len(stack[t]) =>
                      /\ BuildsIn(stack[t], n, b)
                         <=> B(t) = b /\ Last(stack[t]).pc \in {"args", "fill", "fail"}
                      /\ ArgsIn(stack[t], n, b) <=> B(t) = b /\ Last(stack[t]).pc = "args"
           /\ Len(stack[t]) \in Nat
  BY Parts DEF BuildsIn, ArgsIn, B

-----------------------------------------------------------------------------
\* What is handed out, and what the bindings hold.
Handed ==
    /\ concrete \in [Bindings -> Nat] /\ made \in [Bindings -> Nat]
    /\ constructing \subseteq wiring.shared
    /\ given \in [Bindings -> SUBSET Nat] /\ undone \in [Bindings -> SUBSET Nat]
    /\ failures \in 0 .. MaxFailures
    /\ \A b \in wiring.shared : 0 \notin given[b]
    /\ OneInstance

LEMMA Assembled ==
    ASSUME ContInv, NEW t \in Threads, Moved(t), Stacks', Handed'
    PROVE  ContInv'
  <1>1. TypeOK'
    BY Parts DEF Moved, Handed, TypeOK
  <1> QED
    BY <1>1 DEF Stacks, Handed, ContInv

\* Receiving the published instance.
LEMMA ReceiveHanded ==
    ASSUME ContInv, NEW b \in Bindings, Receive(b), wiring' = wiring, concrete' = concrete,
           made' = made, undone' = undone, constructing' \subseteq wiring.shared,
           failures' = failures
    PROVE  Handed'
  <1>1. /\ concrete \in [Bindings -> Nat] /\ made \in [Bindings -> Nat]
        /\ given \in [Bindings -> SUBSET Nat] /\ undone \in [Bindings -> SUBSET Nat]
        /\ failures \in 0 .. MaxFailures /\ wiring.shared \subseteq Bindings
        /\ OneInstance /\ \A c \in wiring.shared : 0 \notin given[c]
    BY WiringAssumption DEF ContInv, TypeOK, Wiring
  <1>2. given' = [given EXCEPT ![b] = given[b] \cup ({concrete[b]} \ {0})]
    BY DEF Receive
  <1>3. \A c \in wiring.shared : 0 \notin given'[c] /\ given'[c] \subseteq {concrete[c]} \cup undone[c]
    BY <1>1, <1>2 DEF OneInstance
  <1>4. given' \in [Bindings -> SUBSET Nat]
    BY <1>1, <1>2
  <1> QED
    BY <1>1, <1>3, <1>4 DEF Handed, OneInstance

LEMMA SameHanded ==
    ASSUME ContInv, wiring' = wiring, UNCHANGED instances, constructing' \subseteq wiring.shared,
           failures' \in 0 .. MaxFailures
    PROVE  Handed'
  BY DEF ContInv, TypeOK, Handed, OneInstance, instances

-----------------------------------------------------------------------------
LEMMA ResolveInv ==
    ASSUME ContInv, NEW t \in Threads, NEW k \in wiring.roots, Resolve(t, k)
    PROVE  ContInv'
  <1>1. wiring \in Wiring /\ wiring.roots \subseteq Keys /\ wiring.shared \subseteq Bindings
    BY Parts DEF Wiring
  <1>2. Call(k) \in Frame /\ Call(k).pc = "find"
    BY <1>1, CallFrame
  <1> DEFINE c == Call(k)
             r == <<c>>
  <1>3. c \in Frame /\ c.pc = "find"
    BY <1>2
  <1> HIDE DEF c
  <1>4. r \in Seq(Frame) /\ Len(r) = 1 /\ r[1] = c
    BY <1>3
  <1>5. /\ stack' = [stack EXCEPT ![t] = r] /\ outcome' = [outcome EXCEPT ![t] = "running"]
        /\ UNCHANGED <<wiring, instances, constructing, failures>> /\ stack[t] = <<>>
    BY DEF Resolve, c, ContInv
  <1> HIDE DEF r
  <1>6. /\ StackOK(r)
        /\ \A n \in Nat, b \in Bindings : ~BuildsIn(r, n, b) /\ ~ArgsIn(r, n, b)
    BY <1>3, <1>4 DEF StackOK, BuildsIn, ArgsIn
  <1>7. \A u \in Threads : Alike(stack[u], stack[u])
    BY Parts DEF Alike
  <1>8. stack' \in [Threads -> Seq(Frame)] /\ stack'[t] = r
    BY <1>4, <1>5, Parts
  <1>9. /\ \A u \in Threads : outcome'[u] = "idle" => stack'[u] = <<>>
        /\ outcome' \in [Threads -> {"idle", "running", "ok", "error"}]
    BY <1>5 DEF ContInv, TypeOK
  <1>10. Moved(t)
    BY <1>5, <1>6, <1>7, <1>8, <1>9, Parts DEF Moved
  <1>11. \A n \in Nat, b \in Bindings : ~BuildsIn(stack[t], n, b)
    BY <1>5 DEF BuildsIn
  <1>12. Stacks'
    BY <1>1, <1>5, <1>6, <1>8, <1>10, <1>11, KeepsGoing DEF instances
  <1>13. Handed'
    BY <1>5, SameHanded, Parts
  <1> QED
    BY <1>10, <1>12, <1>13, Assembled

LEMMA FindInv ==
    ASSUME ContInv, NEW t \in Threads, Find(t)
    PROVE  ContInv'
  <1>1. /\ wiring \in Wiring /\ wiring.shared \subseteq Bindings /\ stack[t] # <<>>
        /\ Last(stack[t]) \in Frame /\ Last(stack[t]).pc = "find"
    BY Parts DEF Find, At
  <1>2. Candidates(Last(stack[t])) \subseteq Bindings
    BY <1>1 DEF Candidates, Frame, Wiring
  <1>3. PICK b \in Candidates(Last(stack[t])) :
           Choose(t, b, IF ~Shared(b) THEN "args" ELSE IF concrete[b] = 0 THEN "lock" ELSE "take")
    BY DEF Find
  <1>4. UNCHANGED <<wiring, instances, constructing, outcome, failures>>
    BY DEF Find
  <1> DEFINE p == IF ~Shared(b) THEN "args" ELSE IF concrete[b] = 0 THEN "lock" ELSE "take"
             f == Chosen(Last(stack[t]), b, p)
  <1>5. p \in {"args", "lock", "take"} /\ b \in Bindings /\ (Shared(b) <=> p # "args")
    BY <1>2
  <1>6. Continue(t, WithTop(stack[t], f), None)
    BY <1>3 DEF Choose, Chosen
  <1> HIDE DEF p
  <1>7. f \in Frame /\ f.pc = p /\ f.b = b
    BY SMTT(30), <1>1, <1>5, ChosenFrame
  <1> HIDE DEF f
  <1>8. /\ Moved(t)
        /\ \A n \in Nat, c \in Bindings :
              /\ BuildsIn(stack'[t], n, c)
                 <=> \/ n # Len(stack[t]) /\ BuildsIn(stack[t], n, c)
                     \/ n = Len(stack[t]) /\ f.b = c /\ f.pc \in {"args", "fill", "fail"}
              /\ ArgsIn(stack'[t], n, c)
                 <=> \/ n # Len(stack[t]) /\ ArgsIn(stack[t], n, c)
                     \/ n = Len(stack[t]) /\ f.b = c /\ f.pc = "args"
    BY <1>1, <1>4, <1>5, <1>6, <1>7, TopMoved
  <1>9. \A n \in Nat, c \in wiring.shared :
              /\ BuildsIn(stack'[t], n, c) <=> BuildsIn(stack[t], n, c)
              /\ ArgsIn(stack'[t], n, c) => ArgsIn(stack[t], n, c)
    BY <1>1, <1>5, <1>7, <1>8, TopBuilds DEF Shared
  <1>10. Stacks'
    BY <1>4, <1>8, <1>9, KeepsGoing DEF instances
  <1>11. Handed'
    BY <1>4, SameHanded, Parts
  <1> QED
    BY <1>8, <1>10, <1>11, Assembled

\* A frame that Goto leaves on top.
LEMMA GotoMoved ==
    ASSUME ContInv, NEW t \in Threads, stack[t] # <<>>,
           NEW p \in {"wait", "args", "fill", "fail"}, B(t) \in Bindings,
           p = "wait" => Shared(B(t)),
           NEW b, Continue(t, Goto(t, p), b), outcome' = outcome, wiring' = wiring
    PROVE  /\ Moved(t)
           /\ \A n \in Nat, c \in Bindings :
              /\ BuildsIn(stack'[t], n, c)
                 <=> \/ n # Len(stack[t]) /\ BuildsIn(stack[t], n, c)
                     \/ n = Len(stack[t]) /\ B(t) = c /\ p # "wait"
              /\ ArgsIn(stack'[t], n, c)
                 <=> \/ n # Len(stack[t]) /\ ArgsIn(stack[t], n, c)
                     \/ n = Len(stack[t]) /\ B(t) = c /\ p = "args"
  <1> DEFINE f == Gone(Last(stack[t]), p)
  <1>1. Last(stack[t]) \in Frame
    BY Parts
  <1>2. p \in {"find", "take", "lock", "wait", "woken", "args", "fill", "fail"}
    OBVIOUS
  <1>3. f \in Frame /\ f.pc = p /\ f.b = B(t)
    BY <1>1, <1>2, FrameSet DEF B
  <1>4. Continue(t, WithTop(stack[t], f), b)
    BY DEF Goto, Gone
  <1> HIDE DEF f
  <1>5. /\ f.pc # "find" => f.b \in Bindings
        /\ f.pc \in {"take", "lock", "wait", "woken"} => Shared(f.b)
    BY <1>3
  <1>6. /\ Moved(t)
        /\ \A n \in Nat, c \in Bindings :
              /\ BuildsIn(stack'[t], n, c)
                 <=> \/ n # Len(stack[t]) /\ BuildsIn(stack[t], n, c)
                     \/ n = Len(stack[t]) /\ f.b = c /\ f.pc \in {"args", "fill", "fail"}
              /\ ArgsIn(stack'[t], n, c)
                 <=> \/ n # Len(stack[t]) /\ ArgsIn(stack[t], n, c)
                     \/ n = Len(stack[t]) /\ f.b = c /\ f.pc = "args"
    BY <1>3, <1>4, <1>5, TopMoved
  <1> QED
    BY <1>3, <1>6

\* The caller that goes on.
LEMMA ResumedMoved ==
    ASSUME ContInv, NEW t \in Threads, stack[t] # <<>>, Last(stack[t]).pc \in {"args", "fill"},
           NEW failed \in BOOLEAN, NEW b, Continue(t, Resumed(stack[t], failed), b),
           outcome' = outcome, wiring' = wiring
    PROVE  /\ Moved(t)
           /\ \A n \in Nat, c \in Bindings :
              /\ BuildsIn(stack'[t], n, c) <=> BuildsIn(stack[t], n, c)
              /\ ArgsIn(stack'[t], n, c) => ArgsIn(stack[t], n, c)
  <1> DEFINE s == stack[t]
             r == Resumed(s, failed)
  <1>1. s \in Seq(Frame) /\ StackOK(s) /\ s # <<>> /\ Last(s).pc \in {"args", "fill"}
    BY Parts
  <1> HIDE DEF s
  <1>2. /\ r \in Seq(Frame) /\ StackOK(r)
        /\ \A n \in Nat, c \in Bindings : /\ BuildsIn(r, n, c) <=> BuildsIn(s, n, c)
                                          /\ ArgsIn(r, n, c) => ArgsIn(s, n, c)
    BY <1>1, ResumedOK
  <1>3. Continue(t, r, b)
    BY DEF s
  <1> HIDE DEF r
  <1>4. Moved(t) /\ stack'[t] = r
    BY <1>2, <1>3, ContinueMoved
  <1> QED
    BY <1>2, <1>4 DEF s

\* A dependency is needed by a call that takes its arguments or fills its fields.
LEMMA NeededBy ==
    ASSUME ContInv, NEW t \in Threads, NEW k \in Keys, Needed(t, k)
    PROVE  stack[t] # <<>> /\ Last(stack[t]).pc \in {"args", "fill"}
  <1>1. stack[t] # <<>> /\ Last(stack[t]) \in Frame
    BY Parts DEF Needed
  <1>2. Last(stack[t]).pos \in Nat \ {0} /\ Last(stack[t]).pos <= Len(Dependencies(Last(stack[t])))
    BY <1>1 DEF Frame, Needed
  <1>3. CASE Last(stack[t]).pc \notin {"args", "fill"}
    <2>1. Dependencies(Last(stack[t])) = <<>>
      BY <1>3 DEF Dependencies
    <2>2. Len(<<>>) = 0
      BY EmptySeq
    <2> QED
      BY <1>2, <2>1, <2>2
  <1> QED
    BY <1>1, <1>3

LEMMA NotFoundInv ==
    ASSUME ContInv, NEW t \in Threads, NotFound(t)
    PROVE  ContInv'
  <1>1. /\ stack[t] # <<>> /\ Last(stack[t]).pc = "find" /\ wiring.shared \subseteq Bindings
        /\ UNCHANGED <<wiring, instances, constructing, failures>> /\ Return(t, "error", None)
    BY Parts DEF NotFound, At
  <1>2. /\ Moved(t)
        /\ \A n \in Nat, c \in Bindings :
              /\ BuildsIn(stack'[t], n, c) <=> n # Len(stack[t]) /\ BuildsIn(stack[t], n, c)
              /\ ArgsIn(stack'[t], n, c) => n # Len(stack[t]) /\ ArgsIn(stack[t], n, c)
    BY <1>1, ReturnMoved
  <1>3. \A n \in Nat, c \in wiring.shared :
              /\ BuildsIn(stack'[t], n, c) <=> BuildsIn(stack[t], n, c)
              /\ ArgsIn(stack'[t], n, c) => ArgsIn(stack[t], n, c)
    BY <1>1, <1>2, TopBuilds
  <1>4. Stacks'
    BY <1>1, <1>2, <1>3, KeepsGoing DEF instances
  <1>5. Handed'
    BY <1>1, SameHanded, Parts
  <1> QED
    BY <1>2, <1>4, <1>5, Assembled

LEMMA TakeInv ==
    ASSUME ContInv, NEW t \in Threads, Take(t)
    PROVE  ContInv'
  <1>1. /\ stack[t] # <<>> /\ Last(stack[t]).pc = "take" /\ wiring.shared \subseteq Bindings
        /\ B(t) \in Bindings
        /\ UNCHANGED <<wiring, concrete, made, undone, constructing, failures>>
        /\ Return(t, "ok", None) /\ (Receive(B(t)) \/ UNCHANGED given)
    BY Parts DEF Take, At
  <1>2. /\ Moved(t)
        /\ \A n \in Nat, c \in Bindings :
              /\ BuildsIn(stack'[t], n, c) <=> n # Len(stack[t]) /\ BuildsIn(stack[t], n, c)
              /\ ArgsIn(stack'[t], n, c) => n # Len(stack[t]) /\ ArgsIn(stack[t], n, c)
    BY <1>1, ReturnMoved
  <1>3. \A n \in Nat, c \in wiring.shared :
              /\ BuildsIn(stack'[t], n, c) <=> BuildsIn(stack[t], n, c)
              /\ ArgsIn(stack'[t], n, c) => ArgsIn(stack[t], n, c)
    BY <1>1, <1>2, TopBuilds
  <1>4. Stacks'
    BY <1>1, <1>2, <1>3, KeepsGoing
  <1>5. Handed'
    BY <1>1, SameHanded, ReceiveHanded, Parts DEF instances
  <1> QED
    BY <1>2, <1>4, <1>5, Assembled

LEMMA LockInv ==
    ASSUME ContInv, NEW t \in Threads, Lock(t)
    PROVE  ContInv'
  <1> DEFINE b == B(t)
             k == Len(stack[t])
  <1>1. /\ stack[t] # <<>> /\ Last(stack[t]).pc \in {"lock", "woken"}
        /\ wiring.shared \subseteq Bindings /\ b \in wiring.shared /\ b \in Bindings
        /\ UNCHANGED <<wiring, concrete, made, undone, failures>>
        /\ constructing \subseteq wiring.shared /\ failures \in 0 .. MaxFailures
    BY Parts DEF Lock, At, Shared
  <1>2. \A n \in Nat, c \in Bindings : /\ ArgsIn(stack[t], n, c) => BuildsIn(stack[t], n, c)
                                       /\ BuildsIn(stack[t], n, c) => n # k
    BY <1>1, TopBuilds
  <1>3. CASE /\ Continue(t, Goto(t, "wait"), None)
             /\ UNCHANGED <<constructing, given, outcome>>
    <2>1. /\ Moved(t)
          /\ \A n \in Nat, c \in Bindings :
                /\ BuildsIn(stack'[t], n, c) <=> n # k /\ BuildsIn(stack[t], n, c)
                /\ ArgsIn(stack'[t], n, c) <=> n # k /\ ArgsIn(stack[t], n, c)
      BY <1>1, <1>3, GotoMoved DEF Shared
    <2>2. Stacks'
      BY <1>1, <1>2, <1>3, <2>1, KeepsGoing
    <2>3. Handed'
      BY <1>1, <1>3, SameHanded DEF instances
    <2> QED
      BY <2>1, <2>2, <2>3, Assembled
  <1>4. CASE Return(t, "ok", None) /\ Receive(b) /\ UNCHANGED constructing
    <2>1. /\ Moved(t)
          /\ \A n \in Nat, c \in Bindings :
                /\ BuildsIn(stack'[t], n, c) <=> n # k /\ BuildsIn(stack[t], n, c)
                /\ ArgsIn(stack'[t], n, c) => n # k /\ ArgsIn(stack[t], n, c)
      BY <1>1, <1>4, ReturnMoved
    <2>2. Stacks'
      BY <1>1, <1>2, <1>4, <2>1, KeepsGoing
    <2>3. Handed'
      BY <1>1, <1>4, ReceiveHanded
    <2> QED
      BY <2>1, <2>2, <2>3, Assembled
  <1>5. CASE /\ ~ (b \in constructing /\ (At(t, "lock") \/ concrete[b] = 0)) /\ concrete[b] = 0
             /\ constructing' = constructing \cup {b}
             /\ Continue(t, Goto(t, "args"), None)
             /\ UNCHANGED <<given, outcome>>
    <2>1. /\ Moved(t)
          /\ \A n \in Nat, c \in Bindings :
                /\ BuildsIn(stack'[t], n, c) <=> \/ n # k /\ BuildsIn(stack[t], n, c)
                                                 \/ n = k /\ c = b
                /\ ArgsIn(stack'[t], n, c) <=> \/ n # k /\ ArgsIn(stack[t], n, c)
                                               \/ n = k /\ c = b
      BY <1>1, <1>5, GotoMoved
    <2>2. /\ b \notin constructing /\ k \in Nat
          /\ constructing' \subseteq wiring.shared
      BY <1>1, <1>5, TopBuilds
    <2>3. \A n \in Nat, c \in wiring.shared :
                /\ BuildsIn(stack'[t], n, c) <=> BuildsIn(stack[t], n, c) \/ (n = k /\ c = b)
                /\ ArgsIn(stack'[t], n, c) => ArgsIn(stack[t], n, c) \/ c = b
      BY <1>1, <1>2, <2>1
    <2> HIDE DEF b, k
    <2>4. Stacks'
      BY <1>1, <1>5, <2>1, <2>2, <2>3, Starts
    <2>5. Handed'
      BY <1>1, <1>5, <2>2, SameHanded DEF instances
    <2> QED
      BY <2>1, <2>4, <2>5, Assembled
  <1> QED
    BY <1>3, <1>4, <1>5 DEF Lock

LEMMA DescendInv ==
    ASSUME ContInv, NEW t \in Threads, NEW k \in Keys, Descend(t, k)
    PROVE  ContInv'
  <1> DEFINE s == stack[t]
             c == Call(k)
             r == Append(s, c)
  <1>1. /\ s \in Seq(Frame) /\ StackOK(s) /\ s # <<>> /\ Last(s).pc \in {"args", "fill"}
        /\ Last(s) = s[Len(s)] /\ Len(s) \in Nat \ {0}
        /\ wiring \in Wiring /\ wiring.shared \subseteq Bindings
    BY NeededBy, Parts DEF Descend
  <1>2. c \in Frame /\ c.pc = "find"
    BY <1>1, CallFrame
  <1>3. /\ stack' = [stack EXCEPT ![t] = r]
        /\ UNCHANGED <<wiring, instances, constructing, outcome, failures>>
    BY DEF Descend
  <1>4. /\ stack \in [Threads -> Seq(Frame)]
        /\ \A u \in Threads : Alike(stack[u], stack[u]) /\ (outcome[u] = "idle" => stack[u] = <<>>)
        /\ outcome \in [Threads -> {"idle", "running", "ok", "error"}]
    BY Parts DEF Alike, ContInv
  <1> HIDE DEF s, c
  <1>5. /\ r \in Seq(Frame) /\ Len(r) = Len(s) + 1 /\ r[Len(s) + 1] = c
        /\ \A n \in 1 .. Len(s) : r[n] = s[n]
    BY <1>1, <1>2
  <1> HIDE DEF r
  <1>6. \A n \in Nat : n \in 1 .. Len(r) <=> n \in 1 .. Len(s) \/ n = Len(s) + 1
    BY <1>1, <1>5
  <1>7. StackOK(r)
    <2> SUFFICES ASSUME NEW n \in 1 .. Len(r)
                 PROVE  /\ n < Len(r) => r[n].pc \in {"args", "fill"}
                        /\ r[n].pc # "find" => r[n].b \in Bindings
                        /\ r[n].pc \in {"take", "lock", "wait", "woken"} => Shared(r[n].b)
      BY DEF StackOK
    <2>1. CASE n = Len(s) + 1
      BY <1>1, <1>2, <1>5, <2>1
    <2>2. CASE n \in 1 .. Len(s) /\ n = Len(s)
      BY <1>1, <1>5, <2>2 DEF StackOK
    <2>3. CASE n \in 1 .. Len(s) /\ n # Len(s)
      <3>1. n < Len(s) /\ r[n] = s[n]
        BY <1>1, <1>5, <2>3
      <3> QED
        BY <1>1, <2>3, <3>1 DEF StackOK
    <2> QED
      BY <1>1, <1>5, <2>1, <2>2, <2>3
  <1>8. \A n \in Nat, b \in Bindings : /\ BuildsIn(r, n, b) <=> BuildsIn(s, n, b)
                                       /\ ArgsIn(r, n, b) <=> ArgsIn(s, n, b)
    <2> SUFFICES ASSUME NEW n \in Nat, NEW b \in Bindings
                 PROVE  /\ BuildsIn(r, n, b) <=> BuildsIn(s, n, b)
                        /\ ArgsIn(r, n, b) <=> ArgsIn(s, n, b)
      OBVIOUS
    <2>1. CASE n \in 1 .. Len(s)
      BY <1>5, <1>6, <2>1 DEF BuildsIn, ArgsIn
    <2>2. CASE n \notin 1 .. Len(s)
      BY <1>2, <1>5, <1>6, <2>2 DEF BuildsIn, ArgsIn
    <2> QED
      BY <2>1, <2>2
  <1>9. stack' \in [Threads -> Seq(Frame)] /\ stack'[t] = r /\ outcome[t] # "idle"
    BY <1>1, <1>3, <1>4, <1>5 DEF s
  <1>10. Moved(t)
    BY <1>3, <1>4, <1>7, <1>9 DEF Moved
  <1>11. Stacks'
    BY <1>1, <1>3, <1>8, <1>9, <1>10, KeepsGoing DEF instances, s
  <1>12. Handed'
    BY <1>3, SameHanded, Parts
  <1> QED
    BY <1>10, <1>11, <1>12, Assembled

LEMMA CircularInv ==
    ASSUME ContInv, NEW t \in Threads, NEW k \in Keys, Circular(t, k)
    PROVE  ContInv'
  <1>1. /\ stack[t] # <<>> /\ Last(stack[t]).pc \in {"args", "fill"}
        /\ wiring.shared \subseteq Bindings
    BY NeededBy, Parts DEF Circular
  <1>2. /\ Continue(t, Resumed(stack[t], wiring.mode = "error"), None)
        /\ (wiring.mode = "error") \in BOOLEAN
        /\ UNCHANGED <<wiring, concrete, made, undone, constructing, outcome, failures>>
        /\ \/ UNCHANGED given
           \/ wiring.direct[k] \in wiring.shared /\ Receive(wiring.direct[k])
    BY DEF Circular, Shared
  <1>3. /\ Moved(t)
        /\ \A n \in Nat, c \in Bindings :
              /\ BuildsIn(stack'[t], n, c) <=> BuildsIn(stack[t], n, c)
              /\ ArgsIn(stack'[t], n, c) => ArgsIn(stack[t], n, c)
    BY <1>1, <1>2, ResumedMoved
  <1>4. Stacks'
    BY <1>1, <1>2, <1>3, KeepsGoing
  <1>5. constructing' \subseteq wiring.shared /\ failures' \in 0 .. MaxFailures
    BY <1>2, Parts
  <1>6. Handed'
    BY <1>1, <1>2, <1>5, SameHanded, ReceiveHanded DEF instances
  <1> QED
    BY <1>3, <1>4, <1>6, Assembled

LEMMA ConstructInv ==
    ASSUME ContInv, NEW t \in Threads, Construct(t)
    PROVE  ContInv'
  <1> DEFINE b == B(t)
             k == Len(stack[t])
  <1>1. /\ stack[t] # <<>> /\ Last(stack[t]).pc = "args" /\ b \in Bindings
        /\ wiring.shared \subseteq Bindings
        /\ UNCHANGED <<wiring, given, undone, constructing, outcome, failures>>
        /\ Continue(t, Goto(t, "fill"), None)
        /\ constructing \subseteq wiring.shared /\ failures \in 0 .. MaxFailures
    BY Parts DEF Construct, AllTaken, At
  <1>2. /\ Moved(t)
        /\ \A n \in Nat, c \in Bindings :
              /\ BuildsIn(stack'[t], n, c) <=> \/ n # k /\ BuildsIn(stack[t], n, c)
                                               \/ n = k /\ b = c
              /\ ArgsIn(stack'[t], n, c) <=> n # k /\ ArgsIn(stack[t], n, c)
    BY <1>1, GotoMoved
  <1>3. /\ \A n \in Nat, c \in Bindings :
                 /\ ArgsIn(stack[t], n, c) => BuildsIn(stack[t], n, c)
                 /\ n = k => /\ BuildsIn(stack[t], n, c) <=> b = c
                             /\ ArgsIn(stack[t], n, c) <=> b = c
        /\ k \in Nat
    BY <1>1, TopBuilds
  <1>4. /\ \A c \in Bindings : c # b \/ c \notin wiring.shared => concrete'[c] = concrete[c]
        /\ concrete' \in [Bindings -> Nat] /\ made' \in [Bindings -> Nat]
    <2>1. concrete \in [Bindings -> Nat] /\ made \in [Bindings -> Nat]
      BY Parts
    <2>2. CASE b \in wiring.shared
      <3>1. /\ concrete' = [concrete EXCEPT ![b] = made[b] + 1]
            /\ made' = [made EXCEPT ![b] = made[b] + 1]
        BY <2>2 DEF Construct, Shared
      <3> QED
        BY <1>1, <2>1, <2>2, <3>1
    <2>3. CASE b \notin wiring.shared
      BY <2>1, <2>3 DEF Construct, Shared
    <2> QED
      BY <2>2, <2>3
  <1> HIDE DEF b, k
  <1>5. \A n \in Nat, c \in wiring.shared :
              /\ BuildsIn(stack'[t], n, c) <=> BuildsIn(stack[t], n, c)
              /\ ArgsIn(stack'[t], n, c) => ArgsIn(stack[t], n, c)
    BY <1>1, <1>2, <1>3
  <1>6. \A c \in wiring.shared : c = b => /\ ArgsIn(stack[t], k, c)
                                          /\ \A n \in Nat : ArgsIn(stack'[t], n, c) => FALSE
    <2>1. Flagged
      BY DEF ContInv
    <2>2. ASSUME b \in wiring.shared, NEW n \in Nat, ArgsIn(stack'[t], n, b)
          PROVE  FALSE
      <3>1. n # k /\ BuildsIn(stack[t], n, b) /\ BuildsIn(stack[t], k, b)
        BY <1>1, <1>2, <1>3, <2>2
      <3> QED
        BY <1>3, <2>1, <2>2, <3>1 DEF Flagged
    <2> QED
      BY <1>1, <1>3, <2>2
  <1>7. Stacks'
    BY <1>1, <1>2, <1>3, <1>4, <1>5, <1>6, KeepsGoing
  <1>8. Handed'
    <2>1. /\ OneInstance /\ Unpublished /\ \A c \in wiring.shared : 0 \notin given[c]
          /\ given \in [Bindings -> SUBSET Nat] /\ undone \in [Bindings -> SUBSET Nat]
      BY DEF ContInv, TypeOK
    <2>2. ASSUME NEW c \in wiring.shared
          PROVE  given[c] \subseteq {concrete'[c]} \cup undone[c]
      <3>1. CASE c = b
        BY <1>3, <1>6, <2>1, <3>1 DEF OneInstance, Unpublished
      <3>2. CASE c # b
        BY <1>1, <1>4, <2>1, <3>2 DEF OneInstance
      <3> QED
        BY <3>1, <3>2
    <2> QED
      BY <1>1, <1>4, <2>1, <2>2 DEF Handed, OneInstance
  <1> QED
    BY <1>2, <1>7, <1>8, Assembled

LEMMA ResolverFailsInv ==
    ASSUME ContInv, NEW t \in Threads, ResolverFails(t)
    PROVE  ContInv'
  <1> DEFINE b == B(t)
             k == Len(stack[t])
  <1>1. /\ stack[t] # <<>> /\ Last(stack[t]).pc = "args" /\ b \in Bindings
        /\ wiring.shared \subseteq Bindings
        /\ UNCHANGED <<wiring, instances, constructing, outcome>>
        /\ Continue(t, Goto(t, "fail"), None)
    BY Parts DEF ResolverFails, AllTaken, At
  <1>2. /\ Moved(t)
        /\ \A n \in Nat, c \in Bindings :
              /\ BuildsIn(stack'[t], n, c) <=> \/ n # k /\ BuildsIn(stack[t], n, c)
                                               \/ n = k /\ b = c
              /\ ArgsIn(stack'[t], n, c) <=> n # k /\ ArgsIn(stack[t], n, c)
    BY <1>1, GotoMoved
  <1>3. \A n \in Nat, c \in wiring.shared :
              /\ BuildsIn(stack'[t], n, c) <=> BuildsIn(stack[t], n, c)
              /\ ArgsIn(stack'[t], n, c) => ArgsIn(stack[t], n, c)
    BY <1>1, <1>2, TopBuilds
  <1>4. Stacks'
    BY <1>1, <1>2, <1>3, KeepsGoing DEF instances
  <1>5. failures' \in 0 .. MaxFailures
    BY Parts, FailuresAssumption DEF ResolverFails
  <1>6. Handed'
    BY <1>1, <1>5, SameHanded, Parts
  <1> QED
    BY <1>2, <1>4, <1>6, Assembled

LEMMA FilledInv ==
    ASSUME ContInv, NEW t \in Threads, Filled(t)
    PROVE  ContInv'
  <1> DEFINE b == B(t)
             k == Len(stack[t])
  <1>1. /\ stack[t] # <<>> /\ Last(stack[t]).pc = "fill" /\ b \in Bindings
        /\ wiring.shared \subseteq Bindings
        /\ UNCHANGED <<wiring, concrete, made, undone, failures>>
        /\ constructing \subseteq wiring.shared /\ failures \in 0 .. MaxFailures
    BY Parts DEF Filled, AllTaken, At
  <1>2. /\ \A n \in Nat, c \in Bindings :
                 /\ ArgsIn(stack[t], n, c) => BuildsIn(stack[t], n, c)
                 /\ n = k => (BuildsIn(stack[t], n, c) <=> b = c)
        /\ k \in Nat
    BY <1>1, TopBuilds
  <1>3. PICK d : Return(t, "ok", d)
    BY DEF Filled
  <1>4. /\ Moved(t)
        /\ \A n \in Nat, c \in Bindings :
              /\ BuildsIn(stack'[t], n, c) <=> n # k /\ BuildsIn(stack[t], n, c)
              /\ ArgsIn(stack'[t], n, c) => n # k /\ ArgsIn(stack[t], n, c)
    BY <1>1, <1>3, ReturnMoved
  <1>5. CASE Shared(b)
    <2>1. constructing' = constructing \ {b} /\ Receive(b) /\ b \in wiring.shared
      BY <1>5 DEF Filled, Shared
    <2> HIDE DEF b, k
    <2>2. BuildsIn(stack[t], k, b)
      BY <1>1, <1>2
    <2>3. Stacks'
      BY <1>1, <1>2, <1>4, <2>1, <2>2, Ends
    <2>4. Handed'
      BY <1>1, <2>1, ReceiveHanded
    <2> QED
      BY <1>4, <2>3, <2>4, Assembled
  <1>6. CASE ~Shared(b)
    <2>1. UNCHANGED <<constructing, given>> /\ b \notin wiring.shared
      BY <1>6 DEF Filled, Shared
    <2> HIDE DEF b, k
    <2>2. \A n \in Nat, c \in wiring.shared :
              /\ BuildsIn(stack'[t], n, c) <=> BuildsIn(stack[t], n, c)
              /\ ArgsIn(stack'[t], n, c) => ArgsIn(stack[t], n, c)
      BY <1>1, <1>2, <1>4, <2>1
    <2>3. Stacks'
      BY <1>1, <1>4, <2>1, <2>2, KeepsGoing
    <2>4. Handed'
      BY <1>1, <2>1, SameHanded DEF instances
    <2> QED
      BY <1>4, <2>3, <2>4, Assembled
  <1> QED
    BY <1>5, <1>6

LEMMA FailInv ==
    ASSUME ContInv, NEW t \in Threads, Fail(t)
    PROVE  ContInv'
  <1> DEFINE b == B(t)
             k == Len(stack[t])
  <1>1. /\ stack[t] # <<>> /\ Last(stack[t]).pc = "fail" /\ b \in Bindings
        /\ wiring.shared \subseteq Bindings
        /\ UNCHANGED <<wiring, made, given, failures>>
        /\ constructing \subseteq wiring.shared /\ failures \in 0 .. MaxFailures
    BY Parts DEF Fail, At
  <1>2. /\ \A n \in Nat, c \in Bindings :
                 /\ ArgsIn(stack[t], n, c) => BuildsIn(stack[t], n, c)
                 /\ n = k => (BuildsIn(stack[t], n, c) <=> b = c)
        /\ k \in Nat
    BY <1>1, TopBuilds
  <1>3. PICK d : GiveUp(t, d)
    BY DEF Fail
  <1>4. /\ Moved(t)
        /\ \A n \in Nat, c \in Bindings :
              /\ BuildsIn(stack'[t], n, c) <=> n # k /\ BuildsIn(stack[t], n, c)
              /\ ArgsIn(stack'[t], n, c) => n # k /\ ArgsIn(stack[t], n, c)
    BY <1>1, <1>3, GiveUpMoved
  <1>5. CASE Shared(b)
    <2>1. /\ constructing' = constructing \ {b} /\ b \in wiring.shared
          /\ concrete' = [concrete EXCEPT ![b] = 0]
          /\ undone' = [undone EXCEPT ![b] = undone[b] \cup ({concrete[b]} \ {0})]
      BY <1>5 DEF Fail, Shared
    <2>2. /\ concrete \in [Bindings -> Nat] /\ made \in [Bindings -> Nat]
          /\ given \in [Bindings -> SUBSET Nat] /\ undone \in [Bindings -> SUBSET Nat]
          /\ OneInstance /\ \A c \in wiring.shared : 0 \notin given[c]
      BY DEF ContInv, TypeOK
    <2> HIDE DEF b, k
    <2>3. BuildsIn(stack[t], k, b)
      BY <1>1, <1>2
    <2>4. /\ concrete' \in [Bindings -> Nat] /\ undone' \in [Bindings -> SUBSET Nat]
          /\ \A c \in wiring.shared : c # b => concrete'[c] = concrete[c] /\ undone'[c] = undone[c]
          /\ undone'[b] = undone[b] \cup ({concrete[b]} \ {0})
      BY <1>1, <2>1, <2>2
    <2>5. Stacks'
      BY <1>1, <1>2, <1>4, <2>1, <2>3, <2>4, Ends
    <2>6. \A c \in wiring.shared : given[c] \subseteq {concrete'[c]} \cup undone'[c]
      BY <2>2, <2>4 DEF OneInstance
    <2>7. Handed'
      BY <1>1, <2>1, <2>2, <2>4, <2>6 DEF Handed, OneInstance
    <2> QED
      BY <1>4, <2>5, <2>7, Assembled
  <1>6. CASE ~Shared(b)
    <2>1. UNCHANGED <<constructing, concrete, undone>> /\ b \notin wiring.shared
      BY <1>6 DEF Fail, Shared
    <2> HIDE DEF b, k
    <2>2. \A n \in Nat, c \in wiring.shared :
              /\ BuildsIn(stack'[t], n, c) <=> BuildsIn(stack[t], n, c)
              /\ ArgsIn(stack'[t], n, c) => ArgsIn(stack[t], n, c)
      BY <1>1, <1>2, <1>4, <2>1
    <2>3. Stacks'
      BY <1>1, <1>4, <2>1, <2>2, KeepsGoing
    <2>4. Handed'
      BY <1>1, <2>1, SameHanded DEF instances
    <2> QED
      BY <1>4, <2>3, <2>4, Assembled
  <1> QED
    BY <1>5, <1>6

-----------------------------------------------------------------------------
LEMMA InitInv == Init => ContInv
  <1> SUFFICES ASSUME Init PROVE ContInv
    OBVIOUS
  <1>1. wiring \in Wirings /\ wiring \in Wiring
    BY WiringAssumption DEF Init
  <1>2. \A t \in Threads, n \in Nat, b \in Bindings :
            ~BuildsIn(stack[t], n, b) /\ ~ArgsIn(stack[t], n, b)
    BY DEF Init, BuildsIn, ArgsIn
  <1>3. wiring.shared \subseteq Bindings
    BY <1>1 DEF Wiring
  <1>4. TypeOK
    <2>1. <<>> \in Seq(Frame)
      BY EmptySeq
    <2> QED
      BY <1>1, <2>1, FailuresAssumption DEF Init, TypeOK
  <1>5. \A t \in Threads : StackOK(stack[t]) /\ stack[t] = <<>>
    BY DEF Init, StackOK
  <1>6. Flagged /\ Unpublished
    BY <1>2, <1>3 DEF Init, Flagged, Unpublished
  <1>7. OneInstance /\ \A b \in wiring.shared : 0 \notin given[b]
    BY <1>3 DEF Init, OneInstance
  <1> QED
    BY <1>4, <1>5, <1>6, <1>7 DEF ContInv

LEMMA StutterInv ==
    ASSUME ContInv, UNCHANGED vars
    PROVE  ContInv'
  <1>1. UNCHANGED <<wiring, concrete, constructing, stack, outcome, made, given, undone, failures>>
    BY DEF vars, instances
  <1>2. TypeOK'
    BY <1>1 DEF ContInv, TypeOK
  <1>3. \A t \in Threads : (StackOK(stack[t]) /\ (outcome[t] = "idle" => stack[t] = <<>>))'
    BY <1>1 DEF ContInv, StackOK, Shared
  <1>4. Flagged' /\ Unpublished'
    BY <1>1 DEF ContInv, Flagged, Unpublished
  <1>5. OneInstance' /\ \A b \in wiring'.shared : 0 \notin given'[b]
    BY <1>1 DEF ContInv, OneInstance
  <1> QED
    BY <1>2, <1>3, <1>4, <1>5 DEF ContInv

\* The invariant holds in every state.
THEOREM ContainerInvariant == Spec => []ContInv
  <1>1. ContInv /\ [Next]_vars => ContInv'
    <2> SUFFICES ASSUME ContInv, [Next]_vars PROVE ContInv'
      OBVIOUS
    <2>1. CASE UNCHANGED vars
      BY <2>1, StutterInv
    <2>2. ASSUME NEW t \in Threads, NEW k \in wiring.roots, Resolve(t, k) PROVE ContInv'
      BY <2>2, ResolveInv
    <2>3. ASSUME NEW t \in Threads, Step(t) PROVE ContInv'
      BY <2>3, FindInv, NotFoundInv, TakeInv, LockInv, DescendInv, CircularInv, ConstructInv,
         ResolverFailsInv, FilledInv, FailInv DEF Step
    <2> QED
      BY <2>1, <2>2, <2>3 DEF Next
  <1> QED
    BY <1>1, InitInv, PTL DEF Spec

\* The state of the container keeps its types (Container, singletonBinding).
THEOREM ContainerTyped == Spec => []TypeOK
  <1>1. ContInv => TypeOK
    BY DEF ContInv
  <1> QED
    BY <1>1, ContainerInvariant, PTL

\* A singleton is one: its flag stands for one constructor, and whoever received
\* an instance received the published one or one that was undone (getInstance).
THEOREM OneOfEach == Spec => []OneSingleton
  <1>1. ASSUME ContInv PROVE OneSingleton
    <2>1. /\ wiring.shared \subseteq Bindings /\ Flagged /\ OneInstance
          /\ \A t \in Threads : stack[t] \in Seq(Frame)
      <3>1. TypeOK /\ Flagged /\ OneInstance
        BY <1>1 DEF ContInv
      <3>2. wiring \in Wiring
        BY <3>1, WiringAssumption DEF TypeOK
      <3> QED
        BY <3>1, <3>2 DEF TypeOK, Wiring
    <2>2. \A t \in Threads, b \in Bindings : Builds(t, b) <=> \E n \in Nat : BuildsIn(stack[t], n, b)
      <3> SUFFICES ASSUME NEW t \in Threads, NEW b \in Bindings
                   PROVE  Builds(t, b) <=> \E n \in Nat : BuildsIn(stack[t], n, b)
        OBVIOUS
      <3>1. DOMAIN stack[t] = 1 .. Len(stack[t]) /\ 1 .. Len(stack[t]) \subseteq Nat
        BY <2>1, LenProperties
      <3> QED
        BY <3>1 DEF Builds, BuildsIn
    <2>3. OneConstructor
      BY <2>1, <2>2 DEF OneConstructor, Flagged
    <2> QED
      BY <2>1, <2>3 DEF OneSingleton
  <1> QED
    BY <1>1, ContainerInvariant, PTL

-----------------------------------------------------------------------------
(* Nobody waits in a circle.                                               *)

\* The levels that an orderly wiring has.
Levels(w) ==
    {level \in [Bindings -> Nat] : \A b, c \in Bindings :
        /\ Needs(w, b, c, w.args) => level[c] < level[b]
        /\ Needs(w, b, c, w.fields) => level[c] <= level[b]}

\* A call takes its binding from those that its key reaches.  What a key further up the stack
\* reaches is not above the binding of a call further down, and below it if that one still takes
\* its arguments.
Descends(w, s) ==
    \A n \in 1 .. Len(s) :
        /\ s[n].left \subseteq w.offers[s[n].key]
        /\ s[n].pc # "find" => s[n].b \in Reaches(w, s[n].key)
        /\ \A m \in 1 .. n - 1, level \in Levels(w), c \in Reaches(w, s[n].key) :
             /\ level[c] <= level[s[m].b]
             /\ s[m].pc = "args" => level[c] < level[s[m].b]

\* Goroutine t goes for a singleton, the published instance of which u still fills.
Seeks(s, b) == s # <<>> /\ Last(s).pc \in {"lock", "wait", "woken"} /\ Last(s).b = b
FillsIn(s, n, b) == n \in 1 .. Len(s) /\ s[n].b = b /\ s[n].pc = "fill"
Ahead(t, u) == \E b \in wiring.shared, n \in Nat : Seeks(stack[t], b) /\ FillsIn(stack[u], n, b)

\* What is filled is published, so that nobody goes for it who has not done so before, and the
\* filling goroutine goes for nothing: circles of these do not come about.
CallsInv ==
    /\ \A t \in Threads : Descends(wiring, stack[t])
    /\ \A b \in wiring.shared, t \in Threads, n \in Nat :
         FillsIn(stack[t], n, b) => concrete[b] # 0
    /\ \A group \in (SUBSET Threads) \ {{}} :
         \E t \in group : \A u \in group : ~Ahead(t, u)

-----------------------------------------------------------------------------
\* The frames keep their keys.
LEMMA FrameKeys ==
    ASSUME NEW f \in Frame, NEW p \in {"find", "take", "lock", "wait", "woken", "args", "fill", "fail"}
    PROVE  /\ Gone(f, p).key = f.key /\ Gone(f, p).left = f.left
           /\ Turned(f).key = f.key /\ Turned(f).left = f.left
           /\ Onward(f).key = f.key /\ Onward(f).left = f.left
           /\ Afresh(f).key = f.key /\ Afresh(f).left = f.left
  <1>1. Turned(f).key = f.key /\ Turned(f).left = f.left
    BY DEF Frame, Turned
  <1>2. Onward(f).key = f.key /\ Onward(f).left = f.left
    BY DEF Frame, Onward
  <1>3. Gone(f, p).key = f.key /\ Gone(f, p).left = f.left
    BY DEF Frame, Gone
  <1>4. Afresh(f).key = f.key /\ Afresh(f).left = f.left
    BY DEF Frame, Afresh
  <1> QED
    BY <1>1, <1>2, <1>3, <1>4

LEMMA ChosenKeys ==
    ASSUME NEW f \in Frame, NEW b \in Bindings, NEW p \in {"take", "lock", "args"}
    PROVE  Chosen(f, b, p).key = f.key /\ Chosen(f, b, p).left \subseteq f.left
  BY DEF Frame, Chosen

\* What a key reaches.
LEMMA ReachesBindings ==
    ASSUME NEW w \in Wiring, NEW k \in Keys
    PROVE  Reaches(w, k) \subseteq Bindings
  BY DEF Reaches, Wiring

\* Another frame for the same key on top.
LEMMA WithTopDescends ==
    ASSUME NEW w \in Wiring, NEW s \in Seq(Frame), s # <<>>, Descends(w, s),
           NEW f \in Frame, f.key = Last(s).key, f.left \subseteq Last(s).left,
           f.pc # "find" => f.b \in Reaches(w, f.key)
    PROVE  Descends(w, WithTop(s, f))
  <1> DEFINE r == WithTop(s, f)
             k == Len(s)
  <1>1. /\ Len(r) = k /\ r[k] = f /\ \A n \in 1 .. k - 1 : r[n] = s[n]
        /\ k \in Nat \ {0} /\ Last(s) = s[k]
    BY WithTopFacts, FrontFacts
  <1> HIDE DEF r
  <1> SUFFICES ASSUME NEW n \in 1 .. k
               PROVE  /\ r[n].left \subseteq w.offers[r[n].key]
                      /\ r[n].pc # "find" => r[n].b \in Reaches(w, r[n].key)
                      /\ \A m \in 1 .. n - 1, level \in Levels(w), c \in Reaches(w, r[n].key) :
                           /\ level[c] <= level[r[m].b]
                           /\ r[m].pc = "args" => level[c] < level[r[m].b]
    BY <1>1 DEF Descends, r
  <1>2. n = k \/ n \in 1 .. k - 1
    BY <1>1
  <1>3. \A m \in 1 .. n - 1 : r[m] = s[m]
    BY <1>1
  <1>4. r[n].key = s[n].key /\ r[n].left \subseteq s[n].left
    BY <1>1, <1>2
  <1>5. /\ s[n].left \subseteq w.offers[s[n].key]
        /\ s[n].pc # "find" => s[n].b \in Reaches(w, s[n].key)
        /\ \A m \in 1 .. n - 1, level \in Levels(w), c \in Reaches(w, s[n].key) :
             /\ level[c] <= level[s[m].b]
             /\ s[m].pc = "args" => level[c] < level[s[m].b]
    BY DEF Descends
  <1>6. r[n].pc # "find" => r[n].b \in Reaches(w, r[n].key)
    BY <1>1, <1>2, <1>5
  <1> QED
    BY <1>3, <1>4, <1>5, <1>6

LEMMA FrontDescends ==
    ASSUME NEW w \in Wiring, NEW s \in Seq(Frame), s # <<>>, Descends(w, s)
    PROVE  Descends(w, Front(s))
  <1> DEFINE r == Front(s)
             k == Len(s)
  <1>1. /\ k \in Nat \ {0} /\ Len(r) = k - 1
        /\ \A n \in 1 .. k - 1 : r[n] = s[n]
    BY FrontFacts
  <1> HIDE DEF r
  <1> SUFFICES ASSUME NEW n \in 1 .. k - 1
               PROVE  /\ r[n].left \subseteq w.offers[r[n].key]
                      /\ r[n].pc # "find" => r[n].b \in Reaches(w, r[n].key)
                      /\ \A m \in 1 .. n - 1, level \in Levels(w), c \in Reaches(w, r[n].key) :
                           /\ level[c] <= level[r[m].b]
                           /\ r[m].pc = "args" => level[c] < level[r[m].b]
    BY <1>1 DEF Descends, r
  <1>2. n \in 1 .. k /\ r[n] = s[n] /\ \A m \in 1 .. n - 1 : r[m] = s[m]
    BY <1>1
  <1> QED
    BY <1>2 DEF Descends

\* The call of a dependency.
LEMMA CallDescends ==
    ASSUME ContInv, NEW s \in Seq(Frame), s # <<>>, StackOK(s), Descends(wiring, s),
           NEW k \in Keys, Last(s).pc \in {"args", "fill"},
           Last(s).pos <= Len(Dependencies(Last(s))), k = Dependencies(Last(s))[Last(s).pos]
    PROVE  Descends(wiring, Append(s, Call(k)))
  <1> DEFINE r == Append(s, Call(k))
             l == Len(s)
             f == Last(s)
             c == Call(k)
  <1>1. l \in Nat \ {0} /\ f = s[l] /\ f \in Frame
    BY FrontFacts
  <1>2. wiring \in Wiring
    BY WiringAssumption DEF ContInv, TypeOK
  <1>3. c \in Frame /\ c.pc = "find" /\ c.key = k /\ c.left = wiring.offers[k]
    BY <1>2, CallFrame DEF Call
  <1> HIDE DEF c
  <1>4. Len(r) = l + 1 /\ r[l + 1] = c /\ \A n \in 1 .. l : r[n] = s[n]
    BY <1>1, <1>3 DEF c
  <1>5. /\ f.b \in Bindings /\ f.b \in Reaches(wiring, f.key) /\ f.key \in Keys
        /\ f.pos \in Nat \ {0}
    BY <1>1 DEF StackOK, Descends, Frame
  <1>6. ASSUME NEW d \in Reaches(wiring, k)
        PROVE  /\ d \in Bindings
               /\ f.pc = "args" => Needs(wiring, f.b, d, wiring.args)
               /\ f.pc = "fill" => Needs(wiring, f.b, d, wiring.fields)
    <2>1. /\ wiring.args[f.b] \in Seq(Keys) /\ wiring.fields[f.b] \in Seq(Keys)
      BY <1>2, <1>5 DEF Wiring
    <2>2. ASSUME NEW q \in Seq(Keys), NEW i \in Nat \ {0}, i <= Len(q)
          PROVE  q[i] \in ToSet(q)
      BY <2>2 DEF ToSet
    <2>3. CASE f.pc = "args"
      <3>1. Dependencies(f) = wiring.args[f.b]
        BY <2>3 DEF Dependencies
      <3>2. k \in ToSet(wiring.args[f.b])
        BY <1>5, <2>1, <2>2, <3>1
      <3> QED
        BY <1>2, <2>3, <3>2, ReachesBindings DEF Needs
    <2>4. CASE f.pc = "fill"
      <3>1. Dependencies(f) = wiring.fields[f.b]
        BY <2>4 DEF Dependencies
      <3>2. k \in ToSet(wiring.fields[f.b])
        BY <1>5, <2>1, <2>2, <3>1
      <3> QED
        BY <1>2, <2>4, <3>2, ReachesBindings DEF Needs
    <2> QED
      BY <2>3, <2>4
  <1>7. ASSUME NEW m \in 1 .. l, NEW level \in Levels(wiring), NEW d \in Reaches(wiring, k)
        PROVE  /\ level[d] <= level[s[m].b]
               /\ s[m].pc = "args" => level[d] < level[s[m].b]
    <2>1. /\ level \in [Bindings -> Nat] /\ d \in Bindings /\ level[d] <= level[f.b]
          /\ f.pc = "args" => level[d] < level[f.b]
      <3>1. /\ level \in [Bindings -> Nat]
            /\ \A b1, b2 \in Bindings :
                 /\ Needs(wiring, b1, b2, wiring.args) => level[b2] < level[b1]
                 /\ Needs(wiring, b1, b2, wiring.fields) => level[b2] <= level[b1]
        BY DEF Levels
      <3>2. level[d] \in Nat /\ level[f.b] \in Nat
        BY <1>5, <1>6, <3>1
      <3> QED
        BY <1>5, <1>6, <3>1, <3>2
    <2>2. CASE m = l
      BY <1>1, <2>1, <2>2
    <2>3. CASE m \in 1 .. l - 1
      <3>1. /\ level[f.b] <= level[s[m].b]
            /\ s[m].pc = "args" => level[f.b] < level[s[m].b]
        BY <1>1, <1>5, <2>3 DEF Descends
      <3>2. s[m].b \in Bindings
        BY <1>1, <2>3 DEF StackOK
      <3>3. level[d] \in Nat /\ level[f.b] \in Nat /\ level[s[m].b] \in Nat
        BY <1>5, <2>1, <3>2
      <3> QED
        BY <2>1, <3>1, <3>3
    <2> QED
      BY <1>1, <2>2, <2>3
  <1> HIDE DEF r, f
  <1> SUFFICES ASSUME NEW n \in 1 .. l + 1
               PROVE  /\ r[n].left \subseteq wiring.offers[r[n].key]
                      /\ r[n].pc # "find" => r[n].b \in Reaches(wiring, r[n].key)
                      /\ \A m \in 1 .. n - 1, level \in Levels(wiring), d \in Reaches(wiring, r[n].key) :
                           /\ level[d] <= level[r[m].b]
                           /\ r[m].pc = "args" => level[d] < level[r[m].b]
    BY <1>4 DEF Descends, r
  <1>8. n = l + 1 \/ n \in 1 .. l
    BY <1>1
  <1>9. \A m \in 1 .. n - 1 : m \in 1 .. l /\ r[m] = s[m]
    BY <1>1, <1>4
  <1>10. CASE n = l + 1
    BY <1>3, <1>4, <1>7, <1>9, <1>10
  <1>11. CASE n \in 1 .. l
    BY <1>4, <1>9, <1>11 DEF Descends
  <1> QED
    BY <1>8, <1>10, <1>11

LEMMA FirstDescends ==
    ASSUME wiring \in Wiring, NEW k \in Keys
    PROVE  Descends(wiring, <<Call(k)>>)
  <1>1. Call(k) \in Frame /\ Call(k).pc = "find" /\ Call(k).key = k /\ Call(k).left = wiring.offers[k]
    BY CallFrame DEF Call
  <1>2. Len(<<Call(k)>>) = 1 /\ <<Call(k)>>[1] = Call(k)
    OBVIOUS
  <1> DEFINE r == <<Call(k)>>
  <1> HIDE DEF r
  <1>3. Len(r) = 1 /\ r[1].pc = "find" /\ r[1].key = k /\ r[1].left = wiring.offers[k]
    BY <1>1, <1>2 DEF r
  <1>4. \A n \in 1 .. 1 : n = 1 /\ 1 .. n - 1 = {}
    OBVIOUS
  <1>5. Descends(wiring, r)
    BY <1>3, <1>4 DEF Descends
  <1> QED
    BY <1>5 DEF r

-----------------------------------------------------------------------------
\* The goroutines that a step of t does not move: they are at most woken.
Bystanders(t) ==
    \A u \in Threads : u # t =>
        stack'[u] = stack[u] \/ (At(u, "wait") /\ stack'[u] = Goto(u, "woken"))

LEMMA Bystander ==
    ASSUME ContInv, CallsInv, NEW t \in Threads, Bystanders(t), NEW u \in Threads, u # t
    PROVE  /\ Descends(wiring, stack'[u])
           /\ \A b \in Bindings : Seeks(stack'[u], b) <=> Seeks(stack[u], b)
           /\ \A b \in Bindings, n \in Nat : FillsIn(stack'[u], n, b) <=> FillsIn(stack[u], n, b)
  <1>1. Descends(wiring, stack[u]) /\ wiring \in Wiring /\ stack[u] \in Seq(Frame)
    BY Parts DEF CallsInv
  <1>2. CASE stack'[u] = stack[u]
    BY <1>1, <1>2
  <1>3. CASE At(u, "wait") /\ stack'[u] = Goto(u, "woken")
    <2> DEFINE s == stack[u]
               f == Gone(Last(s), "woken")
               r == WithTop(s, f)
               k == Len(s)
    <2>1. /\ s # <<>> /\ Last(s).pc = "wait" /\ k \in Nat \ {0} /\ Last(s) = s[k]
          /\ Last(s) \in Frame /\ s \in Seq(Frame)
      BY <1>3, Parts DEF At
    <2>2. f \in Frame /\ f.pc = "woken" /\ f.b = Last(s).b
      BY <2>1, FrameSet
    <2>3. f.key = Last(s).key /\ f.left = Last(s).left
      BY <2>1, FrameKeys
    <2>4. Last(s).b \in Reaches(wiring, Last(s).key)
      BY <1>1, <2>1 DEF Descends
    <2>5. stack'[u] = r
      BY <1>3 DEF Goto, Gone
    <2> HIDE DEF f, s
    <2>6. Descends(wiring, r)
      BY <1>1, <2>1, <2>2, <2>3, <2>4, WithTopDescends DEF s
    <2>7. /\ r \in Seq(Frame) /\ Len(r) = k /\ r[k] = f /\ r # <<>>
          /\ \A n \in 1 .. k - 1 : r[n] = s[n]
      BY <2>1, <2>2, WithTopFacts
    <2> HIDE DEF r
    <2>8. Last(r) = f
      BY <2>7, FrontFacts
    <2>9. \A b \in Bindings : Seeks(r, b) <=> Seeks(s, b)
      BY <2>1, <2>2, <2>7, <2>8 DEF Seeks
    <2>10. \A b \in Bindings, n \in Nat : FillsIn(r, n, b) <=> FillsIn(s, n, b)
      <3> SUFFICES ASSUME NEW b \in Bindings, NEW n \in Nat
                   PROVE  FillsIn(r, n, b) <=> FillsIn(s, n, b)
        OBVIOUS
      <3>1. CASE n = k
        BY <2>1, <2>2, <2>7, <3>1 DEF FillsIn
      <3>2. CASE n # k
        <4>1. n \in 1 .. k => n \in 1 .. k - 1
          BY <2>1, <3>2
        <4> QED
          BY <2>7, <4>1 DEF FillsIn
      <3> QED
        BY <3>1, <3>2
    <2> QED
      BY <2>5, <2>6, <2>9, <2>10 DEF s
  <1> QED
    BY <1>2, <1>3 DEF Bystanders

LEMMA ContinueStays ==
    ASSUME NEW t, NEW s, NEW b, Continue(t, s, b)
    PROVE  Bystanders(t)
  BY DEF Continue, Bystanders, Waiting

\* What a step of t may do to its own stack: go for nothing, or for nothing new.
LEMMA CallsStep ==
    ASSUME ContInv, CallsInv, NEW t \in Threads, Bystanders(t), wiring' = wiring,
           Descends(wiring, stack'[t]),
           \A b \in wiring.shared, n \in Nat : FillsIn(stack'[t], n, b) => concrete'[b] # 0,
           \A b \in wiring.shared, u \in Threads \ {t}, n \in Nat :
              FillsIn(stack[u], n, b) => concrete'[b] # 0,
           \/ \A b \in wiring.shared : Seeks(stack'[t], b) =>
                 \A u \in Threads, n \in Nat : ~FillsIn(stack'[u], n, b)
           \/ \A b \in wiring.shared, n \in Nat :
                 /\ Seeks(stack'[t], b) => Seeks(stack[t], b)
                 /\ FillsIn(stack'[t], n, b) => FillsIn(stack[t], n, b)
    PROVE  CallsInv'
  <1>1. wiring.shared \subseteq Bindings
    BY Parts
  <1>2. \A u \in Threads : u # t =>
           /\ Descends(wiring, stack'[u])
           /\ \A b \in Bindings : Seeks(stack'[u], b) <=> Seeks(stack[u], b)
           /\ \A b \in Bindings, n \in Nat : FillsIn(stack'[u], n, b) <=> FillsIn(stack[u], n, b)
    BY Bystander
  <1>3. \A u \in Threads : Descends(wiring, stack'[u])
    BY <1>2
  <1>4. \A b \in wiring.shared, u \in Threads, n \in Nat : FillsIn(stack'[u], n, b) => concrete'[b] # 0
    BY <1>1, <1>2
  <1> DEFINE AheadNext(v, u) ==
        \E b \in wiring.shared, n \in Nat : Seeks(stack'[v], b) /\ FillsIn(stack'[u], n, b)
  <1>5. \A v, u \in Threads : v # t /\ u # t => (AheadNext(v, u) <=> Ahead(v, u))
    BY <1>1, <1>2 DEF Ahead
  <1>6. \A v \in Threads : v # t => \A b \in wiring.shared : Seeks(stack'[v], b) <=> Seeks(stack[v], b)
    BY <1>1, <1>2
  <1>7. \A u \in Threads, b \in wiring.shared, n \in Nat :
           u # t => (FillsIn(stack'[u], n, b) <=> FillsIn(stack[u], n, b))
    BY <1>1, <1>2
  <1>8. ASSUME NEW group \in (SUBSET Threads) \ {{}}
        PROVE  \E v \in group : \A u \in group : ~AheadNext(v, u)
    <2>1. PICK v \in group : \A u \in group : ~Ahead(v, u)
      BY DEF CallsInv
    <2>2. CASE t \notin group
      BY <1>5, <2>1, <2>2
    <2>3. CASE t \in group /\ \A b \in wiring.shared : Seeks(stack'[t], b) =>
                                 \A u \in Threads, n \in Nat : ~FillsIn(stack'[u], n, b)
      <3>1. \A u \in group : ~AheadNext(t, u)
        BY <2>3
      <3> QED
        BY <2>3, <3>1
    <2>4. CASE \A b \in wiring.shared, n \in Nat :
                  /\ Seeks(stack'[t], b) => Seeks(stack[t], b)
                  /\ FillsIn(stack'[t], n, b) => FillsIn(stack[t], n, b)
      <3>1. \A u \in Threads, b \in wiring.shared, n \in Nat :
               /\ Seeks(stack'[u], b) => Seeks(stack[u], b)
               /\ FillsIn(stack'[u], n, b) => FillsIn(stack[u], n, b)
        BY <1>6, <1>7, <2>4
      <3>2. \A u \in group : ~AheadNext(v, u)
        BY <2>1, <3>1 DEF Ahead
      <3> QED
        BY <3>2
    <2> QED
      BY <2>2, <2>3, <2>4
  <1>9. (\A group \in (SUBSET Threads) \ {{}} : \E v \in group : \A u \in group : ~Ahead(v, u))'
    BY <1>8 DEF Ahead
  <1> QED
    BY <1>3, <1>4, <1>9 DEF CallsInv

-----------------------------------------------------------------------------
\* What a stack goes for and fills, with another frame on top, and without its topmost one.
LEMMA WithTopSeeks ==
    ASSUME NEW s \in Seq(Frame), s # <<>>, NEW f \in Frame
    PROVE  /\ \A b \in Bindings :
                Seeks(WithTop(s, f), b) <=> f.pc \in {"lock", "wait", "woken"} /\ f.b = b
           /\ \A b \in Bindings, n \in Nat :
                FillsIn(WithTop(s, f), n, b) <=> \/ n # Len(s) /\ FillsIn(s, n, b)
                                                 \/ n = Len(s) /\ f.b = b /\ f.pc = "fill"
  <1> DEFINE r == WithTop(s, f)
             k == Len(s)
  <1>1. /\ r \in Seq(Frame) /\ Len(r) = k /\ r[k] = f /\ r # <<>>
        /\ \A n \in 1 .. k - 1 : r[n] = s[n]
        /\ k \in Nat \ {0}
    BY WithTopFacts, FrontFacts
  <1> HIDE DEF r
  <1>2. Last(r) = f
    BY <1>1, FrontFacts
  <1>3. \A b \in Bindings : Seeks(r, b) <=> f.pc \in {"lock", "wait", "woken"} /\ f.b = b
    BY <1>1, <1>2 DEF Seeks
  <1>4. ASSUME NEW b \in Bindings, NEW n \in Nat
        PROVE  FillsIn(r, n, b) <=> \/ n # k /\ FillsIn(s, n, b)
                                    \/ n = k /\ f.b = b /\ f.pc = "fill"
    <2>1. CASE n = k
      BY <1>1, <2>1 DEF FillsIn
    <2>2. CASE n # k
      <3>1. n \in 1 .. k => n \in 1 .. k - 1
        BY <1>1, <2>2
      <3> QED
        BY <1>1, <2>2, <3>1 DEF FillsIn
    <2> QED
      BY <2>1, <2>2
  <1> QED
    BY <1>3, <1>4 DEF r

LEMMA FrontSeeks ==
    ASSUME NEW s \in Seq(Frame), s # <<>>
    PROVE  \A b \in Bindings, n \in Nat :
                FillsIn(Front(s), n, b) <=> n # Len(s) /\ FillsIn(s, n, b)
  <1> DEFINE r == Front(s)
             k == Len(s)
  <1>1. k \in Nat \ {0} /\ Len(r) = k - 1 /\ \A n \in 1 .. k - 1 : r[n] = s[n]
    BY FrontFacts
  <1> HIDE DEF r
  <1>2. \A n \in Nat : n \in 1 .. k - 1 <=> n \in 1 .. k /\ n # k
    BY <1>1
  <1>3. \A b \in Bindings, n \in Nat : FillsIn(r, n, b) <=> n # k /\ FillsIn(s, n, b)
    BY <1>1, <1>2 DEF FillsIn
  <1> QED
    BY <1>3 DEF r

\* A caller that goes on goes for nothing.
LEMMA ResumedSeeks ==
    ASSUME NEW w \in Wiring, NEW s \in Seq(Frame), s # <<>>, Descends(w, s),
           Last(s).pc \in {"args", "fill"}, NEW failed \in BOOLEAN
    PROVE  /\ Descends(w, Resumed(s, failed))
           /\ \A b \in Bindings : ~Seeks(Resumed(s, failed), b)
           /\ \A b \in Bindings, n \in Nat : FillsIn(Resumed(s, failed), n, b) => FillsIn(s, n, b)
  <1> DEFINE f == IF failed THEN Turned(Last(s)) ELSE Onward(Last(s))
             k == Len(s)
  <1>1. k \in Nat \ {0} /\ Last(s) = s[k] /\ Last(s) \in Frame
    BY FrontFacts
  <1>2. /\ f \in Frame /\ f.b = Last(s).b /\ f.key = Last(s).key /\ f.left = Last(s).left
        /\ f.pc = Last(s).pc \/ f.pc = "fail"
    BY <1>1, FrameSet, FrameKeys
  <1>3. Resumed(s, failed) = WithTop(s, f)
    BY DEF Resumed, Turned, Onward
  <1> HIDE DEF f
  <1>4. Last(s).b \in Reaches(w, Last(s).key)
    BY <1>1 DEF Descends
  <1>5. Descends(w, WithTop(s, f))
    BY <1>2, <1>4, WithTopDescends
  <1>6. /\ \A b \in Bindings : ~Seeks(WithTop(s, f), b)
        /\ \A b \in Bindings, n \in Nat : FillsIn(WithTop(s, f), n, b) => FillsIn(s, n, b)
    <2>1. /\ \A b \in Bindings :
                Seeks(WithTop(s, f), b) <=> f.pc \in {"lock", "wait", "woken"} /\ f.b = b
          /\ \A b \in Bindings, n \in Nat :
                FillsIn(WithTop(s, f), n, b) <=> \/ n # k /\ FillsIn(s, n, b)
                                                 \/ n = k /\ f.b = b /\ f.pc = "fill"
      BY <1>2, WithTopSeeks
    <2> QED
      BY <1>1, <1>2, <2>1 DEF FillsIn
  <1> QED
    BY <1>3, <1>5, <1>6

-----------------------------------------------------------------------------
\* The steps, by what they do to the stack of t: it returns from the topmost call, ...
LEMMA ReturnCalls ==
    ASSUME ContInv, CallsInv, NEW t \in Threads, stack[t] # <<>>, NEW r \in {"ok", "error"}, NEW b,
           Return(t, r, b)
    PROVE  /\ Bystanders(t) /\ Descends(wiring, stack'[t])
           /\ \A c \in Bindings : ~Seeks(stack'[t], c)
           /\ \A c \in Bindings, n \in Nat :
                FillsIn(stack'[t], n, c) => n # Len(stack[t]) /\ FillsIn(stack[t], n, c)
  <1> DEFINE s == Front(stack[t])
             q == IF s = <<>> THEN s ELSE Resumed(s, r = "error")
  <1>1. /\ stack[t] \in Seq(Frame) /\ StackOK(stack[t]) /\ wiring \in Wiring
        /\ Descends(wiring, stack[t])
    BY Parts DEF CallsInv
  <1>2. /\ s \in Seq(Frame) /\ Descends(wiring, s)
        /\ s # <<>> => Last(s).pc \in {"args", "fill"}
        /\ \A c \in Bindings, n \in Nat :
             FillsIn(s, n, c) <=> n # Len(stack[t]) /\ FillsIn(stack[t], n, c)
    BY <1>1, FrontOK, FrontDescends, FrontSeeks
  <1>3. Continue(t, q, b)
    BY DEF Return
  <1> HIDE DEF s
  <1>4. /\ q \in Seq(Frame) /\ Descends(wiring, q) /\ \A c \in Bindings : ~Seeks(q, c)
        /\ \A c \in Bindings, n \in Nat : FillsIn(q, n, c) => FillsIn(s, n, c)
    <2>1. CASE s = <<>>
      BY <1>2, <2>1 DEF Seeks
    <2>2. CASE s # <<>>
      <3>1. (r = "error") \in BOOLEAN
        OBVIOUS
      <3>2. StackOK(s)
        BY <1>1, FrontOK DEF s
      <3> QED
        BY <1>1, <1>2, <2>2, <3>1, <3>2, ResumedSeeks, ResumedOK
    <2> QED
      BY <2>1, <2>2
  <1> HIDE DEF q
  <1>5. stack'[t] = q /\ Bystanders(t)
    BY <1>3, <1>4, ContinueFacts, ContinueStays
  <1> QED
    BY <1>2, <1>4, <1>5

\* ... puts another frame on top for the same key, ...
LEMMA TopCalls ==
    ASSUME ContInv, CallsInv, NEW t \in Threads, stack[t] # <<>>, NEW f \in Frame,
           f.key = Last(stack[t]).key, f.left \subseteq Last(stack[t]).left,
           f.pc # "find" => f.b \in Reaches(wiring, f.key),
           NEW b, Continue(t, WithTop(stack[t], f), b)
    PROVE  /\ Bystanders(t) /\ Descends(wiring, stack'[t])
           /\ \A c \in Bindings : Seeks(stack'[t], c) <=> f.pc \in {"lock", "wait", "woken"} /\ f.b = c
           /\ \A c \in Bindings, n \in Nat :
                FillsIn(stack'[t], n, c) <=> \/ n # Len(stack[t]) /\ FillsIn(stack[t], n, c)
                                             \/ n = Len(stack[t]) /\ f.b = c /\ f.pc = "fill"
  <1> DEFINE s == stack[t]
             r == WithTop(s, f)
  <1>1. s \in Seq(Frame) /\ wiring \in Wiring /\ Descends(wiring, s)
    BY Parts DEF CallsInv
  <1> HIDE DEF s
  <1>2. Descends(wiring, r)
    BY <1>1, WithTopDescends DEF s
  <1>3. r \in Seq(Frame)
    BY <1>1, WithTopFacts DEF s
  <1>4. /\ \A c \in Bindings : Seeks(r, c) <=> f.pc \in {"lock", "wait", "woken"} /\ f.b = c
        /\ \A c \in Bindings, n \in Nat :
             FillsIn(r, n, c) <=> \/ n # Len(s) /\ FillsIn(s, n, c)
                                  \/ n = Len(s) /\ f.b = c /\ f.pc = "fill"
    BY <1>1, WithTopSeeks DEF s
  <1>5. Continue(t, r, b)
    BY DEF s
  <1> HIDE DEF r
  <1>6. stack'[t] = r /\ Bystanders(t)
    BY <1>3, <1>5, ContinueFacts, ContinueStays
  <1> QED
    BY <1>2, <1>4, <1>6 DEF s

\* ... or another frame with the same binding.
LEMMA GotoCalls ==
    ASSUME ContInv, CallsInv, NEW t \in Threads, stack[t] # <<>>, Last(stack[t]).pc # "find",
           NEW p \in {"wait", "args", "fill", "fail"}, NEW b, Continue(t, Goto(t, p), b)
    PROVE  /\ Bystanders(t) /\ Descends(wiring, stack'[t])
           /\ \A c \in Bindings : Seeks(stack'[t], c) <=> p = "wait" /\ B(t) = c
           /\ \A c \in Bindings, n \in Nat :
                FillsIn(stack'[t], n, c) <=> \/ n # Len(stack[t]) /\ FillsIn(stack[t], n, c)
                                             \/ n = Len(stack[t]) /\ B(t) = c /\ p = "fill"
  <1> DEFINE f == Gone(Last(stack[t]), p)
  <1>1. /\ Last(stack[t]) \in Frame /\ Last(stack[t]) = stack[t][Len(stack[t])]
        /\ Len(stack[t]) \in Nat \ {0}
    BY Parts
  <1>2. p \in {"find", "take", "lock", "wait", "woken", "args", "fill", "fail"}
    OBVIOUS
  <1>3. f \in Frame /\ f.pc = p /\ f.b = B(t)
    BY <1>1, <1>2, FrameSet DEF B
  <1>4. f.key = Last(stack[t]).key /\ f.left = Last(stack[t]).left
    BY <1>1, <1>2, FrameKeys
  <1>5. Continue(t, WithTop(stack[t], f), b)
    BY DEF Goto, Gone
  <1> HIDE DEF f
  <1>6. B(t) \in Reaches(wiring, Last(stack[t]).key)
    BY <1>1 DEF CallsInv, Descends, B
  <1>7. /\ Bystanders(t) /\ Descends(wiring, stack'[t])
        /\ \A c \in Bindings : Seeks(stack'[t], c) <=> f.pc \in {"lock", "wait", "woken"} /\ f.b = c
        /\ \A c \in Bindings, n \in Nat :
             FillsIn(stack'[t], n, c) <=> \/ n # Len(stack[t]) /\ FillsIn(stack[t], n, c)
                                          \/ n = Len(stack[t]) /\ f.b = c /\ f.pc = "fill"
    BY <1>3, <1>4, <1>5, <1>6, TopCalls
  <1> QED
    BY <1>3, <1>7

-----------------------------------------------------------------------------
LEMMA ResolveCalls ==
    ASSUME ContInv, CallsInv, NEW t \in Threads, NEW k \in wiring.roots, Resolve(t, k)
    PROVE  CallsInv'
  <1>1. wiring \in Wiring /\ wiring.roots \subseteq Keys /\ wiring.shared \subseteq Bindings
    BY Parts DEF Wiring
  <1>2. Call(k) \in Frame /\ Call(k).pc = "find"
    BY <1>1, CallFrame
  <1>3. Descends(wiring, <<Call(k)>>)
    BY <1>1, FirstDescends
  <1> DEFINE c == Call(k)
             r == <<c>>
  <1>4. c \in Frame /\ c.pc = "find" /\ Descends(wiring, r)
    BY <1>2, <1>3
  <1>5. /\ stack' = [stack EXCEPT ![t] = r] /\ stack \in [Threads -> Seq(Frame)]
        /\ UNCHANGED <<wiring, instances>>
    BY Parts DEF Resolve
  <1> HIDE DEF c
  <1>6. r \in Seq(Frame) /\ Len(r) = 1 /\ r[1] = c /\ r # <<>>
    BY <1>4
  <1> HIDE DEF r
  <1>7. Last(r) = c
    BY <1>6, FrontFacts
  <1>8. \A b \in Bindings, n \in Nat : ~Seeks(r, b) /\ ~FillsIn(r, n, b)
    BY <1>4, <1>6, <1>7 DEF Seeks, FillsIn
  <1>9. Bystanders(t) /\ stack'[t] = r
    BY <1>5 DEF Bystanders
  <1> QED
    BY <1>1, <1>4, <1>5, <1>8, <1>9, CallsStep DEF CallsInv, instances

\* Nobody fills a singleton that has no instance.
LEMMA FindCalls ==
    ASSUME ContInv, CallsInv, NEW t \in Threads, Find(t)
    PROVE  CallsInv'
  <1> DEFINE l == Last(stack[t])
  <1>1. /\ wiring \in Wiring /\ wiring.shared \subseteq Bindings /\ stack[t] # <<>>
        /\ l \in Frame /\ l.pc = "find" /\ l = stack[t][Len(stack[t])]
        /\ Len(stack[t]) \in Nat \ {0}
    BY Parts DEF Find, At
  <1>2. l.left \subseteq wiring.offers[l.key]
    BY <1>1 DEF CallsInv, Descends
  <1>3. Candidates(l) \subseteq Bindings /\ Candidates(l) \subseteq Reaches(wiring, l.key)
    BY <1>1, <1>2 DEF Candidates, Frame, Wiring, Reaches
  <1>4. PICK b \in Candidates(l) :
           Choose(t, b, IF ~Shared(b) THEN "args" ELSE IF concrete[b] = 0 THEN "lock" ELSE "take")
    BY DEF Find
  <1>5. UNCHANGED <<wiring, instances, constructing, outcome, failures>>
    BY DEF Find
  <1> DEFINE p == IF ~Shared(b) THEN "args" ELSE IF concrete[b] = 0 THEN "lock" ELSE "take"
             f == Chosen(l, b, p)
  <1>6. p \in {"args", "lock", "take"} /\ b \in Bindings /\ (p = "lock" => concrete[b] = 0)
    BY <1>3
  <1>7. Continue(t, WithTop(stack[t], f), None)
    BY <1>4 DEF Choose, Chosen
  <1> HIDE DEF p, l
  <1>8. f \in Frame /\ f.pc = p /\ f.b = b /\ f.key = l.key /\ f.left \subseteq l.left
    <2>1. p \in {"take", "lock", "args"} /\ b \in Bindings /\ l \in Frame
      BY <1>1, <1>6
    <2> HIDE DEF f
    <2> QED
      BY <2>1, ChosenFrame, ChosenKeys DEF f
  <1> HIDE DEF f
  <1>9. /\ Bystanders(t) /\ Descends(wiring, stack'[t])
        /\ \A c \in Bindings : Seeks(stack'[t], c) <=> f.pc \in {"lock", "wait", "woken"} /\ f.b = c
        /\ \A c \in Bindings, n \in Nat :
             FillsIn(stack'[t], n, c) <=> \/ n # Len(stack[t]) /\ FillsIn(stack[t], n, c)
                                          \/ n = Len(stack[t]) /\ f.b = c /\ f.pc = "fill"
    BY <1>1, <1>3, <1>7, <1>8, TopCalls DEF l
  <1>10. \A c \in wiring.shared, u \in Threads, n \in Nat : FillsIn(stack[u], n, c) => concrete[c] # 0
    BY DEF CallsInv
  <1>11. \A c \in wiring.shared, u \in Threads, n \in Nat :
            FillsIn(stack'[u], n, c) => FillsIn(stack[u], n, c)
    BY <1>1, <1>6, <1>8, <1>9, Bystander
  <1>12. ASSUME NEW c \in wiring.shared, Seeks(stack'[t], c), NEW u \in Threads, NEW n \in Nat
         PROVE  ~FillsIn(stack'[u], n, c)
    BY <1>1, <1>6, <1>8, <1>9, <1>10, <1>11, <1>12
  <1> QED
    BY <1>5, <1>9, <1>10, <1>11, <1>12, CallsStep DEF instances

\* A step that returns, and publishes nothing.
LEMMA ReturnsCalls ==
    ASSUME ContInv, CallsInv, NEW t \in Threads, stack[t] # <<>>, NEW r \in {"ok", "error"}, NEW b,
           Return(t, r, b), wiring' = wiring, concrete' = concrete
    PROVE  CallsInv'
  <1>1. /\ Bystanders(t) /\ Descends(wiring, stack'[t])
        /\ \A c \in Bindings : ~Seeks(stack'[t], c)
        /\ \A c \in Bindings, n \in Nat :
             FillsIn(stack'[t], n, c) => n # Len(stack[t]) /\ FillsIn(stack[t], n, c)
    BY ReturnCalls
  <1>2. /\ wiring.shared \subseteq Bindings
        /\ \A c \in wiring.shared, u \in Threads, n \in Nat : FillsIn(stack[u], n, c) => concrete[c] # 0
    BY Parts DEF CallsInv
  <1> QED
    BY <1>1, <1>2, CallsStep

\* Waiting is for what the goroutine went for.
LEMMA LockCalls ==
    ASSUME ContInv, CallsInv, NEW t \in Threads, Lock(t)
    PROVE  CallsInv'
  <1>1. /\ stack[t] # <<>> /\ Last(stack[t]).pc \in {"lock", "woken"}
        /\ wiring.shared \subseteq Bindings /\ B(t) \in Bindings
        /\ wiring' = wiring /\ concrete' = concrete
    BY Parts DEF Lock, At
  <1>2. \A c \in wiring.shared, u \in Threads, n \in Nat : FillsIn(stack[u], n, c) => concrete[c] # 0
    BY DEF CallsInv
  <1>3. ASSUME NEW p \in {"wait", "args"}, Continue(t, Goto(t, p), None)
        PROVE  CallsInv'
    <2>1. /\ Bystanders(t) /\ Descends(wiring, stack'[t])
          /\ \A c \in Bindings : Seeks(stack'[t], c) <=> p = "wait" /\ B(t) = c
          /\ \A c \in Bindings, n \in Nat :
               FillsIn(stack'[t], n, c) <=> \/ n # Len(stack[t]) /\ FillsIn(stack[t], n, c)
                                            \/ n = Len(stack[t]) /\ B(t) = c /\ p = "fill"
      BY <1>1, <1>3, GotoCalls
    <2>2. \A c \in wiring.shared, n \in Nat :
             /\ Seeks(stack'[t], c) => Seeks(stack[t], c)
             /\ FillsIn(stack'[t], n, c) => FillsIn(stack[t], n, c)
      BY <1>1, <1>3, <2>1 DEF Seeks, B
    <2> QED
      BY <1>1, <1>2, <2>1, <2>2, CallsStep
  <1>4. CASE Return(t, "ok", None)
    BY <1>1, <1>4, ReturnsCalls
  <1>5. CASE Continue(t, Goto(t, "wait"), None)
    BY <1>3, <1>5
  <1>6. CASE Continue(t, Goto(t, "args"), None)
    BY <1>3, <1>6
  <1> QED
    BY <1>4, <1>5, <1>6 DEF Lock

LEMMA DescendCalls ==
    ASSUME ContInv, CallsInv, NEW t \in Threads, NEW k \in Keys, Descend(t, k)
    PROVE  CallsInv'
  <1> DEFINE s == stack[t]
             c == Call(k)
             r == Append(s, c)
  <1>1. /\ s \in Seq(Frame) /\ StackOK(s) /\ s # <<>> /\ Last(s).pc \in {"args", "fill"}
        /\ wiring \in Wiring /\ wiring.shared \subseteq Bindings /\ Len(s) \in Nat
        /\ Descends(wiring, s)
    BY NeededBy, Parts DEF Descend, CallsInv
  <1>2. Last(s).pos <= Len(Dependencies(Last(s))) /\ k = Dependencies(Last(s))[Last(s).pos]
    BY DEF Descend, Needed
  <1>3. c \in Frame /\ c.pc = "find"
    BY <1>1, CallFrame
  <1>4. Descends(wiring, r)
    BY <1>1, <1>2, CallDescends
  <1>5. /\ stack' = [stack EXCEPT ![t] = r] /\ stack \in [Threads -> Seq(Frame)]
        /\ UNCHANGED <<wiring, instances>>
    BY Parts DEF Descend
  <1> HIDE DEF s, c
  <1>6. /\ r \in Seq(Frame) /\ Len(r) = Len(s) + 1 /\ r[Len(s) + 1] = c /\ r # <<>>
        /\ \A n \in 1 .. Len(s) : r[n] = s[n]
    BY <1>1, <1>3
  <1> HIDE DEF r
  <1>7. Last(r) = c
    BY <1>6, FrontFacts
  <1>8. \A b \in Bindings : ~Seeks(r, b)
    BY <1>3, <1>7 DEF Seeks
  <1>9. \A b \in Bindings, n \in Nat : FillsIn(r, n, b) => FillsIn(s, n, b)
    <2>1. \A n \in 1 .. Len(r) : n \in 1 .. Len(s) \/ n = Len(s) + 1
      BY <1>1, <1>6
    <2> QED
      BY <1>3, <1>6, <2>1 DEF FillsIn
  <1>10. Bystanders(t) /\ stack'[t] = r
    BY <1>5 DEF Bystanders
  <1>11. \A b \in wiring.shared, u \in Threads, n \in Nat : FillsIn(stack[u], n, b) => concrete[b] # 0
    BY DEF CallsInv
  <1>12. wiring' = wiring /\ concrete' = concrete
    BY <1>5 DEF instances
  <1>13. \A b \in wiring.shared, n \in Nat : FillsIn(stack'[t], n, b) => concrete'[b] # 0
    BY <1>1, <1>9, <1>10, <1>11, <1>12 DEF s
  <1> QED
    BY <1>1, <1>4, <1>8, <1>10, <1>11, <1>12, <1>13, CallsStep

LEMMA CircularCalls ==
    ASSUME ContInv, CallsInv, NEW t \in Threads, NEW k \in Keys, Circular(t, k)
    PROVE  CallsInv'
  <1> DEFINE s == stack[t]
             r == Resumed(s, wiring.mode = "error")
  <1>1. /\ s \in Seq(Frame) /\ StackOK(s) /\ s # <<>> /\ Last(s).pc \in {"args", "fill"}
        /\ wiring \in Wiring /\ wiring.shared \subseteq Bindings /\ Descends(wiring, s)
    BY NeededBy, Parts DEF Circular, CallsInv
  <1>2. Continue(t, r, None) /\ wiring' = wiring /\ concrete' = concrete
    BY DEF Circular
  <1>3. (wiring.mode = "error") \in BOOLEAN
    OBVIOUS
  <1> HIDE DEF s
  <1>4. /\ Descends(wiring, r) /\ r \in Seq(Frame) /\ \A b \in Bindings : ~Seeks(r, b)
        /\ \A b \in Bindings, n \in Nat : FillsIn(r, n, b) => FillsIn(s, n, b)
    BY <1>1, <1>3, ResumedSeeks, ResumedOK
  <1> HIDE DEF r
  <1>5. Bystanders(t) /\ stack'[t] = r
    BY <1>2, <1>4, ContinueFacts, ContinueStays
  <1>6. \A b \in wiring.shared, u \in Threads, n \in Nat : FillsIn(stack[u], n, b) => concrete[b] # 0
    BY DEF CallsInv
  <1>7. \A b \in wiring.shared, n \in Nat : FillsIn(stack'[t], n, b) => concrete'[b] # 0
    BY <1>1, <1>2, <1>4, <1>5, <1>6 DEF s
  <1> QED
    BY <1>1, <1>2, <1>4, <1>5, <1>6, <1>7, CallsStep

\* The instance is published before its fields are filled.
LEMMA ConstructCalls ==
    ASSUME ContInv, CallsInv, NEW t \in Threads, Construct(t)
    PROVE  CallsInv'
  <1>1. /\ stack[t] # <<>> /\ Last(stack[t]).pc = "args" /\ B(t) \in Bindings
        /\ wiring.shared \subseteq Bindings /\ wiring' = wiring
        /\ Continue(t, Goto(t, "fill"), None)
        /\ concrete \in [Bindings -> Nat] /\ made \in [Bindings -> Nat]
    BY Parts DEF Construct, AllTaken, At
  <1>2. /\ Bystanders(t) /\ Descends(wiring, stack'[t])
        /\ \A c \in Bindings : ~Seeks(stack'[t], c)
        /\ \A c \in Bindings, n \in Nat :
             FillsIn(stack'[t], n, c) => FillsIn(stack[t], n, c) \/ B(t) = c
    BY <1>1, GotoCalls
  <1>3. \A c \in wiring.shared : concrete'[c] = concrete[c] \/ concrete'[c] # 0
    <2>1. CASE Shared(B(t))
      <3>1. concrete' = [concrete EXCEPT ![B(t)] = made[B(t)] + 1] /\ made[B(t)] \in Nat
        BY <1>1, <2>1 DEF Construct
      <3>2. made[B(t)] + 1 # 0
        BY <3>1
      <3> QED
        BY <1>1, <3>1, <3>2
    <2>2. CASE ~Shared(B(t))
      BY <2>2 DEF Construct
    <2> QED
      BY <2>1, <2>2
  <1>4. B(t) \in wiring.shared => concrete'[B(t)] # 0
    <2>1. ASSUME Shared(B(t)) PROVE concrete'[B(t)] # 0
      <3>1. concrete' = [concrete EXCEPT ![B(t)] = made[B(t)] + 1] /\ made[B(t)] \in Nat
        BY <1>1, <2>1 DEF Construct
      <3>2. made[B(t)] + 1 # 0
        BY <3>1
      <3> QED
        BY <1>1, <3>1, <3>2
    <2> QED
      BY <2>1 DEF Shared
  <1>5. \A b \in wiring.shared, u \in Threads, n \in Nat : FillsIn(stack[u], n, b) => concrete[b] # 0
    BY DEF CallsInv
  <1>6. \A b \in wiring.shared, u \in Threads, n \in Nat : FillsIn(stack[u], n, b) => concrete'[b] # 0
    BY <1>3, <1>5
  <1>7. \A b \in wiring.shared, n \in Nat : FillsIn(stack'[t], n, b) => concrete'[b] # 0
    BY <1>1, <1>2, <1>4, <1>6
  <1> QED
    BY <1>1, <1>2, <1>6, <1>7, CallsStep

LEMMA ResolverFailsCalls ==
    ASSUME ContInv, CallsInv, NEW t \in Threads, ResolverFails(t)
    PROVE  CallsInv'
  <1>1. /\ stack[t] # <<>> /\ Last(stack[t]).pc = "args"
        /\ wiring.shared \subseteq Bindings /\ wiring' = wiring /\ concrete' = concrete
        /\ Continue(t, Goto(t, "fail"), None)
    BY Parts DEF ResolverFails, AllTaken, At, instances
  <1>2. /\ Bystanders(t) /\ Descends(wiring, stack'[t])
        /\ \A c \in Bindings : ~Seeks(stack'[t], c)
        /\ \A c \in Bindings, n \in Nat : FillsIn(stack'[t], n, c) => FillsIn(stack[t], n, c)
    BY <1>1, GotoCalls
  <1>3. \A b \in wiring.shared, u \in Threads, n \in Nat : FillsIn(stack[u], n, b) => concrete[b] # 0
    BY DEF CallsInv
  <1> QED
    BY <1>1, <1>2, <1>3, CallsStep

\* Who gives up was the only one to fill the singleton.
LEMMA FailCalls ==
    ASSUME ContInv, CallsInv, NEW t \in Threads, Fail(t)
    PROVE  CallsInv'
  <1> DEFINE b == B(t)
             k == Len(stack[t])
  <1>1. /\ stack[t] # <<>> /\ Last(stack[t]).pc = "fail" /\ b \in Bindings
        /\ wiring.shared \subseteq Bindings /\ wiring' = wiring
        /\ Last(stack[t]) \in Frame /\ k \in Nat \ {0}
        /\ concrete \in [Bindings -> Nat]
    BY Parts DEF Fail, At
  <1>2. PICK d : GiveUp(t, d)
    BY DEF Fail
  <1>3. /\ Bystanders(t) /\ Descends(wiring, stack'[t])
        /\ \A c \in Bindings : ~Seeks(stack'[t], c)
        /\ \A c \in Bindings, n \in Nat :
             FillsIn(stack'[t], n, c) => n # k /\ FillsIn(stack[t], n, c)
    <2>1. CASE Return(t, "error", d)
      BY <1>1, <2>1, ReturnCalls
    <2>2. CASE Continue(t, WithTop(stack[t], Afresh(Last(stack[t]))), d)
      <3> DEFINE f == Afresh(Last(stack[t]))
      <3>1. f \in Frame /\ f.pc = "find"
        BY <1>1, AfreshFrame
      <3>2. f.key = Last(stack[t]).key /\ f.left = Last(stack[t]).left
        BY <1>1, FrameKeys
      <3>3. Continue(t, WithTop(stack[t], f), d)
        BY <2>2
      <3> HIDE DEF f
      <3>4. /\ Bystanders(t) /\ Descends(wiring, stack'[t])
            /\ \A c \in Bindings : Seeks(stack'[t], c) <=> f.pc \in {"lock", "wait", "woken"} /\ f.b = c
            /\ \A c \in Bindings, n \in Nat :
                 FillsIn(stack'[t], n, c) <=> \/ n # Len(stack[t]) /\ FillsIn(stack[t], n, c)
                                              \/ n = Len(stack[t]) /\ f.b = c /\ f.pc = "fill"
        BY <1>1, <3>1, <3>2, <3>3, TopCalls
      <3> QED
        BY <3>1, <3>4
    <2> QED
      BY <1>2, <2>1, <2>2 DEF GiveUp, Afresh
  <1>4. \A c \in wiring.shared, u \in Threads, n \in Nat : FillsIn(stack[u], n, c) => concrete[c] # 0
    BY DEF CallsInv
  <1>5. \A c \in wiring.shared : c # b => concrete'[c] = concrete[c]
    <2>1. CASE Shared(b)
      BY <1>1, <2>1 DEF Fail
    <2>2. CASE ~Shared(b)
      BY <2>2 DEF Fail
    <2> QED
      BY <2>1, <2>2
  <1>6. \A u \in Threads, n \in Nat : b \in wiring.shared /\ FillsIn(stack[u], n, b) => u = t /\ n = k
    <2>1. BuildsIn(stack[t], k, b)
      BY <1>1, TopBuilds
    <2>2. \A u \in Threads, n \in Nat : FillsIn(stack[u], n, b) => BuildsIn(stack[u], n, b)
      BY DEF FillsIn, BuildsIn
    <2> HIDE DEF b, k
    <2> QED
      BY <1>1, <2>1, <2>2 DEF ContInv, Flagged
  <1> HIDE DEF b, k
  <1>7. \A c \in wiring.shared, u \in Threads \ {t}, n \in Nat :
           FillsIn(stack[u], n, c) => concrete'[c] # 0
    BY <1>4, <1>5, <1>6
  <1>8. \A c \in wiring.shared, n \in Nat : FillsIn(stack'[t], n, c) => concrete'[c] # 0
    BY <1>1, <1>3, <1>4, <1>5, <1>6
  <1> QED
    BY <1>1, <1>3, <1>7, <1>8, CallsStep

-----------------------------------------------------------------------------
LEMMA CallsHold == Spec => []CallsInv
  <1>1. Init => CallsInv
    <2> SUFFICES ASSUME Init PROVE CallsInv
      OBVIOUS
    <2>1. \A t \in Threads : stack[t] = <<>> /\ Len(stack[t]) = 0
      BY DEF Init
    <2>2. \A t \in Threads : Descends(wiring, stack[t])
      BY <2>1 DEF Descends
    <2>3. \A t \in Threads, n \in Nat, b \in wiring.shared : ~FillsIn(stack[t], n, b)
      BY <2>1 DEF FillsIn
    <2>4. \A t, u \in Threads : ~Ahead(t, u)
      BY <2>3 DEF Ahead
    <2>5. ASSUME NEW group \in (SUBSET Threads) \ {{}}
          PROVE  \E t \in group : \A u \in group : ~Ahead(t, u)
      BY <2>4
    <2> QED
      BY <2>2, <2>3, <2>5 DEF CallsInv
  <1>2. ContInv /\ CallsInv /\ [Next]_vars => CallsInv'
    <2> SUFFICES ASSUME ContInv, CallsInv, [Next]_vars PROVE CallsInv'
      OBVIOUS
    <2>1. CASE UNCHANGED vars
      BY <2>1 DEF vars, instances, CallsInv, Ahead
    <2>2. ASSUME NEW t \in Threads, NEW k \in wiring.roots, Resolve(t, k) PROVE CallsInv'
      BY <2>2, ResolveCalls
    <2>3. ASSUME NEW t \in Threads, Step(t) PROVE CallsInv'
      <3>1. CASE NotFound(t)
        BY <3>1, ReturnsCalls DEF NotFound, At, instances
      <3>2. CASE Take(t)
        BY <3>2, ReturnsCalls DEF Take, At
      <3>3. CASE Filled(t)
        BY <3>3, ReturnsCalls DEF Filled, AllTaken, At
      <3> QED
        BY <2>3, <3>1, <3>2, <3>3, FindCalls, LockCalls, DescendCalls, CircularCalls,
           ConstructCalls, ResolverFailsCalls, FailCalls DEF Step
    <2> QED
      BY <2>1, <2>2, <2>3 DEF Next
  <1> QED
    BY <1>1, <1>2, ContainerInvariant, PTL DEF Spec

\* A set of levels has a lowest one.
LEMMA Lowest ==
    ASSUME NEW S \in SUBSET Nat, S # {}
    PROVE  \E x \in S : \A y \in S : x <= y
  <1> DEFINE R == OpToRel(<, Nat)
  <1>1. R = {ss \in Nat \X Nat : ss[1] < ss[2]}
    BY DEF OpToRel
  <1>2. IsWellFoundedOn(R, Nat)
    BY NatLessThanWellFounded
  <1> HIDE DEF R
  <1>3. PICK x \in S : \A y \in S : ~(<<y, x>> \in R)
    BY <1>2, WFMin
  <1>4. \A y \in S : ~(y < x)
    BY <1>1, <1>3
  <1> QED
    BY <1>4

\* Goroutines that construct singletons never wait for each other in a circle, nor one for itself,
\* when the wiring is orderly (getInstance).  In such a circle the bindings waited for would have a
\* lowest level, and who waits for one of that level waits for somebody who fills it, not for
\* somebody who takes its arguments, because that one waits for a lower one.
THEOREM NobodyWaitsInACircle == Spec => []NoWaitCycle
  <1>1. ASSUME ContInv, CallsInv PROVE NoWaitCycle
    <2> SUFFICES ASSUME NEW group \in (SUBSET Threads) \ {{}},
                        \A t \in group : \E u \in group : WaitsFor(t, u),
                        wiring \in Orderly
                 PROVE  FALSE
      BY DEF NoWaitCycle
    <2>1. /\ wiring \in Wiring /\ wiring.shared \subseteq Bindings
          /\ constructing \subseteq wiring.shared
      <3>1. \E t \in Threads : t \in group
        OBVIOUS
      <3> QED
        BY <1>1, <3>1, Parts
    <2>2. PICK level \in [Bindings -> 1 .. Cardinality(Bindings)] :
             \A b, c \in Bindings :
                /\ Needs(wiring, b, c, wiring.args) => level[c] < level[b]
                /\ Needs(wiring, b, c, wiring.fields) => level[c] <= level[b]
      BY DEF Orderly
    <2>3. level \in Levels(wiring)
      <3>1. Cardinality(Bindings) \in Nat
        BY BindingsAssumption, FS_CardinalityType
      <3>2. 1 .. Cardinality(Bindings) \subseteq Nat
        BY <3>1
      <3> QED
        BY <2>2, <3>2 DEF Levels
    <2>4. \A t \in group : /\ stack[t] # <<>> /\ Last(stack[t]).pc = "wait"
                           /\ B(t) \in wiring.shared
                           /\ Last(stack[t]) = stack[t][Len(stack[t])] /\ Len(stack[t]) \in Nat \ {0}
                           /\ stack[t] \in Seq(Frame)
      <3> SUFFICES ASSUME NEW t \in group
                   PROVE  /\ stack[t] # <<>> /\ Last(stack[t]).pc = "wait"
                          /\ B(t) \in wiring.shared
                          /\ Last(stack[t]) = stack[t][Len(stack[t])] /\ Len(stack[t]) \in Nat \ {0}
                          /\ stack[t] \in Seq(Frame)
        OBVIOUS
      <3>1. PICK u \in group : WaitsFor(t, u)
        OBVIOUS
      <3>2. stack[t] # <<>> /\ Last(stack[t]).pc = "wait" /\ B(t) \in constructing
        BY <3>1 DEF WaitsFor, Waiting, At
      <3> QED
        BY <1>1, <2>1, <3>2, Parts
    <2> DEFINE levels == {level[B(t)] : t \in group}
    <2>5. PICK low \in levels : \A l \in levels : low <= l
      <3>1. levels \in SUBSET Nat /\ levels # {}
        <4>1. \A t \in group : B(t) \in Bindings
          BY <2>1, <2>4
        <4>2. level \in [Bindings -> Nat]
          BY <2>3 DEF Levels
        <4>3. \A t \in group : level[B(t)] \in Nat
          BY <4>1, <4>2
        <4> QED
          BY <4>3
      <3> HIDE DEF levels
      <3> QED
        BY <3>1, Lowest
    <2> DEFINE lowest == {t \in group : level[B(t)] = low}
    <2>6. lowest \in (SUBSET Threads) \ {{}}
      BY <2>5
    <2>7. ASSUME NEW t \in lowest
          PROVE  \E u \in lowest : Ahead(t, u)
      <3>1. PICK u \in group : WaitsFor(t, u)
        OBVIOUS
      <3> DEFINE b == B(t)
                 k == Len(stack[u])
      <3>2. PICK m \in DOMAIN stack[u] : stack[u][m].b = b /\ stack[u][m].pc \in {"args", "fill", "fail"}
        BY <3>1 DEF WaitsFor, Waiting, Builds
      <3>3. /\ stack[u] \in Seq(Frame) /\ k \in Nat \ {0} /\ stack[u][k].pc = "wait"
            /\ stack[u][k].b = B(u) /\ B(u) \in wiring.shared /\ b \in wiring.shared
        BY <2>4 DEF B
      <3>4. m \in 1 .. k /\ m # k
        BY <3>2, <3>3
      <3>5. stack[u][m].pc \in {"args", "fill"}
        <4>1. StackOK(stack[u])
          BY <1>1 DEF ContInv
        <4> QED
          BY <3>3, <3>4, <4>1 DEF StackOK
      <3>6. /\ B(u) \in Reaches(wiring, stack[u][k].key)
            /\ \A c \in Reaches(wiring, stack[u][k].key) :
                  /\ level[c] <= level[stack[u][m].b]
                  /\ stack[u][m].pc = "args" => level[c] < level[stack[u][m].b]
        <4>1. Descends(wiring, stack[u])
          BY <1>1 DEF CallsInv
        <4>2. m \in 1 .. k - 1 /\ k \in 1 .. k
          BY <3>3, <3>4
        <4> QED
          BY <2>3, <3>3, <4>1, <4>2 DEF Descends
      <3>7. /\ level[B(u)] <= level[b] /\ (stack[u][m].pc = "args" => level[B(u)] < level[b])
        BY <3>2, <3>6
      <3>8. level[B(u)] \in Nat /\ level[b] \in Nat /\ level[b] = low /\ low <= level[B(u)]
        BY <2>1, <2>3, <2>5, <3>3 DEF Levels
      <3>9. level[B(u)] = low /\ stack[u][m].pc = "fill"
        BY <3>5, <3>7, <3>8
      <3>10. u \in lowest
        BY <3>9
      <3>11. Seeks(stack[t], b)
        BY <2>4 DEF Seeks, B
      <3>12. FillsIn(stack[u], m, b) /\ m \in Nat
        BY <3>2, <3>4, <3>9 DEF FillsIn
      <3> QED
        BY <3>3, <3>10, <3>11, <3>12 DEF Ahead
    <2> HIDE DEF lowest
    <2> QED
      BY <1>1, <2>6, <2>7 DEF CallsInv
  <1> QED
    BY <1>1, ContainerInvariant, CallsHold, PTL
=============================================================================
