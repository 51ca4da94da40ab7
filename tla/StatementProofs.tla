-------------------------- MODULE StatementProofs ---------------------------
(***************************************************************************)
(* Proofs about the statements the guards are asked about: how a text is   *)
(* split into tokens, and what is refused of the tokens.                   *)
(*                                                                         *)
(* The scan of a text jumps from a unit to the end of what it opens, while *)
(* a server reads one unit after the other. ScanRight says that wherever   *)
(* the scan stands the server has just come out of what it skipped         *)
(* (Ready), with as many conditional comments entered, and that no word    *)
(* the server runs is behind it and not found.                             *)
(*                                                                         *)
(* What a query says is found where it is written: a text stands in        *)
(* another (Stands), and each part of a query stands in its tokens         *)
(* (HarmSeen). What writes behind a verb is seen wherever it stands; what  *)
(* is left to find is a DELETE as a verb, which the refusal of a WITH list *)
(* reaches from one common table expression to the next (CteRefused, from  *)
(* the last one up). What only reads has no word that is refused (Quiet).  *)
(*                                                                         *)
(* A batch is laid out statement by statement (Laid). A stretch of it is   *)
(* refused where one of its places is (Refused), each kind of statement is *)
(* refused in its own stretch exactly when it changes the schema (Sound),  *)
(* and no place looks further than its own statement: so what follows what *)
(* makes no difference (TsqlVerdict for statements in a row, ApartVerdict  *)
(* for those with a ";" between).                                          *)
(***************************************************************************)
EXTENDS SqlScan, SqlPolicy, FiniteSetTheorems, WellFoundedInduction, TLAPS

-----------------------------------------------------------------------------
(* The scan of a text. Numbers first, for what is defined by recursion.     *)

\* A set of numbers that has 0 and, with each number below n, the next one has all of them.
LEMMA ScanUp ==
    ASSUME NEW n \in Nat, NEW S, 0 \in S, \A k \in 1..n : k - 1 \in S => k \in S
    PROVE  0..n \subseteq S
  <1> DEFINE T == 0..n \ S
  <1> SUFFICES ASSUME T # {} PROVE FALSE
    OBVIOUS
  <1>1. T \in SUBSET Nat
    OBVIOUS
  <1> HIDE DEF T
  <1>2. PICK i \in T : \A j \in T : ~(<<j, i>> \in OpToRel(<, Nat))
    BY <1>1, NatLessThanWellFounded, WFMin
  <1>3. \A j \in T : ~(j < i)
    BY <1>1, <1>2 DEF OpToRel
  <1>4. i \in 0..n /\ i \notin S
    BY DEF T
  <1>5. i \in 1..n /\ i - 1 \in 0..n /\ i - 1 < i
    BY <1>4
  <1>6. i - 1 \in S
    BY <1>3, <1>5 DEF T
  <1> QED BY <1>4, <1>5, <1>6

\* The same from the top.
LEMMA ScanDown ==
    ASSUME NEW n \in Nat, NEW S, n \in S, \A k \in 0..n - 1 : k + 1 \in S => k \in S
    PROVE  0..n \subseteq S
  <1> DEFINE T == {k \in 0..n : n - k \in S}
  <1>1. 0 \in T
    OBVIOUS
  <1>2. \A k \in 1..n : k - 1 \in T => k \in T
    <2> SUFFICES ASSUME NEW k \in 1..n, n - (k - 1) \in S PROVE n - k \in S
      OBVIOUS
    <2>1. n - k \in 0..n - 1 /\ (n - k) + 1 = n - (k - 1)
      OBVIOUS
    <2> QED BY <2>1
  <1>3. 0..n \subseteq T
    <2> HIDE DEF T
    <2> QED BY <1>1, <1>2, ScanUp
  <1>4. ASSUME NEW k \in 0..n PROVE k \in S
    <2>1. n - k \in 0..n /\ n - (n - k) = k
      OBVIOUS
    <2>2. n - k \in T
      BY <1>3, <2>1
    <2> QED BY <2>1, <2>2
  <1> QED BY <1>4

---------------------------------------------------------------------------
(* What the recursive functions satisfy.                                   *)

\* The server's states are what it makes of each unit in turn.
LEMMA ServerSteps ==
    ASSUME NEW t \in Seq(STRING), NEW lex, NEW b
    PROVE  Server(t, lex, b) = [n \in 0..Len(t) |-> IF n = 0 THEN Code ELSE Reads(Server(t, lex, b)[n - 1], t[n], lex, b)]
  <1> DEFINE N == Len(t)
             P == {k \in 0..N : \E f : f = [n \in 0..k |-> IF n = 0 THEN Code ELSE Reads(f[n - 1], t[n], lex, b)]}
  <1>1. N \in Nat
    OBVIOUS
  <1>2. 0 \in P
    <2> DEFINE f == [n \in 0..0 |-> Code]
    <2>1. f = [n \in 0..0 |-> IF n = 0 THEN Code ELSE Reads(f[n - 1], t[n], lex, b)]
      OBVIOUS
    <2> HIDE DEF f
    <2>2. \E h : h = [n \in 0..0 |-> IF n = 0 THEN Code ELSE Reads(h[n - 1], t[n], lex, b)]
      BY <2>1
    <2> QED BY <1>1, <2>2
  <1>3. ASSUME NEW k \in 1..N, k - 1 \in P PROVE k \in P
    <2>1. PICK g : g = [n \in 0..k - 1 |-> IF n = 0 THEN Code ELSE Reads(g[n - 1], t[n], lex, b)]
      BY <1>3
    <2> DEFINE f == [n \in 0..k |-> IF n = k THEN IF n = 0 THEN Code ELSE Reads(g[n - 1], t[n], lex, b) ELSE g[n]]
    <2>2. \A n \in 0..k : f[n] = IF n = 0 THEN Code ELSE Reads(f[n - 1], t[n], lex, b)
      <3> SUFFICES ASSUME NEW n \in 0..k PROVE f[n] = IF n = 0 THEN Code ELSE Reads(f[n - 1], t[n], lex, b)
        OBVIOUS
      <3>1. CASE n = 0
        BY <2>1, <3>1
      <3>2. CASE ~(n = 0)
        <4>1. n - 1 \in 0..k - 1 /\ n - 1 # k
          BY <3>2
        <4>2. f[n - 1] = g[n - 1]
          BY <4>1
        <4>3. n # k => g[n] = Reads(g[n - 1], t[n], lex, b)
          BY <2>1, <3>2
        <4> QED BY <3>2, <4>2, <4>3
      <3> QED BY <3>1, <3>2
    <2>3. f = [n \in 0..k |-> IF n = 0 THEN Code ELSE Reads(f[n - 1], t[n], lex, b)]
      <3> HIDE DEF f
      <3>1. DOMAIN f = 0..k /\ f = [n \in 0..k |-> f[n]]
        BY DEF f
      <3> QED BY <2>2, <3>1
    <2> HIDE DEF f
    <2>4. \E h : h = [n \in 0..k |-> IF n = 0 THEN Code ELSE Reads(h[n - 1], t[n], lex, b)]
      BY <2>3
    <2> QED BY <1>3, <2>4
  <1>4. N \in P
    <2> HIDE DEF P, N
    <2>1. \A k \in 1..N : k - 1 \in P => k \in P
      BY <1>3
    <2>2. 0..N \subseteq P
      BY <1>1, <1>2, <2>1, ScanUp
    <2> QED BY <1>1, <2>2
  <1> QED BY <1>4 DEF Server

\* So is the number of /*! it has entered.
LEMMA EnteredSteps ==
    ASSUME NEW t \in Seq(STRING), NEW lex, NEW b
    PROVE  Entered(t, lex, b) = [n \in 0..Len(t) |-> IF n = 0 THEN 0 ELSE Enters(Server(t, lex, b)[n - 1], t[n], lex, Entered(t, lex, b)[n - 1])]
  <1> DEFINE N == Len(t)
             P == {k \in 0..N : \E f : f = [n \in 0..k |-> IF n = 0 THEN 0 ELSE Enters(Server(t, lex, b)[n - 1], t[n], lex, f[n - 1])]}
  <1>1. N \in Nat
    OBVIOUS
  <1>2. 0 \in P
    <2> DEFINE f == [n \in 0..0 |-> 0]
    <2>1. f = [n \in 0..0 |-> IF n = 0 THEN 0 ELSE Enters(Server(t, lex, b)[n - 1], t[n], lex, f[n - 1])]
      OBVIOUS
    <2> HIDE DEF f
    <2>2. \E h : h = [n \in 0..0 |-> IF n = 0 THEN 0 ELSE Enters(Server(t, lex, b)[n - 1], t[n], lex, h[n - 1])]
      BY <2>1
    <2> QED BY <1>1, <2>2
  <1>3. ASSUME NEW k \in 1..N, k - 1 \in P PROVE k \in P
    <2>1. PICK g : g = [n \in 0..k - 1 |-> IF n = 0 THEN 0 ELSE Enters(Server(t, lex, b)[n - 1], t[n], lex, g[n - 1])]
      BY <1>3
    <2> DEFINE f == [n \in 0..k |-> IF n = k THEN IF n = 0 THEN 0 ELSE Enters(Server(t, lex, b)[n - 1], t[n], lex, g[n - 1]) ELSE g[n]]
    <2>2. \A n \in 0..k : f[n] = IF n = 0 THEN 0 ELSE Enters(Server(t, lex, b)[n - 1], t[n], lex, f[n - 1])
      <3> SUFFICES ASSUME NEW n \in 0..k PROVE f[n] = IF n = 0 THEN 0 ELSE Enters(Server(t, lex, b)[n - 1], t[n], lex, f[n - 1])
        OBVIOUS
      <3>1. CASE n = 0
        BY <2>1, <3>1
      <3>2. CASE ~(n = 0)
        <4>1. n - 1 \in 0..k - 1 /\ n - 1 # k
          BY <3>2
        <4>2. f[n - 1] = g[n - 1]
          BY <4>1
        <4>3. n # k => g[n] = Enters(Server(t, lex, b)[n - 1], t[n], lex, g[n - 1])
          BY <2>1, <3>2
        <4> QED BY <3>2, <4>2, <4>3
      <3> QED BY <3>1, <3>2
    <2>3. f = [n \in 0..k |-> IF n = 0 THEN 0 ELSE Enters(Server(t, lex, b)[n - 1], t[n], lex, f[n - 1])]
      <3> HIDE DEF f
      <3>1. DOMAIN f = 0..k /\ f = [n \in 0..k |-> f[n]]
        BY DEF f
      <3> QED BY <2>2, <3>1
    <2> HIDE DEF f
    <2>4. \E h : h = [n \in 0..k |-> IF n = 0 THEN 0 ELSE Enters(Server(t, lex, b)[n - 1], t[n], lex, h[n - 1])]
      BY <2>3
    <2> QED BY <1>3, <2>4
  <1>4. N \in P
    <2> HIDE DEF P, N
    <2>1. \A k \in 1..N : k - 1 \in P => k \in P
      BY <1>3
    <2>2. 0..N \subseteq P
      BY <1>1, <1>2, <2>1, ScanUp
    <2> QED BY <1>1, <2>2
  <1> QED BY <1>4 DEF Entered

\* The scan goes from unit to unit.
LEMMA ScansSteps ==
    ASSUME NEW t \in Seq(STRING), NEW lex, NEW b
    PROVE  Scans(t, lex, b) = [n \in 0..Len(t) |-> IF n = 0 THEN Begun ELSE Scanned(t, Scans(t, lex, b)[n - 1], lex, b)]
  <1> DEFINE N == Len(t)
             P == {k \in 0..N : \E f : f = [n \in 0..k |-> IF n = 0 THEN Begun ELSE Scanned(t, f[n - 1], lex, b)]}
  <1>1. N \in Nat
    OBVIOUS
  <1>2. 0 \in P
    <2> DEFINE f == [n \in 0..0 |-> Begun]
    <2>1. f = [n \in 0..0 |-> IF n = 0 THEN Begun ELSE Scanned(t, f[n - 1], lex, b)]
      OBVIOUS
    <2> HIDE DEF f
    <2>2. \E h : h = [n \in 0..0 |-> IF n = 0 THEN Begun ELSE Scanned(t, h[n - 1], lex, b)]
      BY <2>1
    <2> QED BY <1>1, <2>2
  <1>3. ASSUME NEW k \in 1..N, k - 1 \in P PROVE k \in P
    <2>1. PICK g : g = [n \in 0..k - 1 |-> IF n = 0 THEN Begun ELSE Scanned(t, g[n - 1], lex, b)]
      BY <1>3
    <2> DEFINE f == [n \in 0..k |-> IF n = k THEN IF n = 0 THEN Begun ELSE Scanned(t, g[n - 1], lex, b) ELSE g[n]]
    <2>2. \A n \in 0..k : f[n] = IF n = 0 THEN Begun ELSE Scanned(t, f[n - 1], lex, b)
      <3> SUFFICES ASSUME NEW n \in 0..k PROVE f[n] = IF n = 0 THEN Begun ELSE Scanned(t, f[n - 1], lex, b)
        OBVIOUS
      <3>1. CASE n = 0
        BY <2>1, <3>1
      <3>2. CASE ~(n = 0)
        <4>1. n - 1 \in 0..k - 1 /\ n - 1 # k
          BY <3>2
        <4>2. f[n - 1] = g[n - 1]
          BY <4>1
        <4>3. n # k => g[n] = Scanned(t, g[n - 1], lex, b)
          BY <2>1, <3>2
        <4> QED BY <3>2, <4>2, <4>3
      <3> QED BY <3>1, <3>2
    <2>3. f = [n \in 0..k |-> IF n = 0 THEN Begun ELSE Scanned(t, f[n - 1], lex, b)]
      <3> HIDE DEF f
      <3>1. DOMAIN f = 0..k /\ f = [n \in 0..k |-> f[n]]
        BY DEF f
      <3> QED BY <2>2, <3>1
    <2> HIDE DEF f
    <2>4. \E h : h = [n \in 0..k |-> IF n = 0 THEN Begun ELSE Scanned(t, h[n - 1], lex, b)]
      BY <2>3
    <2> QED BY <1>3, <2>4
  <1>4. N \in P
    <2> HIDE DEF P, N
    <2>1. \A k \in 1..N : k - 1 \in P => k \in P
      BY <1>3
    <2>2. 0..N \subseteq P
      BY <1>1, <1>2, <2>1, ScanUp
    <2> QED BY <1>1, <2>2
  <1> QED BY <1>4 DEF Scans

\* Where a literal ends is where its rest ends.
LEMMA ClosesSteps ==
    ASSUME NEW t \in Seq(STRING), NEW q, NEW escapes
    PROVE  ClosesAt(t, q, escapes) =
               [j \in 1..Len(t) + 2 |->
               IF j > Len(t) THEN 0
               ELSE IF t[j] \in escapes \/ (t[j] = q /\ At(t, j + 1) = q) THEN ClosesAt(t, q, escapes)[j + 2]
               ELSE IF t[j] = q THEN j + 1 ELSE ClosesAt(t, q, escapes)[j + 1]]
  <1> DEFINE N == Len(t)
             P == {k \in 0..N + 1 : \E f : f = [j \in k + 1..N + 2 |->
               IF j > Len(t) THEN 0
               ELSE IF t[j] \in escapes \/ (t[j] = q /\ At(t, j + 1) = q) THEN f[j + 2]
               ELSE IF t[j] = q THEN j + 1 ELSE f[j + 1]]}
  <1>1. N \in Nat
    OBVIOUS
  <1>2. N + 1 \in P
    <2> DEFINE f == [j \in (N + 1) + 1..N + 2 |-> 0]
    <2>1. f = [j \in (N + 1) + 1..N + 2 |->
               IF j > Len(t) THEN 0
               ELSE IF t[j] \in escapes \/ (t[j] = q /\ At(t, j + 1) = q) THEN f[j + 2]
               ELSE IF t[j] = q THEN j + 1 ELSE f[j + 1]]
      BY <1>1
    <2> HIDE DEF f
    <2>2. \E h : h = [j \in (N + 1) + 1..N + 2 |->
               IF j > Len(t) THEN 0
               ELSE IF t[j] \in escapes \/ (t[j] = q /\ At(t, j + 1) = q) THEN h[j + 2]
               ELSE IF t[j] = q THEN j + 1 ELSE h[j + 1]]
      BY <2>1
    <2> QED BY <1>1, <2>2
  <1>3. ASSUME NEW k \in 0..(N + 1) - 1, k + 1 \in P PROVE k \in P
    <2>1. PICK g : g = [j \in (k + 1) + 1..N + 2 |->
               IF j > Len(t) THEN 0
               ELSE IF t[j] \in escapes \/ (t[j] = q /\ At(t, j + 1) = q) THEN g[j + 2]
               ELSE IF t[j] = q THEN j + 1 ELSE g[j + 1]]
      BY <1>3
    <2> DEFINE f == [j \in k + 1..N + 2 |-> IF j = k + 1 THEN
               IF j > Len(t) THEN 0
               ELSE IF t[j] \in escapes \/ (t[j] = q /\ At(t, j + 1) = q) THEN g[j + 2]
               ELSE IF t[j] = q THEN j + 1 ELSE g[j + 1] ELSE g[j]]
    <2>2. ASSUME NEW j \in k + 1..N + 2
          PROVE  f[j] =
               IF j > Len(t) THEN 0
               ELSE IF t[j] \in escapes \/ (t[j] = q /\ At(t, j + 1) = q) THEN f[j + 2]
               ELSE IF t[j] = q THEN j + 1 ELSE f[j + 1]
      <3>1. CASE j > N
        BY <1>1, <2>1, <3>1
      <3>2. CASE ~(j > N)
        <4>1. /\ j + 1 \in k + 1..N + 2 /\ j + 1 # k + 1 /\ j + 2 \in k + 1..N + 2 /\ j + 2 # k + 1
          BY <1>1, <3>2
        <4>2. f[j + 1] = g[j + 1] /\ f[j + 2] = g[j + 2]
          BY <4>1
        <4>3. j # k + 1 => j \in (k + 1) + 1..N + 2
          BY <1>1
        <4>4. j # k + 1 => g[j] =
               IF j > Len(t) THEN 0
               ELSE IF t[j] \in escapes \/ (t[j] = q /\ At(t, j + 1) = q) THEN g[j + 2]
               ELSE IF t[j] = q THEN j + 1 ELSE g[j + 1]
          BY <2>1, <4>3
        <4>5. f[j] =
               IF j > Len(t) THEN 0
               ELSE IF t[j] \in escapes \/ (t[j] = q /\ At(t, j + 1) = q) THEN g[j + 2]
               ELSE IF t[j] = q THEN j + 1 ELSE g[j + 1]
          BY <4>4
        <4> HIDE DEF f
        <4> QED BY <4>2, <4>5
      <3> QED BY <3>1, <3>2
    <2>3. f = [j \in k + 1..N + 2 |->
               IF j > Len(t) THEN 0
               ELSE IF t[j] \in escapes \/ (t[j] = q /\ At(t, j + 1) = q) THEN f[j + 2]
               ELSE IF t[j] = q THEN j + 1 ELSE f[j + 1]]
      <3> HIDE DEF f
      <3>1. DOMAIN f = k + 1..N + 2 /\ f = [j \in k + 1..N + 2 |-> f[j]]
        BY DEF f
      <3> QED BY <2>2, <3>1
    <2> HIDE DEF f
    <2>4. \E h : h = [j \in k + 1..N + 2 |->
               IF j > Len(t) THEN 0
               ELSE IF t[j] \in escapes \/ (t[j] = q /\ At(t, j + 1) = q) THEN h[j + 2]
               ELSE IF t[j] = q THEN j + 1 ELSE h[j + 1]]
      BY <2>3
    <2> QED BY <1>3, <2>4
  <1>4. 0 \in P
    <2> HIDE DEF P, N
    <2>1. \A k \in 0..(N + 1) - 1 : k + 1 \in P => k \in P
      BY <1>3
    <2>2. 0..N + 1 \subseteq P
      BY <1>1, <1>2, <2>1, ScanDown
    <2> QED BY <1>1, <2>2
  <1>5. PICK f : f = [j \in 0 + 1..N + 2 |->
               IF j > Len(t) THEN 0
               ELSE IF t[j] \in escapes \/ (t[j] = q /\ At(t, j + 1) = q) THEN f[j + 2]
               ELSE IF t[j] = q THEN j + 1 ELSE f[j + 1]]
    BY <1>4
  <1>6. f = [j \in 1..N + 2 |->
               IF j > Len(t) THEN 0
               ELSE IF t[j] \in escapes \/ (t[j] = q /\ At(t, j + 1) = q) THEN f[j + 2]
               ELSE IF t[j] = q THEN j + 1 ELSE f[j + 1]]
    <2>1. 0 + 1..N + 2 = 1..N + 2
      OBVIOUS
    <2> HIDE DEF N
    <2> QED BY <1>5, <2>1
  <1> QED BY <1>6 DEF ClosesAt

\* And how deep a comment is.
LEMMA DepthsSteps ==
    ASSUME NEW t \in Seq(STRING), NEW i \in Nat, NEW nested
    PROVE  Depths(t, i, nested) = [n \in 0..Len(t) |-> IF n <= i THEN 1 ELSE Deepen(t[n], Depths(t, i, nested)[n - 1], nested)]
  <1> DEFINE N == Len(t)
             P == {k \in 0..N : \E f : f = [n \in 0..k |-> IF n <= i THEN 1 ELSE Deepen(t[n], f[n - 1], nested)]}
  <1>1. N \in Nat
    OBVIOUS
  <1>2. 0 \in P
    <2> DEFINE f == [n \in 0..0 |-> 1]
    <2>1. f = [n \in 0..0 |-> IF n <= i THEN 1 ELSE Deepen(t[n], f[n - 1], nested)]
      OBVIOUS
    <2> HIDE DEF f
    <2>2. \E h : h = [n \in 0..0 |-> IF n <= i THEN 1 ELSE Deepen(t[n], h[n - 1], nested)]
      BY <2>1
    <2> QED BY <1>1, <2>2
  <1>3. ASSUME NEW k \in 1..N, k - 1 \in P PROVE k \in P
    <2>1. PICK g : g = [n \in 0..k - 1 |-> IF n <= i THEN 1 ELSE Deepen(t[n], g[n - 1], nested)]
      BY <1>3
    <2> DEFINE f == [n \in 0..k |-> IF n = k THEN IF n <= i THEN 1 ELSE Deepen(t[n], g[n - 1], nested) ELSE g[n]]
    <2>2. \A n \in 0..k : f[n] = IF n <= i THEN 1 ELSE Deepen(t[n], f[n - 1], nested)
      <3> SUFFICES ASSUME NEW n \in 0..k PROVE f[n] = IF n <= i THEN 1 ELSE Deepen(t[n], f[n - 1], nested)
        OBVIOUS
      <3>1. CASE n <= i
        BY <2>1, <3>1
      <3>2. CASE ~(n <= i)
        <4>1. n - 1 \in 0..k - 1 /\ n - 1 # k
          BY <3>2
        <4>2. f[n - 1] = g[n - 1]
          BY <4>1
        <4>3. n # k => g[n] = Deepen(t[n], g[n - 1], nested)
          BY <2>1, <3>2
        <4> QED BY <3>2, <4>2, <4>3
      <3> QED BY <3>1, <3>2
    <2>3. f = [n \in 0..k |-> IF n <= i THEN 1 ELSE Deepen(t[n], f[n - 1], nested)]
      <3> HIDE DEF f
      <3>1. DOMAIN f = 0..k /\ f = [n \in 0..k |-> f[n]]
        BY DEF f
      <3> QED BY <2>2, <3>1
    <2> HIDE DEF f
    <2>4. \E h : h = [n \in 0..k |-> IF n <= i THEN 1 ELSE Deepen(t[n], h[n - 1], nested)]
      BY <2>3
    <2> QED BY <1>3, <2>4
  <1>4. N \in P
    <2> HIDE DEF P, N
    <2>1. \A k \in 1..N : k - 1 \in P => k \in P
      BY <1>3
    <2>2. 0..N \subseteq P
      BY <1>1, <1>2, <2>1, ScanUp
    <2> QED BY <1>1, <2>2
  <1> QED BY <1>4 DEF Depths
---------------------------------------------------------------------------
(* The server, unit by unit.                                                *)

Modes == {"code", "closed", "line", "comment", "dollar", "quoted", "escaped"}
Quotes == {"quote", "dquote", "tick", "bracket]"}
Shaped(m) == /\ m = [in |-> m.in, q |-> m.q, esc |-> m.esc, depth |-> m.depth, was |-> m.was]
             /\ m.in \in Modes

\* A server is always somewhere.
LEMMA OpensState ==
    ASSUME NEW m, NEW c, NEW lex, NEW b
    PROVE  Shaped(Opens(m, c, lex, b)) /\ Shaped(Code)
  <1>1. Opens(m, c, lex, b).in \in Modes /\ Code.in \in Modes
    BY DEF Opens, Code, Modes
  <1> QED BY <1>1 DEF Shaped, Opens, Code

\* After any unit as well.
LEMMA ReadsState ==
    ASSUME NEW m, Shaped(m), NEW c, NEW lex, NEW b
    PROVE  Shaped(Reads(m, c, lex, b))
  <1>1. \A n : Shaped(Opens(n, c, lex, b)) /\ Shaped(Code)
    BY OpensState
  <1>2. \A in \in Modes : Shaped([m EXCEPT !.in = in])
    BY DEF Shaped
  <1>3. Shaped([m EXCEPT !.depth = Deepen(c, @, "nested" \in lex)])
    BY DEF Shaped
  <1>4. m.in \in Modes
    BY DEF Shaped
  <1> HIDE DEF Shaped
  <1> QED BY <1>1, <1>2, <1>3, <1>4 DEF Reads, Modes

\* One unit after the other.
LEMMA ServerNext ==
    ASSUME NEW t \in Seq(STRING), NEW lex, NEW b
    PROVE  \A j \in 1..Len(t) : Server(t, lex, b)[j] = Reads(Server(t, lex, b)[j - 1], t[j], lex, b)
  BY ServerSteps

\* At every place of a text.
LEMMA ServerState ==
    ASSUME NEW t \in Seq(STRING), NEW lex, NEW b
    PROVE  \A n \in 0..Len(t) : Shaped(Server(t, lex, b)[n])
  <1> DEFINE M == Server(t, lex, b)
             P == {n \in 0..Len(t) : Shaped(M[n])}
  <1>1. M = [n \in 0..Len(t) |-> IF n = 0 THEN Code ELSE Reads(M[n - 1], t[n], lex, b)]
    BY ServerSteps
  <1> HIDE DEF M
  <1>2. 0 \in P
    BY <1>1, OpensState
  <1>3. ASSUME NEW n \in 1..Len(t), n - 1 \in P PROVE n \in P
    <2>1. M[n] = Reads(M[n - 1], t[n], lex, b)
      BY <1>1
    <2> QED BY <1>3, <2>1, ReadsState
  <1>4. 0..Len(t) \subseteq P
    <2> HIDE DEF P
    <2>1. \A n \in 1..Len(t) : n - 1 \in P => n \in P
      BY <1>3
    <2>2. Len(t) \in Nat
      OBVIOUS
    <2> QED BY <1>2, <2>1, <2>2, ScanUp
  <1> QED BY <1>4 DEF M

\* What it makes of a unit, where it is inside something.
LEMMA ReadsInside ==
    ASSUME NEW m, Shaped(m), NEW c, NEW lex, NEW b
    PROVE  /\ m.in = "quoted" => /\ Reads(m, c, lex, b).q = m.q /\ Reads(m, c, lex, b).esc = m.esc
                                 /\ Reads(m, c, lex, b).in = IF c \in m.esc THEN "escaped" ELSE IF c = m.q THEN "closed" ELSE "quoted"
           /\ m.in = "escaped" => Reads(m, c, lex, b).q = m.q /\ Reads(m, c, lex, b).esc = m.esc /\ Reads(m, c, lex, b).in = "quoted"
           /\ m.in = "closed" => IF c = m.q THEN Reads(m, c, lex, b).q = m.q /\ Reads(m, c, lex, b).esc = m.esc /\ Reads(m, c, lex, b).in = "quoted"
                                 ELSE Reads(m, c, lex, b) = Opens(Code, c, lex, b)
           /\ m.in = "line" => IF c = "newline" THEN Reads(m, c, lex, b) = Code ELSE Reads(m, c, lex, b).in = "line"
           /\ m.in = "dollar" => IF c = "dollars" THEN Reads(m, c, lex, b) = Code ELSE Reads(m, c, lex, b).in = "dollar"
           /\ m.in = "comment" => IF c = "close" /\ m.depth = 1 THEN Reads(m, c, lex, b) = Code
                                  ELSE Reads(m, c, lex, b).in = "comment" /\ Reads(m, c, lex, b).depth = Deepen(c, m.depth, "nested" \in lex)
           /\ m.in = "code" => Reads(m, c, lex, b) = Opens(m, c, lex, b)
  <1> HIDE DEF Deepen, Code
  <1> QED BY DEF Reads, Shaped

---------------------------------------------------------------------------
(* What a unit opens ends where the server sees it end.                     *)

\* Places the server passes over, whatever stands there.
Skipped(t, M) == {j \in DOMAIN t : M[j - 1].in \in InCode => t[j] \notin {"word", "exec", "close"}}

\* From k on, where a literal goes on.
LiteralEnds(t, M, q, e, k) ==
    LET p == ClosesAt(t, q, e)[k]
    IN  k \in 1..Len(t) + 1 /\ M[k - 1].in = "quoted" /\ M[k - 1].q = q /\ M[k - 1].esc = e
        => IF p = 0 THEN k..Len(t) \subseteq Skipped(t, M) /\ M[Len(t)].in \in {"quoted", "escaped"}
           ELSE /\ p \in k + 1..Len(t) + 1 /\ k..p - 1 \subseteq Skipped(t, M)
                /\ M[p - 1].in = "closed" /\ M[p - 1].q = q /\ At(t, p) # q

\* A literal that ends right from the next two places does so from here: a doubled quote and what a
\* backslash escapes take two.
LEMMA LiteralGoesOn ==
    ASSUME NEW t \in Seq(STRING), NEW lex, NEW b, NEW q \in Quotes, NEW e, NEW k \in 1..Len(t) + 1,
           LiteralEnds(t, Server(t, lex, b), q, e, k + 1), k < Len(t) + 1 => LiteralEnds(t, Server(t, lex, b), q, e, k + 2)
    PROVE  LiteralEnds(t, Server(t, lex, b), q, e, k)
  <1> DEFINE M == Server(t, lex, b)
             p == ClosesAt(t, q, e)[k]
             Past == ClosesAt(t, q, e)
  <1> SUFFICES ASSUME M[k - 1].in = "quoted", M[k - 1].q = q, M[k - 1].esc = e
               PROVE  IF p = 0 THEN k..Len(t) \subseteq Skipped(t, M) /\ M[Len(t)].in \in {"quoted", "escaped"}
                      ELSE /\ p \in k + 1..Len(t) + 1 /\ k..p - 1 \subseteq Skipped(t, M)
                           /\ M[p - 1].in = "closed" /\ M[p - 1].q = q /\ At(t, p) # q
    BY DEF LiteralEnds
  <1>1. \A j \in 1..Len(t) : M[j] = Reads(M[j - 1], t[j], lex, b)
    BY ServerSteps
  <1>2. \A j \in 0..Len(t) : Shaped(M[j])
    BY ServerState
  <1>3. Past[k] = IF k > Len(t) THEN 0
                  ELSE IF t[k] \in e \/ (t[k] = q /\ At(t, k + 1) = q) THEN Past[k + 2]
                  ELSE IF t[k] = q THEN k + 1 ELSE Past[k + 1]
    BY ClosesSteps
  <1>4. "quoted" \notin InCode /\ "escaped" \notin InCode
    BY DEF InCode
  <1> HIDE DEF M
  <1>5. CASE k = Len(t) + 1
    <2>1. p = 0 /\ M[Len(t)].in = "quoted"
      BY <1>3, <1>5
    <2>2. k..Len(t) = {}
      BY <1>5
    <2> QED BY <2>1, <2>2
  <1>6. CASE k \in 1..Len(t)
    <2>1. /\ M[k] = Reads(M[k - 1], t[k], lex, b) /\ Shaped(M[k - 1])
          /\ k \in Skipped(t, M)
      BY <1>1, <1>2, <1>4, <1>6 DEF Skipped
    <2>2. /\ M[k].q = q /\ M[k].esc = e
          /\ M[k].in = IF t[k] \in e THEN "escaped" ELSE IF t[k] = q THEN "closed" ELSE "quoted"
      BY <2>1, ReadsInside
    <2>3. CASE t[k] \notin e /\ t[k] # q
      <3>1. p = Past[k + 1] /\ M[k].in = "quoted"
        BY <1>3, <1>6, <2>2, <2>3
      <3>2. k + 1 \in 1..Len(t) + 1 /\ (k + 1) - 1 = k
        BY <1>6
      <3>3. IF p = 0 THEN k + 1..Len(t) \subseteq Skipped(t, M) /\ M[Len(t)].in \in {"quoted", "escaped"}
            ELSE /\ p \in (k + 1) + 1..Len(t) + 1 /\ k + 1..p - 1 \subseteq Skipped(t, M)
                 /\ M[p - 1].in = "closed" /\ M[p - 1].q = q /\ At(t, p) # q
        BY <2>2, <3>1, <3>2 DEF LiteralEnds, M
      <3>4. \A n \in Int : k + 1..n \subseteq Skipped(t, M) => k..n \subseteq Skipped(t, M)
        <4>1. \A n \in Int : \A j \in k..n : j = k \/ j \in k + 1..n
          OBVIOUS
        <4> QED BY <2>1, <4>1
      <3> HIDE DEF p
      <3>5. CASE p = 0
        BY <3>3, <3>4, <3>5
      <3>6. CASE p # 0
        <4>1. p \in k + 1..Len(t) + 1 /\ p - 1 \in Int
          BY <3>3, <3>6
        <4> QED BY <3>3, <3>4, <3>6, <4>1
      <3> QED BY <3>5, <3>6
    <2>4. CASE t[k] \notin e /\ t[k] = q /\ At(t, k + 1) # q
      <3>1. p = k + 1 /\ M[k].in = "closed"
        BY <1>3, <1>6, <2>2, <2>4
      <3>2. k..p - 1 \subseteq Skipped(t, M)
        BY <2>1, <3>1
      <3> QED BY <1>6, <2>2, <2>4, <3>1, <3>2
    <2>5. CASE t[k] \in e \/ (t[k] = q /\ At(t, k + 1) = q)
      <3>1. p = Past[k + 2]
        BY <1>3, <1>6, <2>5
      <3>2. CASE k = Len(t)
        <4>1. q # "end" /\ At(t, k + 1) = "end"
          BY <3>2 DEF Quotes, At
        <4>2. t[k] \in e
          BY <2>5, <4>1
        <4>3. Past[k + 2] = 0
          BY <3>2, ClosesSteps
        <4>4. M[Len(t)].in = "escaped"
          BY <2>2, <3>2, <4>2
        <4>5. k..Len(t) \subseteq Skipped(t, M)
          BY <2>1, <3>2
        <4> QED BY <3>1, <4>3, <4>4, <4>5
      <3>3. CASE k \in 1..Len(t) - 1
        <4>1. k + 1 \in 1..Len(t) /\ (k + 1) - 1 = k /\ (k + 2) - 1 = k + 1 /\ k + 2 \in 1..Len(t) + 1
          BY <3>3
        <4>2. M[k + 1] = Reads(M[k], t[k + 1], lex, b) /\ Shaped(M[k])
          BY <1>1, <1>2, <4>1
        <4>3. M[k + 1].q = q /\ M[k + 1].esc = e /\ M[k + 1].in = "quoted" /\ k + 1 \in Skipped(t, M)
          <5>1. CASE t[k] \in e
            <6>1. M[k].in = "escaped"
              BY <2>2, <5>1
            <6>2. k + 1 \in Skipped(t, M)
              BY <1>4, <4>1, <6>1 DEF Skipped
            <6> QED BY <2>2, <4>2, <6>1, <6>2, ReadsInside
          <5>2. CASE t[k] \notin e /\ t[k] = q /\ At(t, k + 1) = q
            <6>1. M[k].in = "closed" /\ t[k + 1] = q
              BY <2>2, <4>1, <5>2 DEF At
            <6>2. k + 1 \in Skipped(t, M)
              BY <4>1, <6>1 DEF Skipped, Quotes
            <6> QED BY <2>2, <4>2, <6>1, <6>2, ReadsInside
          <5> QED BY <2>5, <5>1, <5>2
        <4>4. IF p = 0 THEN k + 2..Len(t) \subseteq Skipped(t, M) /\ M[Len(t)].in \in {"quoted", "escaped"}
              ELSE /\ p \in (k + 2) + 1..Len(t) + 1 /\ k + 2..p - 1 \subseteq Skipped(t, M)
                   /\ M[p - 1].in = "closed" /\ M[p - 1].q = q /\ At(t, p) # q
          BY <3>1, <4>1, <4>3 DEF LiteralEnds, M
        <4>5. \A n \in Int : k + 2..n \subseteq Skipped(t, M) => k..n \subseteq Skipped(t, M)
          <5>1. \A n \in Int : \A j \in k..n : j = k \/ j = k + 1 \/ j \in k + 2..n
            OBVIOUS
          <5> QED BY <2>1, <4>3, <5>1
        <4> HIDE DEF p
        <4>6. CASE p = 0
          BY <4>4, <4>5, <4>6
        <4>7. CASE p # 0
          <5>1. p \in k + 1..Len(t) + 1 /\ p - 1 \in Int
            BY <4>4, <4>7
          <5> QED BY <4>4, <4>5, <4>7, <5>1
        <4> QED BY <4>6, <4>7
      <3> QED BY <1>6, <3>2, <3>3
    <2> QED BY <2>3, <2>4, <2>5
  <1> QED BY <1>5, <1>6

\* So from every place.
LEMMA LiteralEndsRight ==
    ASSUME NEW t \in Seq(STRING), NEW lex, NEW b, NEW q \in Quotes, NEW e
    PROVE  \A k \in 1..Len(t) + 1 : LiteralEnds(t, Server(t, lex, b), q, e, k)
  <1> DEFINE N == Len(t)
             Right(k) == LiteralEnds(t, Server(t, lex, b), q, e, k)
             P == {k \in 0..N + 1 : k = 0 \/ (Right(k) /\ Right(k + 1))}
  <1>1. N \in Nat
    OBVIOUS
  <1>2. ASSUME NEW k \in 1..N + 1, Right(k + 1), k < N + 1 => Right(k + 2) PROVE Right(k)
    BY <1>2, LiteralGoesOn
  <1>3. Right((N + 1) + 1)
    <2>1. ~((N + 1) + 1 \in 1..Len(t) + 1)
      OBVIOUS
    <2> QED BY <2>1 DEF LiteralEnds
  <1> HIDE DEF Right
  <1>4. N + 1 \in P
    BY <1>1, <1>2, <1>3
  <1>5. \A k \in 0..(N + 1) - 1 : k + 1 \in P => k \in P
    <2> SUFFICES ASSUME NEW k \in 0..(N + 1) - 1, k + 1 \in P, k # 0 PROVE k \in P
      BY <1>1
    <2>1. Right(k + 1) /\ Right((k + 1) + 1)
      OBVIOUS
    <2>2. (k + 1) + 1 = k + 2 /\ k \in 1..N + 1 /\ k \in 0..N + 1
      BY <1>1
    <2>3. Right(k)
      BY <1>2, <2>1, <2>2
    <2> QED BY <2>1, <2>2, <2>3
  <1>6. 0..N + 1 \subseteq P
    <2> HIDE DEF P, N
    <2>1. N + 1 \in Nat
      BY <1>1
    <2> QED BY <1>4, <1>5, <2>1, ScanDown
  <1> QED BY <1>1, <1>6 DEF Right

\* The first of some places is one of them, and none of them is before it.
LEMMA FirstOfSome ==
    ASSUME NEW places \in SUBSET Nat, places # {}
    PROVE  FirstOf(places) \in places /\ \A k \in places : FirstOf(places) <= k
  <1>1. PICK i \in places : \A j \in places : ~(<<j, i>> \in OpToRel(<, Nat))
    BY NatLessThanWellFounded, WFMin
  <1>2. \A j \in places : ~(j < i)
    BY <1>1 DEF OpToRel
  <1>3. \A j \in places : i <= j
    BY <1>2
  <1> QED BY <1>3 DEF FirstOf

\* What holds from i on until one of some places holds up to the first of them.
LEMMA HoldsUntil ==
    ASSUME NEW i \in Nat, NEW n \in Nat, i <= n, NEW G, NEW places \in SUBSET (i + 1..n), i \in G,
           \A k \in i + 1..n : k - 1 \in G /\ k \notin places => k \in G
    PROVE  IF places = {} THEN i..n \subseteq G
           ELSE FirstOf(places) \in places /\ i..FirstOf(places) - 1 \subseteq G
  <1>1. ASSUME NEW last \in i..n, \A k \in i + 1..last : k \notin places PROVE i..last \subseteq G
    <2> DEFINE P == {k \in 0..last - i : i + k \in G}
    <2>1. last - i \in Nat
      OBVIOUS
    <2>2. 0 \in P
      OBVIOUS
    <2>3. \A k \in 1..last - i : k - 1 \in P => k \in P
      <3> SUFFICES ASSUME NEW k \in 1..last - i, k - 1 \in P PROVE k \in P
        OBVIOUS
      <3>1. i + k \in i + 1..n /\ i + k \in i + 1..last /\ (i + k) - 1 = i + (k - 1)
        OBVIOUS
      <3>2. i + k \in G
        BY <1>1, <3>1
      <3> QED BY <3>2
    <2>4. 0..last - i \subseteq P
      <3> HIDE DEF P
      <3> QED BY <2>1, <2>2, <2>3, ScanUp
    <2>5. \A k \in i..last : k - i \in 0..last - i /\ i + (k - i) = k
      OBVIOUS
    <2> QED BY <2>4, <2>5
  <1>2. CASE places = {}
    BY <1>1, <1>2
  <1>3. CASE places # {}
    <2>1. places \in SUBSET Nat
      OBVIOUS
    <2>2. FirstOf(places) \in places /\ \A k \in places : FirstOf(places) <= k
      BY <1>3, <2>1, FirstOfSome
    <2> DEFINE f == FirstOf(places)
    <2>3. f \in i + 1..n
      BY <2>2
    <2>4. \A k \in places : ~(k < f)
      <3> SUFFICES ASSUME NEW k \in places PROVE ~(k < f)
        OBVIOUS
      <3>1. k \in Nat /\ f <= k
        BY <2>1, <2>2
      <3> QED BY <2>3, <3>1
    <2> HIDE DEF f
    <2>5. f - 1 \in i..n /\ \A k \in i + 1..f - 1 : k < f
      BY <2>3
    <2>6. \A k \in i + 1..f - 1 : k \notin places
      BY <2>4, <2>5
    <2>7. i..f - 1 \subseteq G
      BY <1>1, <2>5, <2>6
    <2> QED BY <1>3, <2>2, <2>7 DEF f
  <1> QED BY <1>2, <1>3

\* The server may be at i where the scan is: in code, past a literal that is not doubled, or at
\* the end of a line comment.
Ready(t, M, lex, i) ==
    IF i = Len(t) + 1 THEN M[Len(t)].in \in InCode \cup {"line"}
    ELSE \/ M[i - 1].in = "code" /\ ~(M[i - 1].was = "E" /\ "estring" \in lex /\ t[i] = "quote")
         \/ M[i - 1].in = "closed" /\ t[i] # M[i - 1].q
         \/ M[i - 1].in = "line" /\ t[i] = "newline"

\* What begins at i ends before p, and is not finished if p is 0.
EndsBefore(t, M, lex, i, p) ==
    IF p = 0 THEN i + 1..Len(t) \subseteq Skipped(t, M) /\ M[Len(t)].in \notin InCode \cup {"line"}
    ELSE p \in i + 1..Len(t) + 1 /\ i + 1..p - 1 \subseteq Skipped(t, M) /\ Ready(t, M, lex, p)

\* A literal opened at i ends where the scan says, with a quote that is not the first of two.
LEMMA LiteralFrom ==
    ASSUME NEW t \in Seq(STRING), NEW lex, NEW b, NEW i \in DOMAIN t, NEW q \in Quotes, NEW e,
           Server(t, lex, b)[i].in = "quoted", Server(t, lex, b)[i].q = q, Server(t, lex, b)[i].esc = e
    PROVE  EndsBefore(t, Server(t, lex, b), lex, i, ClosesAt(t, q, e)[i + 1])
  <1> DEFINE M == Server(t, lex, b)
             p == ClosesAt(t, q, e)[i + 1]
  <1>1. i + 1 \in 1..Len(t) + 1 /\ (i + 1) - 1 = i
    OBVIOUS
  <1>2. IF p = 0 THEN i + 1..Len(t) \subseteq Skipped(t, M) /\ M[Len(t)].in \in {"quoted", "escaped"}
        ELSE /\ p \in (i + 1) + 1..Len(t) + 1 /\ i + 1..p - 1 \subseteq Skipped(t, M)
             /\ M[p - 1].in = "closed" /\ M[p - 1].q = q /\ At(t, p) # q
    <2>1. LiteralEnds(t, M, q, e, i + 1)
      <3>1. \A k \in 1..Len(t) + 1 : LiteralEnds(t, M, q, e, k)
        <4> HIDE DEF p
        <4> QED BY LiteralEndsRight
      <3> HIDE DEF M
      <3> QED BY <1>1, <3>1
    <2> QED BY <1>1, <2>1 DEF LiteralEnds
  <1> HIDE DEF M, p
  <1>3. CASE p = 0
    BY <1>2, <1>3 DEF EndsBefore, InCode, M, p
  <1>4. CASE p # 0
    <2>1. p \in i + 1..Len(t) + 1 /\ i + 1..p - 1 \subseteq Skipped(t, M)
      BY <1>2, <1>4
    <2>2. Ready(t, M, lex, p)
      <3>1. CASE p = Len(t) + 1
        <4>1. p - 1 = Len(t)
          BY <3>1
        <4> QED BY <1>2, <1>4, <3>1, <4>1 DEF Ready, InCode
      <3>2. CASE p # Len(t) + 1
        <4>1. p \in DOMAIN t
          BY <2>1, <3>2
        <4>2. At(t, p) = t[p]
          BY <4>1 DEF At
        <4> QED BY <1>2, <1>4, <3>2, <4>2 DEF Ready
      <3> QED BY <3>1, <3>2
    <2> QED BY <1>4, <2>1, <2>2 DEF EndsBefore, M, p
  <1> QED BY <1>3, <1>4

\* A line comment ends before its newline, or with the text.
LEMMA LineFrom ==
    ASSUME NEW t \in Seq(STRING), NEW lex, NEW b, NEW i \in DOMAIN t, Server(t, lex, b)[i].in = "line", t[i] # "newline"
    PROVE  EndsBefore(t, Server(t, lex, b), lex, i, Line(t, i))
  <1> DEFINE M == Server(t, lex, b)
             N == Len(t)
             ends == {j \in i..N : t[j] = "newline"}
             G == {j \in i..N : M[j].in = "line"}
  <1>1. \A j \in 1..N : M[j] = Reads(M[j - 1], t[j], lex, b)
    BY ServerSteps
  <1>2. \A j \in 0..N : Shaped(M[j])
    BY ServerState
  <1>3. i \in 1..N /\ N \in Nat /\ i \in Nat
    OBVIOUS
  <1> HIDE DEF M, N
  <1>4. \A j \in G : j \in i..N /\ M[j].in \notin InCode
    BY DEF InCode
  <1>5. \A k \in i + 1..N : k - 1 \in G => k \in Skipped(t, M)
    <2> SUFFICES ASSUME NEW k \in i + 1..N, k - 1 \in G PROVE k \in Skipped(t, M)
      OBVIOUS
    <2> QED BY <1>3, <1>4 DEF Skipped, N
  <1>6. ends \in SUBSET (i + 1..N) /\ i \in G
    BY <1>3 DEF M
  <1>7. \A k \in i + 1..N : k - 1 \in G /\ k \notin ends => k \in G
    <2> SUFFICES ASSUME NEW k \in i + 1..N, k - 1 \in G, k \notin ends PROVE k \in G
      OBVIOUS
    <2>1. k \in 1..N /\ k - 1 \in 0..N /\ k \in i..N /\ t[k] # "newline"
      BY <1>3
    <2>2. M[k].in = "line"
      BY <1>1, <1>2, <2>1, ReadsInside
    <2> QED BY <2>1, <2>2
  <1>8. IF ends = {} THEN i..N \subseteq G ELSE FirstOf(ends) \in ends /\ i..FirstOf(ends) - 1 \subseteq G
    <2>1. i <= N
      BY <1>3
    <2> HIDE DEF ends, G
    <2> QED BY <1>3, <1>6, <1>7, <2>1, HoldsUntil
  <1>9. CASE ends = {}
    <2>1. Line(t, i) = N + 1
      BY <1>9 DEF Line, N
    <2>2. M[N].in = "line"
      BY <1>3, <1>8, <1>9
    <2>3. i + 1..(N + 1) - 1 \subseteq Skipped(t, M)
      <3>1. \A k \in i + 1..(N + 1) - 1 : k - 1 \in i..N /\ k \in i + 1..N
        BY <1>3
      <3> QED BY <1>5, <1>8, <1>9, <3>1
    <2>4. Ready(t, M, lex, N + 1)
      BY <2>2 DEF Ready, N
    <2> QED BY <1>3, <2>1, <2>3, <2>4 DEF EndsBefore, M, N
  <1>10. CASE ends # {}
    <2> DEFINE p == FirstOf(ends)
    <2>1. Line(t, i) = p
      BY <1>10 DEF Line, N
    <2>2. p \in i + 1..N /\ t[p] = "newline" /\ i..p - 1 \subseteq G
      BY <1>6, <1>8, <1>10
    <2> HIDE DEF p
    <2>3. i + 1..p - 1 \subseteq Skipped(t, M)
      <3>1. \A k \in i + 1..p - 1 : k - 1 \in i..p - 1 /\ k \in i + 1..N
        BY <1>3, <2>2
      <3> QED BY <1>5, <2>2, <3>1
    <2>4. M[p - 1].in = "line"
      BY <1>3, <2>2
    <2>5. Ready(t, M, lex, p) /\ p \in i + 1..N + 1 /\ p # 0
      BY <1>3, <2>2, <2>4 DEF Ready, N
    <2> QED BY <2>1, <2>3, <2>5 DEF EndsBefore, M, N
  <1> QED BY <1>9, <1>10

\* A dollar quote ends at the next delimiter like its own.
LEMMA DollarFrom ==
    ASSUME NEW t \in Seq(STRING), NEW lex, NEW b, NEW i \in DOMAIN t, Server(t, lex, b)[i].in = "dollar",
           t[i] = "dollars"
    PROVE  EndsBefore(t, Server(t, lex, b), lex, i, Dollar(t, i))
  <1> DEFINE M == Server(t, lex, b)
             N == Len(t)
             ends == {j \in i + 1..N : t[j] = t[i]}
             G == {j \in i..N : M[j].in = "dollar"}
  <1>1. \A j \in 1..N : M[j] = Reads(M[j - 1], t[j], lex, b)
    BY ServerSteps
  <1>2. \A j \in 0..N : Shaped(M[j])
    BY ServerState
  <1>3. i \in 1..N /\ N \in Nat /\ i \in Nat
    OBVIOUS
  <1> HIDE DEF M, N
  <1>4. \A j \in G : j \in i..N /\ M[j].in \notin InCode
    BY DEF InCode
  <1>5. \A k \in i + 1..N : k - 1 \in G => k \in Skipped(t, M)
    <2> SUFFICES ASSUME NEW k \in i + 1..N, k - 1 \in G PROVE k \in Skipped(t, M)
      OBVIOUS
    <2> QED BY <1>3, <1>4 DEF Skipped, N
  <1>6. ends \in SUBSET (i + 1..N) /\ i \in G
    BY <1>3 DEF M
  <1>7. \A k \in i + 1..N : k - 1 \in G /\ k \notin ends => k \in G
    <2> SUFFICES ASSUME NEW k \in i + 1..N, k - 1 \in G, k \notin ends PROVE k \in G
      OBVIOUS
    <2>1. k \in 1..N /\ k - 1 \in 0..N /\ k \in i..N /\ t[k] # "dollars"
      BY <1>3
    <2>2. M[k].in = "dollar"
      BY <1>1, <1>2, <2>1, ReadsInside
    <2> QED BY <2>1, <2>2
  <1>8. IF ends = {} THEN i..N \subseteq G ELSE FirstOf(ends) \in ends /\ i..FirstOf(ends) - 1 \subseteq G
    <2>1. i <= N
      BY <1>3
    <2> HIDE DEF ends, G
    <2> QED BY <1>3, <1>6, <1>7, <2>1, HoldsUntil
  <1>9. CASE ends = {}
    <2>1. Dollar(t, i) = 0
      BY <1>9 DEF Dollar, PastFirst, N
    <2>2. M[N].in = "dollar"
      BY <1>3, <1>8, <1>9
    <2>3. i + 1..N \subseteq Skipped(t, M)
      <3>1. \A k \in i + 1..N : k - 1 \in i..N
        BY <1>3
      <3> QED BY <1>5, <1>8, <1>9, <3>1
    <2> QED BY <2>1, <2>2, <2>3 DEF EndsBefore, InCode, M, N
  <1>10. CASE ends # {}
    <2> DEFINE f == FirstOf(ends)
    <2>1. Dollar(t, i) = f + 1
      BY <1>10 DEF Dollar, PastFirst, N
    <2>2. f \in i + 1..N /\ t[f] = "dollars" /\ i..f - 1 \subseteq G
      BY <1>6, <1>8, <1>10
    <2> HIDE DEF f
    <2>3. f \in 1..N /\ f - 1 \in 0..N /\ f - 1 \in i..f - 1
      BY <1>3, <2>2
    <2>4. M[f] = Code
      BY <1>1, <1>2, <2>2, <2>3, ReadsInside
    <2>5. i + 1..(f + 1) - 1 \subseteq Skipped(t, M)
      <3>1. \A k \in i + 1..(f + 1) - 1 : k - 1 \in i..f - 1 /\ k \in i + 1..N
        BY <1>3, <2>2
      <3> QED BY <1>5, <2>2, <3>1
    <2>6. Ready(t, M, lex, f + 1)
      <3>1. (f + 1) - 1 = f /\ (f + 1 = N + 1 => f = N)
        BY <1>3, <2>2
      <3>2. M[f].in = "code" /\ M[f].was = ""
        <4>1. Code.in = "code" /\ Code.was = ""
          BY DEF Code
        <4> QED BY <2>4, <4>1
      <3> QED BY <3>1, <3>2 DEF Ready, N, InCode
    <2>7. f + 1 \in i + 1..N + 1 /\ f + 1 # 0
      BY <1>3, <2>2
    <2> QED BY <2>1, <2>5, <2>6, <2>7 DEF EndsBefore, M, N
  <1> QED BY <1>9, <1>10

\* A comment ends where it is no deeper than nothing.
LEMMA CommentFrom ==
    ASSUME NEW t \in Seq(STRING), NEW lex, NEW b, NEW i \in DOMAIN t, Server(t, lex, b)[i].in = "comment",
           Server(t, lex, b)[i].depth = 1
    PROVE  EndsBefore(t, Server(t, lex, b), lex, i, Comment(t, i, "nested" \in lex))
  <1> DEFINE M == Server(t, lex, b)
             N == Len(t)
             D == Depths(t, i, "nested" \in lex)
             ends == {j \in i + 1..N : D[j] = 0}
             G == {j \in i..N : M[j].in = "comment" /\ M[j].depth = D[j] /\ D[j] \in Nat \ {0}}
  <1>1. \A j \in 1..N : M[j] = Reads(M[j - 1], t[j], lex, b)
    BY ServerSteps
  <1>2. \A j \in 0..N : Shaped(M[j])
    BY ServerState
  <1>3. i \in 1..N /\ N \in Nat /\ i \in Nat
    OBVIOUS
  <1>4. D[i] = 1 /\ \A j \in i + 1..N : D[j] = Deepen(t[j], D[j - 1], "nested" \in lex)
    <2>1. D = [n \in 0..N |-> IF n <= i THEN 1 ELSE Deepen(t[n], D[n - 1], "nested" \in lex)]
      BY <1>3, DepthsSteps
    <2> HIDE DEF D
    <2>2. \A j \in i + 1..N : j \in 0..N /\ ~(j <= i)
      BY <1>3
    <2>3. i \in 0..N /\ i <= i
      BY <1>3
    <2> QED BY <2>1, <2>2, <2>3
  <1> HIDE DEF M, N, D
  <1>5. \A j \in G : j \in i..N /\ M[j].in \notin InCode
    BY DEF InCode
  <1>6. \A k \in i + 1..N : k - 1 \in G => k \in Skipped(t, M)
    <2> SUFFICES ASSUME NEW k \in i + 1..N, k - 1 \in G PROVE k \in Skipped(t, M)
      OBVIOUS
    <2> QED BY <1>3, <1>5 DEF Skipped, N
  <1>7. ends \in SUBSET (i + 1..N) /\ i \in G
    BY <1>3, <1>4 DEF M
  <1>8. ASSUME NEW k \in i + 1..N, k - 1 \in G
        PROVE  /\ k \notin ends => k \in G
               /\ k \in ends => M[k] = Code
    <2>1. k \in 1..N /\ k - 1 \in 0..N /\ k \in i..N
      BY <1>3
    <2>2. /\ D[k] = Deepen(t[k], D[k - 1], "nested" \in lex) /\ D[k - 1] \in Nat \ {0}
          /\ M[k - 1].in = "comment" /\ M[k - 1].depth = D[k - 1]
      BY <1>4, <1>8
    <2>3. IF t[k] = "close" /\ D[k - 1] = 1 THEN M[k] = Code
          ELSE M[k].in = "comment" /\ M[k].depth = D[k]
      BY <1>1, <1>2, <2>1, <2>2, ReadsInside
    <2>4. D[k] = 0 <=> t[k] = "close" /\ D[k - 1] = 1
      BY <2>2 DEF Deepen
    <2>5. D[k] \in Nat
      BY <2>2 DEF Deepen
    <2> QED BY <2>1, <2>3, <2>4, <2>5
  <1>9. IF ends = {} THEN i..N \subseteq G ELSE FirstOf(ends) \in ends /\ i..FirstOf(ends) - 1 \subseteq G
    <2>1. i <= N
      BY <1>3
    <2>2. \A k \in i + 1..N : k - 1 \in G /\ k \notin ends => k \in G
      BY <1>8
    <2> HIDE DEF ends, G
    <2> QED BY <1>3, <1>7, <2>1, <2>2, HoldsUntil
  <1>10. CASE ends = {}
    <2>1. Comment(t, i, "nested" \in lex) = 0
      BY <1>10 DEF Comment, PastFirst, N, D
    <2>2. M[N].in = "comment"
      BY <1>3, <1>9, <1>10
    <2>3. i + 1..N \subseteq Skipped(t, M)
      <3>1. \A k \in i + 1..N : k - 1 \in i..N
        BY <1>3
      <3> QED BY <1>6, <1>9, <1>10, <3>1
    <2> QED BY <2>1, <2>2, <2>3 DEF EndsBefore, InCode, M, N
  <1>11. CASE ends # {}
    <2> DEFINE f == FirstOf(ends)
    <2>1. Comment(t, i, "nested" \in lex) = f + 1
      BY <1>11 DEF Comment, PastFirst, N, D
    <2>2. f \in i + 1..N /\ f \in ends /\ i..f - 1 \subseteq G
      BY <1>7, <1>9, <1>11
    <2> HIDE DEF f
    <2>3. f \in 1..N /\ f - 1 \in 0..N /\ f - 1 \in i..f - 1
      BY <1>3, <2>2
    <2>4. M[f] = Code
      BY <1>8, <2>2, <2>3
    <2>5. i + 1..(f + 1) - 1 \subseteq Skipped(t, M)
      <3>1. \A k \in i + 1..(f + 1) - 1 : k - 1 \in i..f - 1 /\ k \in i + 1..N
        BY <1>3, <2>2
      <3> QED BY <1>6, <2>2, <3>1
    <2>6. Ready(t, M, lex, f + 1)
      <3>1. (f + 1) - 1 = f /\ (f + 1 = N + 1 => f = N)
        BY <1>3, <2>2
      <3>2. M[f].in = "code" /\ M[f].was = ""
        <4>1. Code.in = "code" /\ Code.was = ""
          BY DEF Code
        <4> QED BY <2>4, <4>1
      <3> QED BY <3>1, <3>2 DEF Ready, N, InCode
    <2>7. f + 1 \in i + 1..N + 1 /\ f + 1 # 0
      BY <1>3, <2>2
    <2> QED BY <2>1, <2>5, <2>6, <2>7 DEF EndsBefore, M, N
  <1> QED BY <1>10, <1>11

\* A unit that is nothing's beginning ends before the next one.
LEMMA OneFrom ==
    ASSUME NEW t \in Seq(STRING), NEW M, NEW lex, NEW i \in DOMAIN t, M[i].in = "code",
           ~(M[i].was = "E" /\ "estring" \in lex /\ At(t, i + 1) = "quote")
    PROVE  EndsBefore(t, M, lex, i, i + 1)
  <1>1. (i + 1) - 1 = i /\ i + 1 \in i + 1..Len(t) + 1 /\ i + 1 # 0 /\ i + 1..(i + 1) - 1 = {}
    OBVIOUS
  <1>2. Ready(t, M, lex, i + 1)
    <2>1. CASE i = Len(t)
      BY <1>1, <2>1 DEF Ready, InCode
    <2>2. CASE i # Len(t)
      <3>1. At(t, i + 1) = t[i + 1] /\ i + 1 # Len(t) + 1
        BY <2>2 DEF At
      <3> QED BY <1>1, <3>1 DEF Ready
    <2> QED BY <2>1, <2>2
  <1> QED BY <1>1, <1>2 DEF EndsBefore

\* Where the scan may be, the server opens what the unit opens, or is past a line's end.
LEMMA OpensAtReady ==
    ASSUME NEW t \in Seq(STRING), NEW lex, NEW b, NEW i \in DOMAIN t, Ready(t, Server(t, lex, b), lex, i)
    PROVE  LET M == Server(t, lex, b)
           IN  \/ /\ M[i - 1].in \in InCode
                  /\ \E m : /\ M[i] = Opens(m, t[i], lex, b)
                            /\ ~(m.was = "E" /\ "estring" \in lex /\ t[i] = "quote")
               \/ t[i] = "newline" /\ M[i - 1].in = "line" /\ M[i] = Code
  <1> DEFINE M == Server(t, lex, b)
  <1>1. i \in 1..Len(t) /\ i - 1 \in 0..Len(t) /\ i # Len(t) + 1
    OBVIOUS
  <1>2. M[i] = Reads(M[i - 1], t[i], lex, b)
    BY <1>1, ServerSteps
  <1>3. Shaped(M[i - 1])
    BY <1>1, ServerState
  <1>4. Ready(t, M, lex, i)
    OBVIOUS
  <1> HIDE DEF M
  <1>5. CASE M[i - 1].in = "code" /\ ~(M[i - 1].was = "E" /\ "estring" \in lex /\ t[i] = "quote")
    <2>1. M[i] = Opens(M[i - 1], t[i], lex, b)
      BY <1>2, <1>3, <1>5, ReadsInside
    <2> QED BY <1>5, <2>1 DEF InCode, M
  <1>6. CASE M[i - 1].in = "closed" /\ t[i] # M[i - 1].q
    <2>1. M[i] = Opens(Code, t[i], lex, b)
      BY <1>2, <1>3, <1>6, ReadsInside
    <2>2. Code.was # "E"
      BY DEF Code
    <2> QED BY <1>6, <2>1, <2>2 DEF InCode, M
  <1>7. CASE M[i - 1].in = "line" /\ t[i] = "newline"
    <2>1. M[i] = Code
      BY <1>2, <1>3, <1>7, ReadsInside
    <2> QED BY <1>7, <2>1 DEF M
  <1> QED BY <1>1, <1>4, <1>5, <1>6, <1>7 DEF Ready

\* A unit of the scan is what the server makes of it: the word it is, the /*! it opens or ends, and
\* where the server is past what it opens.
UnitRight(t, M, lex, i, execs, u) ==
    /\ u.token = IF t[i] = "word" /\ M[i - 1].in \in InCode THEN {i} ELSE {}
    /\ u.execs = Enters(M[i - 1], t[i], lex, execs)
    /\ EndsBefore(t, M, lex, i, u.to)

\* A server with this setting escapes where the scan does that takes backslashes as b says.
TakesAs(lex, b, st) == ("quote" \in st <=> b) /\ ("dquote" \in st <=> b /\ "backslash" \in lex)

\* Each unit is right wherever the scan may stand.
LEMMA UnitFrom ==
    ASSUME NEW t \in Seq(STRING), NEW lex, NEW b \in BOOLEAN, NEW st, TakesAs(lex, b, st),
           NEW i \in DOMAIN t, NEW execs \in Nat, Ready(t, Server(t, lex, st), lex, i)
    PROVE  UnitRight(t, Server(t, lex, st), lex, i, execs, Unit(t, i, lex, b, execs))
  <1> DEFINE M == Server(t, lex, st)
             u == Unit(t, i, lex, b, execs)
             past(p) == [to |-> p, execs |-> execs, token |-> {}]
             c == t[i]
  <1>0. \A j \in 1..Len(t) : M[j] = Reads(M[j - 1], t[j], lex, st)
    BY ServerNext
  <1>1. CASE c = "newline" /\ M[i - 1].in = "line" /\ M[i] = Code
    <2>1. u = past(i + 1)
      BY <1>1 DEF Unit
    <2>2. M[i].in = "code" /\ M[i].was = ""
      <3>1. Code.in = "code" /\ Code.was = ""
        BY DEF Code
      <3> QED BY <1>1, <3>1
    <2>3. EndsBefore(t, M, lex, i, i + 1)
      <3> HIDE DEF M
      <3> QED BY <2>2, OneFrom
    <2>4. Enters(M[i - 1], c, lex, execs) = execs
      BY <1>1 DEF Enters
    <2> HIDE DEF M, u
    <2> QED BY <1>1, <2>1, <2>3, <2>4 DEF UnitRight, M, u
  <1>2. ASSUME NEW m, M[i] = Opens(m, c, lex, st), ~(m.was = "E" /\ "estring" \in lex /\ c = "quote"),
               M[i - 1].in \in InCode
        PROVE  UnitRight(t, M, lex, i, execs, u)
    <2>1. CASE c = "dashes" \/ (c = "hash#" /\ "hash" \in lex)
      <3>1. u = past(Line(t, i))
        BY <2>1 DEF Unit
      <3>2. M[i].in = "line"
        <4>1. [Code EXCEPT !.in = "line"].in = "line"
          BY DEF Code
        <4> QED BY <1>2, <2>1, <4>1 DEF Opens
      <3>3. EndsBefore(t, M, lex, i, Line(t, i))
        BY <2>1, <3>2, LineFrom
      <3>4. Enters(M[i - 1], c, lex, execs) = execs /\ c # "word"
        BY <2>1 DEF Enters
      <3> HIDE DEF M, u
      <3> QED BY <3>1, <3>3, <3>4 DEF UnitRight
    <2>2. CASE c = "open" \/ (c = "exec" /\ "hash" \notin lex)
      <3>1. u = past(Comment(t, i, "nested" \in lex))
        BY <2>2 DEF Unit
      <3>2. M[i].in = "comment" /\ M[i].depth = 1
        <4>1. /\ [Code EXCEPT !.in = "comment", !.depth = 1].in = "comment"
              /\ [Code EXCEPT !.in = "comment", !.depth = 1].depth = 1
          BY DEF Code
        <4> QED BY <1>2, <2>2, <4>1 DEF Opens
      <3>3. EndsBefore(t, M, lex, i, Comment(t, i, "nested" \in lex))
        BY <3>2, CommentFrom
      <3>4. Enters(M[i - 1], c, lex, execs) = execs /\ c # "word"
        BY <2>2 DEF Enters
      <3> HIDE DEF M, u
      <3> QED BY <3>1, <3>3, <3>4 DEF UnitRight
    <2>3. CASE c = "dollars" /\ "dollar" \in lex
      <3>1. u = past(Dollar(t, i))
        BY <2>3 DEF Unit
      <3>2. M[i].in = "dollar"
        <4>1. [Code EXCEPT !.in = "dollar"].in = "dollar"
          BY DEF Code
        <4> QED BY <1>2, <2>3, <4>1 DEF Opens
      <3>3. EndsBefore(t, M, lex, i, Dollar(t, i))
        BY <2>3, <3>2, DollarFrom
      <3>4. Enters(M[i - 1], c, lex, execs) = execs /\ c # "word"
        BY <2>3 DEF Enters
      <3> HIDE DEF M, u
      <3> QED BY <3>1, <3>3, <3>4 DEF UnitRight
    <2>4. ASSUME NEW q \in Quotes, NEW e, NEW p, u = past(p), p = ClosesAt(t, q, e)[i + 1],
                 M[i] = [Code EXCEPT !.in = "quoted", !.q = q, !.esc = e],
                 c \notin {"word", "exec", "close"}
          PROVE  UnitRight(t, M, lex, i, execs, u)
      <3>1. M[i].in = "quoted" /\ M[i].q = q /\ M[i].esc = e
        BY <2>4 DEF Code
      <3>2. EndsBefore(t, M, lex, i, p)
        BY <2>4, <3>1, LiteralFrom
      <3>3. Enters(M[i - 1], c, lex, execs) = execs /\ c # "word"
        BY <2>4 DEF Enters
      <3> HIDE DEF M, u
      <3> QED BY <2>4, <3>2, <3>3 DEF UnitRight
    <2>5. CASE c = "quote"
      <3>1. u = past(Quoted(t, i, b))
        BY <2>5 DEF Unit
      <3>2. Quoted(t, i, b) = ClosesAt(t, "quote", Escapes(b))[i + 1]
        BY <2>5 DEF Quoted
      <3>3. M[i] = [Code EXCEPT !.in = "quoted", !.q = "quote", !.esc = Escapes(b)]
        <4>1. Escapes("quote" \in st \/ (m.was = "E" /\ "estring" \in lex)) = Escapes(b)
          BY <1>2, <2>5 DEF Escapes, TakesAs
        <4> QED BY <1>2, <2>5, <4>1 DEF Opens
      <3> HIDE DEF M, u
      <3> QED BY <2>4, <2>5, <3>1, <3>2, <3>3 DEF Quotes
    <2>6. CASE c = "dquote"
      <3> DEFINE e == Escapes(b /\ "backslash" \in lex)
      <3>1. u = past(Quoted(t, i, b /\ "backslash" \in lex))
        BY <2>6 DEF Unit
      <3>2. Quoted(t, i, b /\ "backslash" \in lex) = ClosesAt(t, "dquote", e)[i + 1]
        BY <2>6 DEF Quoted
      <3>3. M[i] = [Code EXCEPT !.in = "quoted", !.q = "dquote", !.esc = e]
        <4>1. Escapes("dquote" \in st) = e
          BY DEF Escapes, TakesAs
        <4> HIDE DEF e
        <4> QED BY <1>2, <2>6, <4>1 DEF Opens
      <3> HIDE DEF M, u, e
      <3> QED BY <2>4, <2>6, <3>1, <3>2, <3>3 DEF Quotes
    <2>7. CASE c = "tick" /\ "backtick" \in lex
      <3>1. u = past(Quoted(t, i, FALSE))
        BY <2>7 DEF Unit
      <3>2. Quoted(t, i, FALSE) = ClosesAt(t, "tick", Escapes(FALSE))[i + 1]
        BY <2>7 DEF Quoted
      <3>3. M[i] = [Code EXCEPT !.in = "quoted", !.q = "tick", !.esc = Escapes(FALSE)]
        BY <1>2, <2>7 DEF Opens
      <3> HIDE DEF M, u
      <3> QED BY <2>4, <2>7, <3>1, <3>2, <3>3 DEF Quotes
    <2>8. CASE c = "bracket[" /\ "bracket" \in lex
      <3>1. u = past(Bracketed(t, i))
        BY <2>8 DEF Unit
      <3>2. Bracketed(t, i) = ClosesAt(t, "bracket]", Escapes(FALSE))[i + 1]
        BY DEF Bracketed, Escapes
      <3>3. M[i] = [Code EXCEPT !.in = "quoted", !.q = "bracket]", !.esc = Escapes(FALSE)]
        BY <1>2, <2>8 DEF Opens
      <3> HIDE DEF M, u
      <3> QED BY <2>4, <2>8, <3>1, <3>2, <3>3 DEF Quotes
    <2>9. CASE ~ \/ c = "dashes" \/ (c = "hash#" /\ "hash" \in lex)
                 \/ c = "open" \/ (c = "exec" /\ "hash" \notin lex)
                 \/ c \in {"quote", "dquote"} \/ (c = "tick" /\ "backtick" \in lex)
                 \/ (c = "bracket[" /\ "bracket" \in lex) \/ (c = "dollars" /\ "dollar" \in lex)
      <3>1. M[i] = [Code EXCEPT !.was = c]
        BY <1>2, <2>9 DEF Opens
      <3>2. M[i].in = "code" /\ M[i].was = c
        BY <3>1 DEF Code
      <3>3. CASE c = "E" /\ "estring" \in lex /\ At(t, i + 1) = "quote"
        <4> DEFINE p == ClosesAt(t, "quote", Escapes(TRUE))[(i + 1) + 1]
        <4>1. i + 1 \in DOMAIN t /\ t[i + 1] = "quote" /\ (i + 1) - 1 = i
          BY <3>3 DEF At
        <4>2. u = past(p)
          BY <3>3, <4>1 DEF Unit, Quoted
        <4>3. M[i + 1] = Opens(M[i], "quote", lex, st)
          <5>1. M[i + 1] = Reads(M[i], "quote", lex, st)
            <6>1. M[i + 1] = Reads(M[(i + 1) - 1], t[i + 1], lex, st)
              <7> HIDE DEF M
              <7> QED BY <1>0, <4>1
            <6> QED BY <4>1, <6>1
          <5>2. Shaped(M[i])
            BY ServerState
          <5> HIDE DEF M
          <5> QED BY <3>2, <5>1, <5>2, ReadsInside
        <4>4. M[i + 1] = [Code EXCEPT !.in = "quoted", !.q = "quote", !.esc = Escapes(TRUE)]
          <5>1. Escapes("quote" \in st \/ (M[i].was = "E" /\ "estring" \in lex)) = Escapes(TRUE)
            BY <3>2, <3>3 DEF Escapes
          <5> HIDE DEF M
          <5> QED BY <4>3, <5>1 DEF Opens
        <4>5. M[i + 1].in = "quoted" /\ M[i + 1].q = "quote" /\ M[i + 1].esc = Escapes(TRUE)
          BY <4>4 DEF Code
        <4>6. EndsBefore(t, M, lex, i + 1, p)
          BY <4>1, <4>5, LiteralFrom DEF Quotes
        <4>7. i + 1 \in Skipped(t, M)
          BY <4>1 DEF Skipped
        <4> HIDE DEF M, u, p
        <4>8. EndsBefore(t, M, lex, i, p)
          <5>1. \A n \in Int : \A j \in i + 1..n : j = i + 1 \/ j \in (i + 1) + 1..n
            OBVIOUS
          <5>2. CASE p = 0
            BY <4>6, <4>7, <5>1, <5>2 DEF EndsBefore
          <5>3. CASE p # 0
            <6>1. p \in (i + 1) + 1..Len(t) + 1 /\ (i + 1) + 1..p - 1 \subseteq Skipped(t, M) /\ Ready(t, M, lex, p)
              BY <4>6, <5>3 DEF EndsBefore
            <6>2. p - 1 \in Int /\ p \in i + 1..Len(t) + 1
              BY <6>1
            <6>3. i + 1..p - 1 \subseteq Skipped(t, M)
              BY <4>7, <5>1, <6>1, <6>2
            <6> QED BY <5>3, <6>1, <6>2, <6>3 DEF EndsBefore
          <5> QED BY <5>2, <5>3
        <4>9. Enters(M[i - 1], c, lex, execs) = execs /\ c # "word"
          BY <3>3 DEF Enters
        <4> QED BY <4>2, <4>8, <4>9 DEF UnitRight
      <3>4. CASE ~(c = "E" /\ "estring" \in lex /\ At(t, i + 1) = "quote")
        <4>1. EndsBefore(t, M, lex, i, i + 1)
          <5> HIDE DEF M
          <5> QED BY <3>2, <3>4, OneFrom
        <4>2. /\ u.to = i + 1
              /\ u.execs = IF c = "exec" /\ "hash" \in lex THEN execs + 1
                           ELSE IF c = "close" /\ execs > 0 THEN execs - 1 ELSE execs
              /\ u.token = IF c = "word" THEN {i} ELSE {}
          BY <2>9, <3>4 DEF Unit
        <4>3. u.execs = Enters(M[i - 1], c, lex, execs)
          BY <1>2, <4>2 DEF Enters
        <4> HIDE DEF M, u
        <4> QED BY <1>2, <4>1, <4>2, <4>3 DEF UnitRight
      <3> QED BY <3>3, <3>4
    <2> QED BY <2>1, <2>2, <2>3, <2>5, <2>6, <2>7, <2>8, <2>9
  <1>3. \/ /\ M[i - 1].in \in InCode
           /\ \E m : /\ M[i] = Opens(m, t[i], lex, st)
                     /\ ~(m.was = "E" /\ "estring" \in lex /\ t[i] = "quote")
        \/ t[i] = "newline" /\ M[i - 1].in = "line" /\ M[i] = Code
    BY OpensAtReady
  <1> QED
    <2>1. CASE t[i] = "newline" /\ M[i - 1].in = "line" /\ M[i] = Code
      BY <1>1, <2>1 DEF u
    <2>2. CASE ~(t[i] = "newline" /\ M[i - 1].in = "line" /\ M[i] = Code)
      <3>1. PICK m : M[i] = Opens(m, t[i], lex, st) /\ ~(m.was = "E" /\ "estring" \in lex /\ t[i] = "quote")
        BY <1>3, <2>2
      <3>2. M[i - 1].in \in InCode
        BY <1>3, <2>2
      <3> HIDE DEF M
      <3>3. UnitRight(t, M, lex, i, execs, u)
        BY <1>2, <3>1, <3>2
      <3> QED BY <3>3 DEF M, u
    <2> QED BY <2>1, <2>2

---------------------------------------------------------------------------
(* The scan finds what the server runs.                                     *)

\* Nothing is entered or left while the server passes over what stands there.
LEMMA EnteredStays ==
    ASSUME NEW t \in Seq(STRING), NEW lex, NEW b, NEW i \in DOMAIN t, NEW p \in i + 1..Len(t) + 1,
           i + 1..p - 1 \subseteq Skipped(t, Server(t, lex, b))
    PROVE  Entered(t, lex, b)[p - 1] = Entered(t, lex, b)[i]
  <1> DEFINE M == Server(t, lex, b)
             E == Entered(t, lex, b)
             P == {k \in 0..(p - 1) - i : E[i + k] = E[i]}
  <1>1. \A j \in 1..Len(t) : E[j] = Enters(M[j - 1], t[j], lex, E[j - 1])
    BY EnteredSteps
  <1>2. (p - 1) - i \in Nat /\ i \in 1..Len(t) /\ p \in i + 1..Len(t) + 1 /\ Len(t) \in Nat
    OBVIOUS
  <1> HIDE DEF M, E
  <1>3. 0 \in P
    <2>1. i + 0 = i
      BY <1>2
    <2>2. \A d \in Nat : 0 \in 0..d
      OBVIOUS
    <2>3. 0 \in 0..(p - 1) - i
      BY <1>2, <2>2
    <2> QED BY <2>1, <2>3
  <1>4. ASSUME NEW k \in 1..(p - 1) - i, k - 1 \in P PROVE k \in P
    <2>1. i + k \in i + 1..p - 1 /\ i + k \in 1..Len(t) /\ (i + k) - 1 = i + (k - 1) /\ k \in 0..(p - 1) - i
      <3> HIDE DEF P
      <3>1. k \in Int /\ 1 <= k /\ k <= (p - 1) - i /\ p \in Int /\ i \in Int
        BY <1>2
      <3> QED BY <1>2, <3>1
    <2>2. i + k \in Skipped(t, M)
      BY <2>1 DEF M
    <2>3. M[(i + k) - 1].in \in InCode => t[i + k] \notin {"word", "exec", "close"}
      BY <2>2 DEF Skipped
    <2>4. E[i + k] = E[(i + k) - 1]
      BY <1>1, <2>1, <2>3 DEF Enters
    <2>5. E[i + (k - 1)] = E[i]
      BY <1>4
    <2> QED BY <2>1, <2>4, <2>5
  <1>5. 0..(p - 1) - i \subseteq P
    <2> HIDE DEF P
    <2>1. \A k \in 1..(p - 1) - i : k - 1 \in P => k \in P
      BY <1>4
    <2> QED BY <1>2, <1>3, <2>1, ScanUp
  <1>6. (p - 1) - i \in P /\ i + ((p - 1) - i) = p - 1
    BY <1>2, <1>5
  <1> QED BY <1>6 DEF E

\* A scan is as far as the server is, which has run the words it has found; if it is at an end
\* that is not there, the server waits.
ScanRight(t, lex, st, s, n) ==
    LET M == Server(t, lex, st)
    IN  IF s.at = 0 THEN s.words = Runs(t, lex, st) /\ M[Len(t)].in \notin InCode \cup {"line"}
        ELSE /\ s.at \in 1..Len(t) + 1 /\ (s.at > n \/ s.at = Len(t) + 1)
             /\ s.words = {j \in Runs(t, lex, st) : j < s.at}
             /\ s.execs = Entered(t, lex, st)[s.at - 1] /\ s.execs \in Nat
             /\ Ready(t, M, lex, s.at)

\* One unit more keeps it so.
LEMMA ScanGoesOn ==
    ASSUME NEW t \in Seq(STRING), NEW lex, NEW b \in BOOLEAN, NEW st, TakesAs(lex, b, st),
           NEW n \in 1..Len(t), NEW s,
           ScanRight(t, lex, st, s, n - 1)
    PROVE  ScanRight(t, lex, st, Scanned(t, s, lex, b), n)
  <1> DEFINE M == Server(t, lex, st)
             E == Entered(t, lex, st)
             R == Runs(t, lex, st)
             N == Len(t)
             u == Unit(t, s.at, lex, b, s.execs)
  <1>1. N \in Nat /\ DOMAIN t = 1..N
    OBVIOUS
  <1>2. IF s.at = 0 THEN s.words = R /\ M[N].in \notin InCode \cup {"line"}
        ELSE /\ s.at \in 1..N + 1 /\ (s.at > n - 1 \/ s.at = N + 1)
             /\ s.words = {j \in R : j < s.at}
             /\ s.execs = E[s.at - 1] /\ s.execs \in Nat
             /\ Ready(t, M, lex, s.at)
    BY DEF ScanRight
  <1>3. \A j \in R : j \in 1..N /\ t[j] = "word" /\ M[j - 1].in \in InCode
    BY DEF Runs
  <1>4. \A j \in 1..N : t[j] = "word" /\ M[j - 1].in \in InCode => j \in R
    BY DEF Runs
  <1>5. CASE s.at \notin DOMAIN t
    <2>1. Scanned(t, s, lex, b) = s
      BY <1>5 DEF Scanned
    <2>2. s.at = 0 \/ s.at = N + 1
      BY <1>1, <1>2, <1>5
    <2> HIDE DEF M, E, R
    <2>3. ScanRight(t, lex, st, s, n)
      BY <1>2, <2>2 DEF ScanRight, M, E, R
    <2> QED BY <2>1, <2>3
  <1>6. CASE s.at \in DOMAIN t
    <2> DEFINE i == s.at
               r == [at |-> u.to, execs |-> u.execs, words |-> s.words \cup u.token]
    <2>1. Scanned(t, s, lex, b) = r
      BY <1>6 DEF Scanned
    <2>2. /\ i \in 1..N /\ i > n - 1 /\ s.words = {j \in R : j < i} /\ s.execs = E[i - 1] /\ s.execs \in Nat
          /\ Ready(t, M, lex, i)
      BY <1>1, <1>2, <1>6
    <2>3. UnitRight(t, M, lex, i, s.execs, u)
      BY <1>6, <2>2, UnitFrom
    <2>4. r.at = u.to /\ r.execs = u.execs /\ r.words = s.words \cup u.token
      OBVIOUS
    <2>5. E[i] = Enters(M[i - 1], t[i], lex, E[i - 1])
      <3>1. \A j \in 1..N : E[j] = Enters(M[j - 1], t[j], lex, E[j - 1])
        BY EnteredSteps
      <3> HIDE DEF E, M
      <3> QED BY <2>2, <3>1
    <2> HIDE DEF i, r, u, M, E, R
    <2>6. /\ u.token = IF t[i] = "word" /\ M[i - 1].in \in InCode THEN {i} ELSE {}
          /\ u.execs = E[i] /\ u.execs \in Nat
          /\ EndsBefore(t, M, lex, i, u.to)
      <3>1. /\ u.token = IF t[i] = "word" /\ M[i - 1].in \in InCode THEN {i} ELSE {}
            /\ u.execs = Enters(M[i - 1], t[i], lex, s.execs)
            /\ EndsBefore(t, M, lex, i, u.to)
        BY <2>3 DEF UnitRight
      <3>2. Enters(M[i - 1], t[i], lex, s.execs) \in Nat
        BY <2>2 DEF Enters
      <3> QED BY <2>2, <2>5, <3>1, <3>2
    <2>7. i \in R <=> t[i] = "word" /\ M[i - 1].in \in InCode
      BY <1>3, <1>4, <2>2
    <2>8. r.words = {j \in R : j < i + 1}
      <3>1. \A j \in R : j < i + 1 <=> j < i \/ j = i
        BY <1>3, <2>2
      <3>2. u.token = IF i \in R THEN {i} ELSE {}
        BY <2>6, <2>7
      <3> QED BY <2>2, <2>4, <3>1, <3>2
    <2>9. \A j \in R : j \notin Skipped(t, M)
      BY <1>1, <1>3 DEF Skipped
    <2>10. CASE u.to = 0
      <3>1. i + 1..N \subseteq Skipped(t, M) /\ M[N].in \notin InCode \cup {"line"}
        BY <2>6, <2>10 DEF EndsBefore
      <3>2. \A j \in R : j < i + 1
        <4> SUFFICES ASSUME NEW j \in R, ~(j < i + 1) PROVE FALSE
          OBVIOUS
        <4>1. j \in i + 1..N
          BY <1>1, <1>3, <2>2
        <4> QED BY <2>9, <3>1, <4>1
      <3>3. r.words = R
        BY <2>8, <3>2
      <3>4. ScanRight(t, lex, st, r, n)
        BY <2>4, <2>10, <3>1, <3>3 DEF ScanRight, M, R
      <3> QED BY <2>1, <3>4
    <2>11. CASE u.to # 0
      <3> DEFINE p == u.to
      <3>1. p \in i + 1..N + 1 /\ i + 1..p - 1 \subseteq Skipped(t, M) /\ Ready(t, M, lex, p)
        BY <2>6, <2>11 DEF EndsBefore
      <3> HIDE DEF p
      <3>2. \A j \in R : j < p <=> j < i + 1
        <4> SUFFICES ASSUME NEW j \in R PROVE j < p <=> j < i + 1
          OBVIOUS
        <4>1. j \in 1..N /\ ~(j \in i + 1..p - 1)
          BY <1>3, <2>9, <3>1
        <4> QED BY <2>2, <3>1, <4>1
      <3>3. E[p - 1] = E[i]
        <4>1. i \in DOMAIN t
          BY <1>1, <2>2
        <4> QED BY <3>1, <4>1, EnteredStays DEF M, E
      <3>4. r.words = {j \in R : j < p}
        BY <2>8, <3>2
      <3>5. p \in 1..N + 1 /\ (p > n \/ p = N + 1) /\ p # 0
        BY <1>1, <2>2, <3>1
      <3>6. r.at = p /\ r.execs = E[p - 1] /\ r.execs \in Nat
        BY <2>4, <2>6, <3>3 DEF p
      <3>7. ScanRight(t, lex, st, r, n)
        BY <3>1, <3>4, <3>5, <3>6 DEF ScanRight, M, R, E
      <3> QED BY <2>1, <3>7
    <2> QED BY <2>10, <2>11
  <1> QED BY <1>5, <1>6

\* At the end of a text the scan has found the words the server runs, and is unfinished exactly
\* when the server waits for more.
THEOREM ScanFindsWhatRuns ==
    ASSUME NEW t \in Seq(STRING), NEW lex, NEW b \in BOOLEAN, NEW st, TakesAs(lex, b, st)
    PROVE  /\ Scan(t, lex, b).words = Runs(t, lex, st)
           /\ Unfinished(Scan(t, lex, b)) <=> Waits(t, lex, st)
  <1> DEFINE N == Len(t)
             S == Scans(t, lex, b)
             P == {n \in 0..N : ScanRight(t, lex, st, S[n], n)}
  <1>1. N \in Nat
    OBVIOUS
  <1>2. S[0] = Begun /\ \A n \in 1..N : S[n] = Scanned(t, S[n - 1], lex, b)
    BY <1>1, ScansSteps
  <1> HIDE DEF S
  <1>3. 0 \in P
    <2>1. Begun.at = 1 /\ Begun.execs = 0 /\ Begun.words = {}
      BY DEF Begun
    <2>2. Server(t, lex, st)[0] = Code /\ Entered(t, lex, st)[0] = 0
      BY <1>1, ServerSteps, EnteredSteps
    <2>3. Code.in = "code" /\ Code.was = ""
      BY DEF Code
    <2>4. Ready(t, Server(t, lex, st), lex, 1)
      <3>1. CASE N = 0
        <4>1. 1 = Len(t) + 1 /\ Len(t) = 0
          BY <3>1
        <4> QED BY <2>2, <2>3, <4>1 DEF Ready, InCode
      <3>2. CASE N # 0
        <4>1. 1 # N + 1 /\ 1 - 1 = 0
          BY <1>1, <3>2
        <4> QED BY <2>2, <2>3, <4>1 DEF Ready
      <3> QED BY <3>1, <3>2
    <2>5. {j \in Runs(t, lex, st) : j < 1} = {}
      BY DEF Runs
    <2>6. 1 - 1 = 0 /\ 1 \in 1..N + 1 /\ 1 > 0 /\ 1 # 0
      BY <1>1
    <2>7. ScanRight(t, lex, st, Begun, 0)
      BY <2>1, <2>2, <2>4, <2>5, <2>6 DEF ScanRight
    <2> QED BY <1>1, <1>2, <2>7
  <1>4. ASSUME NEW n \in 1..N, n - 1 \in P PROVE n \in P
    <2>1. ScanRight(t, lex, st, S[n - 1], n - 1)
      BY <1>4
    <2>2. ScanRight(t, lex, st, Scanned(t, S[n - 1], lex, b), n)
      BY <2>1, ScanGoesOn
    <2> QED BY <1>1, <1>2, <2>2
  <1>5. N \in P
    <2> HIDE DEF P, N
    <2>1. \A n \in 1..N : n - 1 \in P => n \in P
      BY <1>4
    <2>2. 0..N \subseteq P
      BY <1>1, <1>3, <2>1, ScanUp
    <2> QED BY <1>1, <2>2
  <1>6. Scan(t, lex, b) = S[N] /\ ScanRight(t, lex, st, S[N], N)
    BY <1>5 DEF Scan, S
  <1> DEFINE s == S[N]
  <1>7. CASE s.at = 0
    BY <1>6, <1>7 DEF ScanRight, Unfinished, Waits
  <1>8. CASE s.at # 0
    <2>1. /\ s.at = N + 1 /\ s.words = {j \in Runs(t, lex, st) : j < s.at} /\ s.execs = Entered(t, lex, st)[s.at - 1]
          /\ Ready(t, Server(t, lex, st), lex, s.at)
      BY <1>1, <1>6, <1>8 DEF ScanRight
    <2>2. \A j \in Runs(t, lex, st) : j < N + 1
      BY DEF Runs
    <2>3. s.at - 1 = N
      BY <1>1, <2>1
    <2>4. Server(t, lex, st)[N].in \in InCode \cup {"line"}
      BY <2>1 DEF Ready
    <2>5. s.words = Runs(t, lex, st)
      BY <2>1, <2>2
    <2>6. s.execs = Entered(t, lex, st)[N]
      BY <2>1, <2>3
    <2> HIDE DEF s
    <2> QED BY <1>6, <1>8, <2>4, <2>5, <2>6 DEF Unfinished, Waits, s
  <1> QED BY <1>7, <1>8

---------------------------------------------------------------------------
(* Two readings of a text without a backslash are one.                      *)

\* They differ only in what would escape.
Alike(m, n) == /\ m.in = n.in /\ m.q = n.q /\ m.depth = n.depth /\ m.was = n.was
               /\ m.esc \subseteq {"escape"} /\ n.esc \subseteq {"escape"} /\ m.in # "escaped"

\* What is opened depends on the setting in its escapes alone.
LEMMA OpensAlike ==
    ASSUME NEW m, NEW n, m.was = n.was, NEW c, NEW lex, NEW b, NEW d
    PROVE  Alike(Opens(m, c, lex, b), Opens(n, c, lex, d))
  <1>2. \A x : Escapes(x) \subseteq {"escape"}
    BY DEF Escapes
  <1>3. ASSUME NEW e, NEW x, NEW y
        PROVE  Alike([Code EXCEPT !.in = "quoted", !.q = e, !.esc = Escapes(x)],
                     [Code EXCEPT !.in = "quoted", !.q = e, !.esc = Escapes(y)])
    <2> DEFINE u == Escapes(x)
               v == Escapes(y)
    <2>1. u \subseteq {"escape"} /\ v \subseteq {"escape"}
      BY <1>2
    <2> HIDE DEF u, v
    <2>2. Alike([Code EXCEPT !.in = "quoted", !.q = e, !.esc = u],
                [Code EXCEPT !.in = "quoted", !.q = e, !.esc = v])
      BY <2>1 DEF Alike, Code
    <2> QED BY <2>2 DEF u, v
  <1>4. /\ \A x : Alike([Code EXCEPT !.was = x], [Code EXCEPT !.was = x])
        /\ Alike([Code EXCEPT !.in = "line"], [Code EXCEPT !.in = "line"])
        /\ Alike([Code EXCEPT !.in = "dollar"], [Code EXCEPT !.in = "dollar"])
        /\ Alike([Code EXCEPT !.in = "comment", !.depth = 1], [Code EXCEPT !.in = "comment", !.depth = 1])
    BY DEF Alike, Code
  <1> HIDE DEF Alike
  <1> QED BY <1>3, <1>4 DEF Opens

\* A unit that is no backslash keeps the two readings alike.
LEMMA ReadsAlike ==
    ASSUME NEW m, NEW n, Shaped(m), Shaped(n), Alike(m, n), NEW c, c # "escape", NEW lex, NEW b, NEW d
    PROVE  Alike(Reads(m, c, lex, b), Reads(n, c, lex, d))
  <1>1. /\ \A x, y : x.was = y.was => Alike(Opens(x, c, lex, b), Opens(y, c, lex, d))
        /\ Alike(Code, Code)
    <2>1. Alike(Code, Code)
      BY DEF Alike, Code
    <2> QED BY <2>1, OpensAlike
  <1>2. m.in \in Modes /\ m.in # "escaped" /\ m.in = n.in /\ m.was = n.was /\ c \notin m.esc /\ c \notin n.esc
    BY DEF Alike, Shaped
  <1>3. /\ Alike([m EXCEPT !.in = "quoted"], [n EXCEPT !.in = "quoted"])
        /\ Alike([m EXCEPT !.in = "closed"], [n EXCEPT !.in = "closed"])
        /\ \A x : Alike([m EXCEPT !.depth = x], [n EXCEPT !.depth = x])
    BY DEF Alike, Shaped
  <1>4. m.q = n.q /\ m.depth = n.depth
    BY DEF Alike
  <1>5. CASE m.in = "code" \/ (m.in = "closed" /\ c # m.q)
    BY <1>1, <1>2, <1>4, <1>5, ReadsInside
  <1>6. CASE m.in = "line" \/ m.in = "dollar"
    BY <1>1, <1>2, <1>6 DEF Reads
  <1>7. CASE m.in = "comment"
    BY <1>1, <1>2, <1>3, <1>4, <1>7 DEF Reads
  <1>8. CASE m.in = "quoted" \/ (m.in = "closed" /\ c = m.q)
    BY <1>2, <1>3, <1>4, <1>8 DEF Reads
  <1> QED BY <1>2, <1>5, <1>6, <1>7, <1>8 DEF Modes

\* Where no backslash stands both settings run the same words.
LEMMA NothingEscapes ==
    ASSUME NEW t \in Seq(STRING), \A i \in DOMAIN t : t[i] # "escape", NEW lex, NEW b, NEW d
    PROVE  Runs(t, lex, b) = Runs(t, lex, d)
  <1> DEFINE M == Server(t, lex, b)
             L == Server(t, lex, d)
             N == Len(t)
             P == {n \in 0..N : Alike(M[n], L[n])}
  <1>1. /\ M[0] = Code /\ \A j \in 1..N : M[j] = Reads(M[j - 1], t[j], lex, b)
        /\ L[0] = Code /\ \A j \in 1..N : L[j] = Reads(L[j - 1], t[j], lex, d)
    <2>1. 0 \in 0..N
      OBVIOUS
    <2> QED BY <2>1, ServerSteps, ServerNext
  <1>2. \A j \in 0..N : Shaped(M[j]) /\ Shaped(L[j])
    BY ServerState
  <1>3. N \in Nat /\ \A j \in 1..N : t[j] # "escape"
    OBVIOUS
  <1> HIDE DEF M, L, N
  <1>4. 0 \in P
    <2>1. Alike(Code, Code)
      BY DEF Alike, Code
    <2> QED BY <1>1, <1>3, <2>1
  <1>5. \A n \in 1..N : n - 1 \in P => n \in P
    <2> SUFFICES ASSUME NEW n \in 1..N, Alike(M[n - 1], L[n - 1]) PROVE Alike(M[n], L[n])
      BY <1>3
    <2>1. M[n] = Reads(M[n - 1], t[n], lex, b) /\ L[n] = Reads(L[n - 1], t[n], lex, d)
      BY <1>1
    <2>2. Shaped(M[n - 1]) /\ Shaped(L[n - 1]) /\ t[n] # "escape"
      BY <1>2, <1>3
    <2> QED BY <2>1, <2>2, ReadsAlike
  <1>6. 0..N \subseteq P
    <2> HIDE DEF P
    <2> QED BY <1>3, <1>4, <1>5, ScanUp
  <1>7. \A n \in 0..N : M[n].in = L[n].in
    BY <1>6 DEF Alike
  <1>8. \A i \in DOMAIN t : M[i - 1].in = L[i - 1].in
    BY <1>3, <1>7 DEF N
  <1> QED BY <1>8 DEF Runs, M, L

\* Settings that agree on the quotes a text has are one to it.
LEMMA SameSetting ==
    ASSUME NEW t \in Seq(STRING), NEW lex, NEW b, NEW d,
           \A i \in DOMAIN t : t[i] \in {"quote", "dquote"} => (t[i] \in b <=> t[i] \in d)
    PROVE  Runs(t, lex, b) = Runs(t, lex, d)
  <1> DEFINE M == Server(t, lex, b)
             L == Server(t, lex, d)
             N == Len(t)
             P == {n \in 0..N : M[n] = L[n]}
  <1>1. /\ M[0] = Code /\ \A j \in 1..N : M[j] = Reads(M[j - 1], t[j], lex, b)
        /\ L[0] = Code /\ \A j \in 1..N : L[j] = Reads(L[j - 1], t[j], lex, d)
    <2>1. 0 \in 0..N
      OBVIOUS
    <2> QED BY <2>1, ServerSteps, ServerNext
  <1>2. N \in Nat /\ \A j \in 1..N : t[j] \in {"quote", "dquote"} => (t[j] \in b <=> t[j] \in d)
    OBVIOUS
  <1> HIDE DEF M, L, N
  <1>3. 0 \in P
    BY <1>1, <1>2
  <1>4. \A n \in 1..N : n - 1 \in P => n \in P
    <2> SUFFICES ASSUME NEW n \in 1..N, M[n - 1] = L[n - 1] PROVE M[n] = L[n]
      BY <1>2
    <2> DEFINE c == t[n]
    <2>1. c \in {"quote", "dquote"} => (c \in b <=> c \in d)
      BY <1>2
    <2> HIDE DEF c
    <2>2. ASSUME NEW m PROVE Opens(m, c, lex, b) = Opens(m, c, lex, d)
      <3>1. /\ c = "quote" => ("quote" \in b <=> "quote" \in d)
            /\ c = "dquote" => ("dquote" \in b <=> "dquote" \in d)
        BY <2>1
      <3>2. CASE c = "quote"
        <4>1. Escapes("quote" \in b \/ (m.was = "E" /\ "estring" \in lex))
                 = Escapes("quote" \in d \/ (m.was = "E" /\ "estring" \in lex))
          BY <3>1, <3>2 DEF Escapes
        <4> QED BY <3>2, <4>1 DEF Opens
      <3>3. CASE c = "dquote"
        <4>1. Escapes("dquote" \in b) = Escapes("dquote" \in d)
          BY <3>1, <3>3 DEF Escapes
        <4> QED BY <3>3, <4>1 DEF Opens
      <3>4. CASE c \notin {"quote", "dquote"}
        BY <3>4 DEF Opens
      <3> QED BY <3>2, <3>3, <3>4
    <2>3. Reads(M[n - 1], c, lex, b) = Reads(M[n - 1], c, lex, d)
      <3> DEFINE m == M[n - 1]
      <3>1. Opens(m, c, lex, b) = Opens(m, c, lex, d) /\ Opens(Code, c, lex, b) = Opens(Code, c, lex, d)
        BY <2>2
      <3> HIDE DEF m
      <3>2. Reads(m, c, lex, b) = Reads(m, c, lex, d)
        BY <3>1, Zenon DEF Reads
      <3> QED BY <3>2 DEF m
    <2> QED BY <1>1, <2>3 DEF c
  <1>5. 0..N \subseteq P
    <2> HIDE DEF P
    <2> QED BY <1>2, <1>3, <1>4, ScanUp
  <1>6. \A i \in DOMAIN t : M[i - 1].in = L[i - 1].in
    BY <1>2, <1>5 DEF N
  <1> QED BY <1>6 DEF Runs, M, L

\* What a server runs of a text under ANSI_QUOTES, unless both kinds of quotes stand in it, it runs
\* by default or under NO_BACKSLASH_ESCAPES.
LEMMA ThirdReading ==
    ASSUME NEW t \in Seq(STRING), NEW lex, ~BothQuotes(t)
    PROVE  Runs(t, lex, {"quote"}) \in {Runs(t, lex, {"quote", "dquote"}), Runs(t, lex, {})}
  <1>1. CASE \A i \in DOMAIN t : t[i] # "dquote"
    <2>1. \A i \in DOMAIN t : t[i] \in {"quote", "dquote"} => (t[i] \in {"quote"} <=> t[i] \in {"quote", "dquote"})
      BY <1>1
    <2>2. Runs(t, lex, {"quote"}) = Runs(t, lex, {"quote", "dquote"})
      BY <2>1, SameSetting
    <2> QED BY <2>2
  <1>2. CASE \A i \in DOMAIN t : t[i] # "quote"
    <2>1. \A i \in DOMAIN t : t[i] \in {"quote", "dquote"} => (t[i] \in {"quote"} <=> t[i] \in {})
      BY <1>2
    <2>2. Runs(t, lex, {"quote"}) = Runs(t, lex, {})
      BY <2>1, SameSetting
    <2> QED BY <2>2
  <1> QED BY <1>1, <1>2 DEF BothQuotes

\* The guard of an engine refuses a text exactly when its server would run a refused word of it in
\* some setting, the third reading aside, or would wait for more of it in the default one.
THEOREM GuardsRight ==
    ASSUME NEW engine \in Engines, NEW t \in Seq(STRING)
    PROVE  LET lex == Lexicon[engine]
           IN  Guards(t, engine) <=>
                  \/ \E mode \in DOMAIN Settings[engine] :
                        /\ mode = "ansi_quotes" => ~BothQuotes(t)
                        /\ Runs(t, lex, Settings[engine][mode]) # {}
                  \/ Waits(t, lex, Settings[engine].default)
  <1> DEFINE lex == Lexicon[engine]
             modes == DOMAIN Settings[engine]
             Run(mode) == Runs(t, lex, Settings[engine][mode]) # {}
             Refused == \/ \E mode \in modes : (mode = "ansi_quotes" => ~BothQuotes(t)) /\ Run(mode)
                        \/ Waits(t, lex, Settings[engine].default)
  <1> SUFFICES Guards(t, engine) <=> Refused
    OBVIOUS
  <1>1. ASSUME NEW b \in BOOLEAN, NEW st, TakesAs(lex, b, st)
        PROVE  /\ Scan(t, lex, b).words = Runs(t, lex, st)
               /\ Unfinished(Scan(t, lex, b)) <=> Waits(t, lex, st)
    BY <1>1, ScanFindsWhatRuns
  <1>2. (\A i \in DOMAIN t : t[i] # "escape") => \A b, d : Runs(t, lex, b) = Runs(t, lex, d)
    BY NothingEscapes
  <1>3. ~BothQuotes(t) => Runs(t, lex, {"quote"}) \in {Runs(t, lex, {"quote", "dquote"}), Runs(t, lex, {})}
    BY ThirdReading
  <1>4. engine \in {"tsql", "postgres", "mysql"}
    BY DEF Engines, Lexicon
  <1> HIDE DEF lex
  <1>5. CASE engine = "mysql"
    <2>1. "backslash" \in lex /\ "estring" \notin lex
      BY <1>5 DEF lex, Lexicon
    <2>2. TakesAs(lex, TRUE, {"quote", "dquote"}) /\ TakesAs(lex, FALSE, {})
      BY <2>1 DEF TakesAs
    <2>3. /\ modes = {"default", "no_backslash_escapes", "ansi_quotes"}
          /\ Settings[engine].default = {"quote", "dquote"} /\ Settings[engine]["default"] = {"quote", "dquote"}
          /\ Settings[engine]["no_backslash_escapes"] = {} /\ Settings[engine]["ansi_quotes"] = {"quote"}
      BY <1>5 DEF Settings
    <2>4. Guards(t, engine) <=>
             \/ Unfinished(Scan(t, lex, TRUE)) \/ Scan(t, lex, TRUE).words # {}
             \/ (\E i \in DOMAIN t : t[i] = "escape") /\ Scan(t, lex, FALSE).words # {}
      BY <2>1 DEF Guards, lex
    <2>5. Guards(t, engine) <=> \/ Waits(t, lex, {"quote", "dquote"})
                               \/ Runs(t, lex, {"quote", "dquote"}) # {} \/ Runs(t, lex, {}) # {}
      BY <1>1, <1>2, <2>2, <2>4
    <2>6. Refused <=> \/ Waits(t, lex, {"quote", "dquote"})
                      \/ Runs(t, lex, {"quote", "dquote"}) # {} \/ Runs(t, lex, {}) # {}
                      \/ ~BothQuotes(t) /\ Runs(t, lex, {"quote"}) # {}
      BY <2>3
    <2> QED BY <1>3, <2>5, <2>6
  <1>6. CASE engine = "postgres"
    <2>1. "backslash" \notin lex /\ "estring" \in lex
      BY <1>6 DEF lex, Lexicon
    <2>2. TakesAs(lex, TRUE, {"quote"}) /\ TakesAs(lex, FALSE, {})
      BY <2>1 DEF TakesAs
    <2>3. /\ modes = {"default", "nonstandard_strings"} /\ Settings[engine].default = {}
          /\ Settings[engine]["default"] = {} /\ Settings[engine]["nonstandard_strings"] = {"quote"}
      BY <1>6 DEF Settings
    <2>4. Guards(t, engine) <=>
             \/ Unfinished(Scan(t, lex, FALSE)) \/ Scan(t, lex, FALSE).words # {}
             \/ (\E i \in DOMAIN t : t[i] = "escape") /\ Scan(t, lex, TRUE).words # {}
      <3>1. ("backslash" \in lex) = FALSE /\ ("backslash" \notin lex) = TRUE
        BY <2>1
      <3> QED BY <2>1, <3>1 DEF Guards, lex
    <2>5. Guards(t, engine) <=> Waits(t, lex, {}) \/ Runs(t, lex, {}) # {} \/ Runs(t, lex, {"quote"}) # {}
      BY <1>1, <1>2, <2>2, <2>4
    <2>6. Refused <=> Waits(t, lex, {}) \/ Runs(t, lex, {}) # {} \/ Runs(t, lex, {"quote"}) # {}
      BY <2>3
    <2> QED BY <2>5, <2>6
  <1>7. CASE engine = "tsql"
    <2>1. "backslash" \notin lex /\ "estring" \notin lex
      BY <1>7 DEF lex, Lexicon
    <2>2. TakesAs(lex, FALSE, {})
      BY DEF TakesAs
    <2>3. modes = {"default"} /\ Settings[engine].default = {} /\ Settings[engine]["default"] = {}
      BY <1>7 DEF Settings
    <2>4. Guards(t, engine) <=> Unfinished(Scan(t, lex, FALSE)) \/ Scan(t, lex, FALSE).words # {}
      <3>1. ("backslash" \in lex) = FALSE /\ lex \cap {"backslash", "estring"} = {}
        BY <2>1
      <3> QED BY <3>1 DEF Guards, lex
    <2>5. Guards(t, engine) <=> Waits(t, lex, {}) \/ Runs(t, lex, {}) # {}
      BY <1>1, <2>2, <2>4
    <2>6. Refused <=> Waits(t, lex, {}) \/ Runs(t, lex, {}) # {}
      BY <2>3
    <2> QED BY <2>5, <2>6
  <1> QED BY <1>4, <1>5, <1>6, <1>7

\* So do the guards at every text they are asked about.
THEOREM ScanAsServers == ScanSpec => []GuardReadsAsServers
  <1>1. ScanInit => GuardReadsAsServers
    <2> SUFFICES ASSUME ScanInit PROVE GuardReadsAsServers
      OBVIOUS
    <2>1. PICK e \in Engines : scanned \in [engine : {e}, text : ScanTexts[e]]
      BY DEF ScanInit
    <2>2. scanned.engine = e /\ scanned.text \in Seq(STRING)
      BY <2>1, TextsAssumption
    <2> QED BY <2>2, GuardsRight DEF GuardReadsAsServers
  <1>2. GuardReadsAsServers /\ [ScanNext]_scanned => GuardReadsAsServers'
    BY DEF ScanNext, GuardReadsAsServers
  <1> QED BY <1>1, <1>2, PTL DEF ScanSpec
---------------------------------------------------------------------------
(* What the recursive functions satisfy.                                   *)

\* The tokens of a query, and of a batch.
AWord == {"WITH", "name", "AS", "(", ")", Comma, "SELECT", "DELETE", "INTO", "FOR", "UPDATE", "set_config",
    "COPY", "FROM",
          "#temp", "INSERT", "CREATE", "TABLE", "DROP", "ALTER", "COLUMN", "EXEC", "@var", "sp_rename", "literal",
          "VACUUM", "FULL", "PREPARE", "SET", "=", "OUTPUT", "EXPLAIN", "ANALYZE", Semicolon}
AToken == [w : AWord, d : Nat]

\* A parenthesis closes behind itself.
LEMMA ClosesBehind ==
    ASSUME NEW t, Len(t) \in Nat, NEW i \in 1..Len(t)
    PROVE  Closing(t, i) \in i + 1..Len(t) + 1
  <1> DEFINE E == {j \in (i + 1)..Len(t) : t[j].w = ")" /\ t[j].d = t[i].d}
  <1>1. CASE E = {}
    BY <1>1 DEF Closing
  <1>2. CASE E # {}
    <2>1. \E j \in E : \A k \in E : j <= k
      <3>1. E \in SUBSET Nat
        OBVIOUS
      <3> HIDE DEF E
      <3>2. PICK j \in E : \A k \in E : ~(<<k, j>> \in OpToRel(<, Nat))
        BY <1>2, <3>1, NatLessThanWellFounded, WFMin
      <3>3. \A k \in E : ~(k < j) /\ k \in Nat /\ j \in Nat
        BY <3>1, <3>2 DEF OpToRel
      <3>4. \A k \in E : j <= k
        BY <3>3
      <3> QED BY <3>4
    <2>2. Closing(t, i) = CHOOSE j \in E : \A k \in E : j <= k
      BY <1>2 DEF Closing
    <2> HIDE DEF E
    <2>3. Closing(t, i) \in E
      BY <2>1, <2>2
    <2> QED BY <2>3 DEF E
  <1> QED BY <1>1, <1>2

\* It closes at the first that fits.
LEMMA ClosesFirst ==
    ASSUME NEW t, Len(t) \in Nat, NEW i \in 1..Len(t), NEW p \in i + 1..Len(t), t[p].w = ")", t[p].d = t[i].d,
           \A j \in i + 1..p - 1 : t[j].w # ")"
    PROVE  Closing(t, i) = p
  <1> DEFINE E == {j \in (i + 1)..Len(t) : t[j].w = ")" /\ t[j].d = t[i].d}
  <1>1. p \in E
    OBVIOUS
  <1>2. \A k \in E : p <= k /\ k \in Nat
    OBVIOUS
  <1>3. p \in Nat
    OBVIOUS
  <1>4. Closing(t, i) = CHOOSE j \in E : \A k \in E : j <= k
    BY <1>1 DEF Closing
  <1> HIDE DEF E
  <1>5. \A j \in E : (\A k \in E : j <= k) => j = p
    <2> SUFFICES ASSUME NEW j \in E, \A k \in E : j <= k PROVE j = p
      OBVIOUS
    <2>1. j <= p /\ p <= j /\ j \in Nat
      BY <1>1, <1>2
    <2> QED BY <2>1, <1>3
  <1> QED BY <1>1, <1>2, <1>4, <1>5

\* What is refused at a place depends on what is refused behind it.
LEMMA RefusedBehind ==
    ASSUME NEW t, Len(t) \in Nat, NEW i \in 1..Len(t), NEW f, NEW g, \A j \in i + 1..Len(t) + 1 : f[j] = g[j]
    PROVE  /\ QueryRefused(t, i, f) <=> QueryRefused(t, i, g)
           /\ ListRefused(t, i, f) <=> ListRefused(t, i, g)
  <1>1. i + 1 \in i + 1..Len(t) + 1
    OBVIOUS
  <1>2. QueryRefused(t, i, f) <=> QueryRefused(t, i, g)
    BY <1>1 DEF QueryRefused
  <1> DEFINE columns == IF W(t, i + 1) = "(" THEN Closing(t, i + 1) + 1 ELSE i + 1
             body == IF W(t, columns + 1) = "MATERIALIZED" THEN columns + 2 ELSE columns + 1
             after == Closing(t, body) + 1
  <1>3. columns \in Nat /\ columns > i
    <2>1. CASE W(t, i + 1) = "("
      <3>1. i + 1 \in 1..Len(t)
        BY <2>1 DEF W
      <3> QED BY <2>1, <3>1, ClosesBehind
    <2>2. CASE W(t, i + 1) # "("
      BY <2>2
    <2> QED BY <2>1, <2>2
  <1> HIDE DEF columns
  <1>4. body \in Nat /\ body > i + 1
    BY <1>3
  <1> HIDE DEF body
  <1>5. body <= Len(t) => after \in Nat /\ after > i + 1 /\ body + 1 \in i + 1..Len(t) + 1
    <2> SUFFICES ASSUME body <= Len(t) PROVE after \in Nat /\ after > i + 1 /\ body + 1 \in i + 1..Len(t) + 1
      OBVIOUS
    <2>1. body \in 1..Len(t)
      BY <1>4
    <2>2. Closing(t, body) \in body + 1..Len(t) + 1
      BY <2>1, ClosesBehind
    <2> QED BY <1>4, <2>2
  <1> HIDE DEF after
  <1>6. body <= Len(t) /\ after <= Len(t) => after \in i + 1..Len(t) + 1 /\ after + 1 \in i + 1..Len(t) + 1
    BY <1>5
  <1>7. \A h : ListRefused(t, i, h) <=>
                 \/ ~IsName(t, i)
                 \/ /\ columns <= Len(t)
                    /\ \/ W(t, columns) # "AS"
                       \/ /\ body <= Len(t)
                          /\ \/ W(t, body) # "("
                             \/ "query" \in h[body + 1]
                             \/ /\ after <= Len(t)
                                /\ IF W(t, after) = Comma THEN "list" \in h[after + 1] ELSE "query" \in h[after]
    BY DEF ListRefused, columns, body, after
  <1>8. ListRefused(t, i, f) <=> ListRefused(t, i, g)
    BY <1>5, <1>6, <1>7
  <1> QED BY <1>2, <1>8

\* One place's refusals.
At1(t, i, f) == {what \in {"query", "list"} : /\ i <= Len(t)
                                              /\ what = "query" => QueryRefused(t, i, f)
                                              /\ what = "list" => ListRefused(t, i, f)}

\* What the refusals of a text satisfy at each place.
LEMMA RefusalsSteps ==
    ASSUME NEW t, Len(t) \in Nat
    PROVE  Refusals(t) = [i \in 1..Len(t) + 1 |-> At1(t, i, Refusals(t))]
  <1> DEFINE N == Len(t) + 1
             P == {k \in 0..N : k = 0 \/ \E f : f = [i \in k..N |-> At1(t, i, f)]}
  <1>1. N \in Nat /\ N - 1 = Len(t)
    OBVIOUS
  <1>2. N \in P
    <2> DEFINE f == [i \in N..N |-> {}]
    <2>1. f = [i \in N..N |-> At1(t, i, f)]
      <3>1. \A h : \A i \in N..N : At1(t, i, h) = {}
        BY DEF At1
      <3> HIDE DEF f
      <3>2. f = [i \in N..N |-> {}]
        BY DEF f
      <3> QED BY <3>1, <3>2
    <2> HIDE DEF f
    <2>2. \E h : h = [i \in N..N |-> At1(t, i, h)]
      BY <2>1
    <2> QED BY <1>1, <2>2
  <1>3. ASSUME NEW k \in 0..N - 1, k + 1 \in P PROVE k \in P
    <2>0. CASE k = 0
      BY <1>1, <2>0
    <2>1. CASE k # 0
      <3>1. PICK g : g = [i \in k + 1..N |-> At1(t, i, g)]
        BY <1>3
      <3> DEFINE f == [i \in k..N |-> IF i = k THEN At1(t, k, g) ELSE g[i]]
      <3>2. \A i \in k + 1..N : f[i] = g[i]
        BY <2>1
      <3>3. f[k] = At1(t, k, g) /\ DOMAIN f = k..N /\ f = [i \in k..N |-> f[i]]
        BY <1>1
      <3> HIDE DEF f
      <3>4. \A i \in k..N : At1(t, i, f) = At1(t, i, g)
        <4> SUFFICES ASSUME NEW i \in k..N PROVE At1(t, i, f) = At1(t, i, g)
          OBVIOUS
        <4>1. CASE i = N
          BY <4>1, <1>1 DEF At1
        <4>2. CASE i # N
          <5>1. i \in 1..Len(t) /\ \A j \in i + 1..Len(t) + 1 : f[j] = g[j]
            BY <1>1, <2>1, <4>2, <3>2
          <5>2. /\ QueryRefused(t, i, f) <=> QueryRefused(t, i, g)
                /\ ListRefused(t, i, f) <=> ListRefused(t, i, g)
            BY <5>1, RefusedBehind
          <5> QED BY <5>2 DEF At1
        <4> QED BY <4>1, <4>2
      <3>5. \A i \in k..N : f[i] = At1(t, i, f)
        <4> SUFFICES ASSUME NEW i \in k..N PROVE f[i] = At1(t, i, f)
          OBVIOUS
        <4>1. CASE i = k
          BY <3>3, <3>4, <4>1
        <4>2. CASE i # k
          <5>1. i \in k + 1..N
            BY <4>2
          <5> QED BY <3>1, <3>2, <3>4, <5>1
        <4> QED BY <4>1, <4>2
      <3>6. f = [i \in k..N |-> At1(t, i, f)]
        BY <3>3, <3>5
      <3> QED BY <1>1, <3>6
    <2> QED BY <2>0, <2>1
  <1>4. 1 \in P
    <2> HIDE DEF P, N
    <2>1. \A k \in 0..N - 1 : k + 1 \in P => k \in P
      BY <1>3
    <2>2. 0..N \subseteq P
      BY <1>1, <1>2, <2>1, ScanDown
    <2>3. 1 \in 0..N
      BY <1>1 DEF N
    <2> QED BY <2>2, <2>3
  <1>5. \E f : f = [i \in 1..N |-> At1(t, i, f)]
    BY <1>4
  <1> QED BY <1>5 DEF Refusals, At1

---------------------------------------------------------------------------
(* A list of texts, one after the other.                                    *)

\* Two texts, one after the other.
LEMMA Joined ==
    ASSUME NEW S, NEW a \in Seq(S), NEW b \in Seq(S)
    PROVE  /\ a \o b \in Seq(S) /\ Len(a \o b) = Len(a) + Len(b) /\ Len(a) \in Nat /\ Len(b) \in Nat
           /\ \A j \in 1..Len(a) : (a \o b)[j] = a[j]
           /\ \A j \in 1..Len(b) : (a \o b)[Len(a) + j] = b[j]
  OBVIOUS

\* What flattens a list, piece by piece.
Grown(ss, i, f) == IF i = 1 THEN ss[i] ELSE f[i - 1] \o ss[i]

\* What a flattened sequence grows by.
LEMMA FlattensSteps ==
    ASSUME NEW ss, Len(ss) \in Nat, Len(ss) > 0
    PROVE  \E f : /\ f = [i \in 1..Len(ss) |-> Grown(ss, i, f)]
                  /\ FlattenSeq(ss) = f[Len(ss)]
  <1> DEFINE N == Len(ss)
             P == {k \in 0..N : k = 0 \/ \E f : f = [i \in 1..k |-> Grown(ss, i, f)]}
  <1>1. N \in Nat /\ N > 0
    OBVIOUS
  <1>2. 0 \in P
    BY <1>1
  <1>3. ASSUME NEW k \in 1..N, k - 1 \in P PROVE k \in P
    <2>1. CASE k = 1
      <3> DEFINE f == [i \in 1..1 |-> ss[1]]
      <3>1. f = [i \in 1..1 |-> Grown(ss, i, f)]
        BY DEF Grown
      <3> HIDE DEF f
      <3>2. \E h : h = [i \in 1..1 |-> Grown(ss, i, h)]
        BY <3>1
      <3> QED BY <2>1, <3>2
    <2>2. CASE k # 1
      <3>1. PICK g : g = [i \in 1..k - 1 |-> Grown(ss, i, g)]
        BY <1>3, <2>2
      <3> DEFINE v == g[k - 1] \o ss[k]
                 f == [i \in 1..k |-> IF i = k THEN v ELSE g[i]]
      <3> HIDE DEF v
      <3>2. \A i \in 1..k - 1 : f[i] = g[i]
        BY <2>2
      <3>3. f[k] = v /\ f = [i \in 1..k |-> f[i]]
        OBVIOUS
      <3> HIDE DEF f
      <3>4. \A i \in 1..k : f[i] = Grown(ss, i, f)
        <4> SUFFICES ASSUME NEW i \in 1..k PROVE f[i] = Grown(ss, i, f)
          OBVIOUS
        <4>1. CASE i = k
          <5>1. k - 1 \in 1..k - 1
            BY <2>2
          <5>2. f[k - 1] = g[k - 1]
            BY <3>2, <5>1
          <5> QED BY <2>2, <3>3, <4>1, <5>2 DEF Grown, v
        <4>2. CASE i # k
          <5>1. i \in 1..k - 1 /\ (i # 1 => i - 1 \in 1..k - 1)
            BY <4>2
          <5>2. f[i] = g[i] /\ (i # 1 => f[i - 1] = g[i - 1])
            BY <3>2, <5>1
          <5>3. g[i] = Grown(ss, i, g)
            BY <3>1, <5>1
          <5> QED BY <5>2, <5>3 DEF Grown
        <4> QED BY <4>1, <4>2
      <3>5. f = [i \in 1..k |-> Grown(ss, i, f)]
        BY <3>3, <3>4
      <3> QED BY <1>1, <3>5
    <2> QED BY <2>1, <2>2
  <1>4. N \in P
    <2> HIDE DEF P, N
    <2>1. \A k \in 1..N : k - 1 \in P => k \in P
      BY <1>3
    <2>2. 0..N \subseteq P
      BY <1>1, <1>2, <2>1, ScanUp
    <2> QED BY <1>1, <2>2
  <1>5. \E f : f = [i \in 1..N |-> Grown(ss, i, f)]
    BY <1>1, <1>4
  <1> DEFINE f == CHOOSE f : f = [i \in 1..N |-> Grown(ss, i, f)]
  <1>6. f = [i \in 1..N |-> Grown(ss, i, f)]
    BY <1>5
  <1>7. FlattenSeq(ss) = f[N]
    BY <1>1 DEF FlattenSeq, Grown
  <1> HIDE DEF f
  <1> QED BY <1>6, <1>7

\* Where each piece is in the whole: o[k] is the end of the k-th.
Laid(ss, t, o) ==
    /\ o \in [0..Len(ss) -> Nat] /\ o[0] = 0 /\ Len(t) = o[Len(ss)]
    /\ \A k \in 1..Len(ss) : /\ o[k] = o[k - 1] + Len(ss[k]) /\ o[k] <= Len(t)
                             /\ \A j \in 1..Len(ss[k]) : t[o[k - 1] + j] = ss[k][j]

\* The sequences that are flattened lie one behind the other.
LEMMA Flattens ==
    ASSUME NEW S, NEW ss \in Seq(Seq(S))
    PROVE  FlattenSeq(ss) \in Seq(S) /\ \E o : Laid(ss, FlattenSeq(ss), o)
  <1> DEFINE N == Len(ss)
  <1>1. N \in Nat /\ \A k \in 1..N : ss[k] \in Seq(S)
    OBVIOUS
  <1>2. CASE N = 0
    <2>1. ss = <<>> /\ FlattenSeq(ss) = <<>>
      BY <1>2 DEF FlattenSeq
    <2>2. Laid(ss, <<>>, [k \in 0..0 |-> 0])
      BY <2>1 DEF Laid
    <2> QED BY <2>1, <2>2
  <1>3. CASE N > 0
    <2>0. PICK f : /\ f = [i \in 1..N |-> Grown(ss, i, f)]
                   /\ FlattenSeq(ss) = f[N]
      BY <1>1, <1>3, FlattensSteps
    <2>1. /\ \A i \in 1..N : f[i] = IF i = 1 THEN ss[i] ELSE f[i - 1] \o ss[i]
          /\ FlattenSeq(ss) = f[N]
      BY <2>0 DEF Grown
    <2> DEFINE L(k, o) == /\ o \in [0..k -> Nat] /\ o[0] = 0 /\ Len(f[k]) = o[k]
                          /\ \A m \in 1..k : /\ o[m] = o[m - 1] + Len(ss[m]) /\ o[m] <= Len(f[k])
                                             /\ \A j \in 1..Len(ss[m]) : f[k][o[m - 1] + j] = ss[m][j]
               P == {k \in 0..N : k = 0 \/ (f[k] \in Seq(S) /\ \E o : L(k, o))}
    <2> HIDE DEF L
    <2>2. 0 \in P
      BY <1>1
    <2>3. ASSUME NEW k \in 1..N, k - 1 \in P PROVE k \in P
      <3>1. CASE k = 1
        <4>1. f[1] = ss[1] /\ ss[1] \in Seq(S)
          BY <1>1, <2>1, <3>1
        <4> DEFINE o == [m \in 0..1 |-> IF m = 0 THEN 0 ELSE Len(ss[1])]
        <4>2. o \in [0..1 -> Nat] /\ o[0] = 0 /\ o[1] = Len(ss[1]) /\ Len(ss[1]) \in Nat
          BY <4>1
        <4> HIDE DEF o
        <4>3. \A m \in 1..1 : m = 1 /\ m - 1 = 0
          OBVIOUS
        <4>4. L(1, o)
          BY <4>1, <4>2, <4>3 DEF L
        <4> QED BY <3>1, <4>1, <4>4
      <3>2. CASE k # 1
        <4>1. f[k - 1] \in Seq(S) /\ k - 1 \in 1..N /\ \E o : L(k - 1, o)
          BY <2>3, <3>2
        <4>2. PICK o : L(k - 1, o)
          BY <4>1
        <4>3. f[k] = f[k - 1] \o ss[k] /\ ss[k] \in Seq(S)
          BY <1>1, <2>1, <3>2
        <4> DEFINE a == f[k - 1]
                   b == ss[k]
        <4>4. /\ f[k] \in Seq(S) /\ Len(f[k]) = Len(a) + Len(b) /\ Len(a) \in Nat /\ Len(b) \in Nat
              /\ \A j \in 1..Len(a) : f[k][j] = a[j]
              /\ \A j \in 1..Len(b) : f[k][Len(a) + j] = b[j]
          <5>1. a \in Seq(S) /\ b \in Seq(S) /\ f[k] = a \o b
            BY <4>1, <4>3
          <5> HIDE DEF a, b
          <5> QED BY <5>1, Joined
        <4> DEFINE r == [m \in 0..k |-> IF m = k THEN Len(f[k]) ELSE o[m]]
        <4>5. r \in [0..k -> Nat] /\ r[k] = Len(f[k]) /\ \A m \in 0..k - 1 : r[m] = o[m]
          BY <4>2, <4>4 DEF L
        <4> HIDE DEF r
        <4>6. /\ o \in [0..k - 1 -> Nat] /\ o[0] = 0 /\ Len(a) = o[k - 1]
              /\ \A m \in 1..k - 1 : /\ o[m] = o[m - 1] + Len(ss[m]) /\ o[m] <= Len(a)
                                     /\ \A j \in 1..Len(ss[m]) : a[o[m - 1] + j] = ss[m][j]
          BY <4>2 DEF L
        <4> HIDE DEF a, b
        <4>7. ASSUME NEW m \in 1..k
              PROVE  /\ r[m] = r[m - 1] + Len(ss[m]) /\ r[m] <= Len(f[k])
                     /\ \A j \in 1..Len(ss[m]) : f[k][r[m - 1] + j] = ss[m][j]
          <5>1. CASE m = k
            <6>1. r[m] = Len(f[k]) /\ r[m - 1] = Len(a) /\ ss[m] = b
              BY <4>5, <4>6, <5>1 DEF b
            <6> QED BY <4>4, <6>1
          <5>2. CASE m # k
            <6>1. m \in 1..k - 1 /\ m - 1 \in 0..k - 1
              BY <5>2
            <6>2. r[m] = o[m] /\ r[m - 1] = o[m - 1] /\ o[m - 1] \in Nat /\ Len(ss[m]) \in Nat
              <7>1. r[m] = o[m] /\ r[m - 1] = o[m - 1] /\ o[m - 1] \in Nat
                BY <4>5, <4>6, <6>1
              <7>2. Len(ss[m]) \in Nat
                <8>1. m \in 1..N
                  BY <1>1, <6>1
                <8> QED BY <1>1, <8>1
              <7> QED BY <7>1, <7>2
            <6>3. \A j \in 1..Len(ss[m]) : f[k][o[m - 1] + j] = ss[m][j]
              <7> SUFFICES ASSUME NEW j \in 1..Len(ss[m]) PROVE f[k][o[m - 1] + j] = ss[m][j]
                OBVIOUS
              <7>1. o[m - 1] + j <= o[m] /\ o[m] <= Len(a) /\ o[m - 1] + j >= 1 /\ o[m - 1] + j \in Int
                <8>1. o[m] = o[m - 1] + Len(ss[m]) /\ o[m] <= Len(a)
                  BY <4>6, <6>1
                <8> QED BY <6>2, <8>1
              <7>2. o[m - 1] + j \in 1..Len(a)
                <8>1. Len(a) \in Nat
                  BY <4>4
                <8>2. o[m - 1] + j \in Int /\ o[m - 1] + j >= 1 /\ o[m - 1] + j <= Len(a)
                  <9>1. o[m] \in Nat
                    BY <4>6, <6>1
                  <9> QED BY <7>1, <8>1, <9>1, SMTT(60)
                <8> QED BY <8>1, <8>2, SMTT(60)
              <7> QED BY <4>4, <4>6, <6>1, <7>2
            <6>4. r[m] <= Len(f[k])
              <7>1. o[m] <= Len(a) /\ o[m] \in Nat
                BY <4>6, <6>1
              <7>2. Len(f[k]) = Len(a) + Len(b) /\ Len(a) \in Nat /\ Len(b) \in Nat
                BY <4>4
              <7> QED BY <6>2, <7>1, <7>2
            <6> QED BY <4>6, <6>1, <6>2, <6>3, <6>4
          <5> QED BY <5>1, <5>2
        <4>8. r[0] = 0
          BY <4>5, <4>6
        <4>9. L(k, r)
          BY <4>5, <4>7, <4>8 DEF L
        <4> QED BY <4>4, <4>9
      <3> QED BY <3>1, <3>2
    <2>4. N \in P
      <3> HIDE DEF P, N
      <3>1. \A k \in 1..N : k - 1 \in P => k \in P
        BY <2>3
      <3>2. 0..N \subseteq P
        BY <1>1, <2>2, <3>1, ScanUp
      <3> QED BY <1>1, <3>2
    <2>5. f[N] \in Seq(S) /\ \E o : L(N, o)
      BY <1>3, <2>4
    <2> QED BY <2>1, <2>5, SMTT(60) DEF Laid, L
  <1> QED BY <1>1, <1>2, <1>3

\* Every place of the whole is in one of the pieces.
LEMMA LaidSomewhere ==
    ASSUME NEW ss, Len(ss) \in Nat, NEW t, NEW o, Laid(ss, t, o), \A k \in 1..Len(ss) : Len(ss[k]) \in Nat,
           NEW i \in 1..Len(t)
    PROVE  \E k \in 1..Len(ss) : \E j \in 1..Len(ss[k]) : i = o[k - 1] + j
  <1> DEFINE N == Len(ss)
             P == {k \in 0..N : \A m \in 1..o[k] : \E h \in 1..N : \E j \in 1..Len(ss[h]) : m = o[h - 1] + j}
  <1>1. /\ o \in [0..N -> Nat] /\ o[0] = 0 /\ Len(t) = o[N] /\ N \in Nat
        /\ \A k \in 1..N : o[k] = o[k - 1] + Len(ss[k])
    BY DEF Laid
  <1> HIDE DEF N
  <1>2. 0 \in P
    BY <1>1
  <1>3. ASSUME NEW k \in 1..N, k - 1 \in P PROVE k \in P
    <2> SUFFICES ASSUME NEW m \in 1..o[k] PROVE \E h \in 1..N : \E j \in 1..Len(ss[h]) : m = o[h - 1] + j
      BY <1>1
    <2>1. k - 1 \in 0..N /\ o[k - 1] \in Nat /\ o[k] = o[k - 1] + Len(ss[k]) /\ Len(ss[k]) \in Nat
      <3>1. k - 1 \in 0..N
        BY <1>1
      <3>2. o[k - 1] \in Nat /\ o[k] = o[k - 1] + Len(ss[k])
        BY <1>1, <3>1
      <3>3. Len(ss[k]) \in Nat
        BY DEF N
      <3> QED BY <3>1, <3>2, <3>3
    <2>2. CASE m <= o[k - 1]
      <3>1. m \in 1..o[k - 1]
        BY <2>1, <2>2
      <3> QED BY <1>3, <3>1
    <2>3. CASE m > o[k - 1]
      <3>1. m - o[k - 1] \in 1..Len(ss[k]) /\ m = o[k - 1] + (m - o[k - 1])
        BY <2>1, <2>3
      <3> QED BY <3>1
    <2> QED BY <2>1, <2>2, <2>3
  <1>4. N \in P
    <2> HIDE DEF P
    <2>1. \A k \in 1..N : k - 1 \in P => k \in P
      BY <1>3
    <2>2. 0..N \subseteq P
      BY <1>1, <1>2, <2>1, ScanUp
    <2> QED BY <1>1, <2>2
  <1> QED BY <1>1, <1>4 DEF N

---------------------------------------------------------------------------
(* How a query is written down.                                             *)

\* A text that stands in another, behind the first b tokens.
Stands(t, b, s) == b \in Nat /\ b + Len(s) <= Len(t) /\ \A j \in 1..Len(s) : t[b + j] = s[j]

\* What stands in a text that stands in another stands in that one.
LEMMA StandsIn ==
    ASSUME NEW t, NEW b, NEW s, NEW c, NEW r, Len(t) \in Nat, Len(s) \in Nat, Len(r) \in Nat,
           Stands(t, b, s), Stands(s, c, r)
    PROVE  Stands(t, b + c, r)
  <1>1. b \in Nat /\ c \in Nat /\ b + c \in Nat /\ (b + c) + Len(r) <= Len(t)
    BY DEF Stands
  <1>2. ASSUME NEW j \in 1..Len(r) PROVE t[(b + c) + j] = r[j]
    <2>1. c + j \in 1..Len(s) /\ b + (c + j) = (b + c) + j
      BY <1>1 DEF Stands
    <2> QED BY <2>1 DEF Stands
  <1> QED BY <1>1, <1>2 DEF Stands

\* Of two texts each stands in both.
LEMMA StandsJoined ==
    ASSUME NEW S, NEW a \in Seq(S), NEW b \in Seq(S)
    PROVE  Stands(a \o b, 0, a) /\ Stands(a \o b, Len(a), b)
  <1>1. /\ a \o b \in Seq(S) /\ Len(a \o b) = Len(a) + Len(b) /\ Len(a) \in Nat /\ Len(b) \in Nat
        /\ \A j \in 1..Len(a) : (a \o b)[j] = a[j]
        /\ \A j \in 1..Len(b) : (a \o b)[Len(a) + j] = b[j]
    BY Joined
  <1> DEFINE t == a \o b
  <1> HIDE DEF t
  <1>2. /\ Len(t) = Len(a) + Len(b) /\ Len(a) \in Nat /\ Len(b) \in Nat
        /\ \A j \in 1..Len(a) : t[j] = a[j]
        /\ \A j \in 1..Len(b) : t[Len(a) + j] = b[j]
    BY <1>1 DEF t
  <1>3. \A j \in 1..Len(a) : 0 + j = j
    BY <1>2
  <1>4. Stands(t, 0, a) /\ Stands(t, Len(a), b)
    BY <1>2, <1>3 DEF Stands
  <1> QED BY <1>4 DEF t

\* The words of a query, whichever they are.
LEMMA WordsHas ==
    /\ "WITH" \in AWord /\ "name" \in AWord /\ "AS" \in AWord /\ "(" \in AWord /\ ")" \in AWord
    /\ Comma \in AWord
    /\ "SELECT" \in AWord /\ "DELETE" \in AWord /\ "INTO" \in AWord /\ "FOR" \in AWord /\ "UPDATE" \in AWord
    /\ "set_config" \in AWord /\ "COPY" \in AWord /\ "FROM" \in AWord
    /\ "#temp" \in AWord /\ "INSERT" \in AWord /\ "CREATE" \in AWord /\ "TABLE" \in AWord /\ "DROP" \in AWord
    /\ "ALTER" \in AWord /\ "COLUMN" \in AWord /\ "EXEC" \in AWord /\ "@var" \in AWord
    /\ "sp_rename" \in AWord
    /\ "literal" \in AWord /\ "VACUUM" \in AWord /\ "FULL" \in AWord /\ "PREPARE" \in AWord /\ "SET" \in AWord
    /\ "=" \in AWord /\ "OUTPUT" \in AWord /\ "EXPLAIN" \in AWord /\ "ANALYZE" \in AWord
    /\ Semicolon \in AWord
  BY DEF AWord

\* A text of words at one depth.
LEMMA WordsText ==
    ASSUME NEW ws \in Seq(AWord), NEW d \in Nat
    PROVE  Words(ws, d) \in Seq(AToken) /\ Len(Words(ws, d)) = Len(ws) /\ \A i \in 1..Len(ws) : Words(ws,
             d)[i] = Tok(ws[i], d)
  <1>1. \A i \in 1..Len(ws) : Tok(ws[i], d) \in AToken
    BY DEF Tok, AToken
  <1>2. DOMAIN ws = 1..Len(ws) /\ Len(ws) \in Nat
    OBVIOUS
  <1>3. Words(ws, d) = [i \in 1..Len(ws) |-> Tok(ws[i], d)]
    BY <1>2 DEF Words
  <1> QED BY <1>1, <1>2, <1>3

\* One word, and two to six.
LEMMA Words1 ==
    ASSUME NEW a \in AWord, NEW d \in Nat
    PROVE  /\ Words(<<a>>, d) \in Seq(AToken) /\ Len(Words(<<a>>, d)) = 1
           /\ Words(<<a>>, d)[1] = Tok(a, d)
  <1> DEFINE ws == <<a>>
  <1>1. ws \in Seq(AWord) /\ Len(ws) = 1 /\ ws[1] = a
    OBVIOUS
  <1> HIDE DEF ws
  <1>2. Words(ws, d) \in Seq(AToken) /\ Len(Words(ws, d)) = Len(ws) /\ \A i \in 1..Len(ws) : Words(ws,
          d)[i] = Tok(ws[i], d)
    BY <1>1, WordsText
  <1>3. 1 \in 1..Len(ws)
    BY <1>1
  <1> QED BY <1>1, <1>2, <1>3 DEF ws

LEMMA Words2 ==
    ASSUME NEW a \in AWord, NEW b \in AWord, NEW d \in Nat
    PROVE  /\ Words(<<a, b>>, d) \in Seq(AToken) /\ Len(Words(<<a, b>>, d)) = 2
           /\ Words(<<a, b>>, d)[1] = Tok(a, d) /\ Words(<<a, b>>, d)[2] = Tok(b, d)
  <1> DEFINE ws == <<a, b>>
  <1>1. ws \in Seq(AWord) /\ Len(ws) = 2 /\ ws[1] = a /\ ws[2] = b
    OBVIOUS
  <1> HIDE DEF ws
  <1>2. Words(ws, d) \in Seq(AToken) /\ Len(Words(ws, d)) = Len(ws) /\ \A i \in 1..Len(ws) : Words(ws,
          d)[i] = Tok(ws[i], d)
    BY <1>1, WordsText
  <1>3. 1 \in 1..Len(ws) /\ 2 \in 1..Len(ws)
    BY <1>1
  <1> QED BY <1>1, <1>2, <1>3 DEF ws

LEMMA Words3 ==
    ASSUME NEW a \in AWord, NEW b \in AWord, NEW c \in AWord, NEW d \in Nat
    PROVE  /\ Words(<<a, b, c>>, d) \in Seq(AToken) /\ Len(Words(<<a, b, c>>, d)) = 3
           /\ Words(<<a, b, c>>, d)[1] = Tok(a, d) /\ Words(<<a, b, c>>, d)[2] = Tok(b, d)
           /\ Words(<<a, b, c>>, d)[3] = Tok(c, d)
  <1> DEFINE ws == <<a, b, c>>
  <1>1. ws \in Seq(AWord) /\ Len(ws) = 3 /\ ws[1] = a /\ ws[2] = b /\ ws[3] = c
    OBVIOUS
  <1> HIDE DEF ws
  <1>2. Words(ws, d) \in Seq(AToken) /\ Len(Words(ws, d)) = Len(ws) /\ \A i \in 1..Len(ws) : Words(ws,
          d)[i] = Tok(ws[i], d)
    BY <1>1, WordsText
  <1>3. 1 \in 1..Len(ws) /\ 2 \in 1..Len(ws) /\ 3 \in 1..Len(ws)
    BY <1>1
  <1> QED BY <1>1, <1>2, <1>3 DEF ws

LEMMA Words4 ==
    ASSUME NEW a \in AWord, NEW b \in AWord, NEW c \in AWord, NEW e \in AWord, NEW d \in Nat
    PROVE  /\ Words(<<a, b, c, e>>, d) \in Seq(AToken) /\ Len(Words(<<a, b, c, e>>, d)) = 4
           /\ Words(<<a, b, c, e>>, d)[1] = Tok(a, d) /\ Words(<<a, b, c, e>>, d)[2] = Tok(b, d)
           /\ Words(<<a, b, c, e>>, d)[3] = Tok(c, d) /\ Words(<<a, b, c, e>>, d)[4] = Tok(e, d)
  <1> DEFINE ws == <<a, b, c, e>>
  <1>1. ws \in Seq(AWord) /\ Len(ws) = 4 /\ ws[1] = a /\ ws[2] = b /\ ws[3] = c /\ ws[4] = e
    OBVIOUS
  <1> HIDE DEF ws
  <1>2. Words(ws, d) \in Seq(AToken) /\ Len(Words(ws, d)) = Len(ws) /\ \A i \in 1..Len(ws) : Words(ws,
          d)[i] = Tok(ws[i], d)
    BY <1>1, WordsText
  <1>3. 1 \in 1..Len(ws) /\ 2 \in 1..Len(ws) /\ 3 \in 1..Len(ws) /\ 4 \in 1..Len(ws)
    BY <1>1
  <1> QED BY <1>1, <1>2, <1>3 DEF ws

Verb(x) == x.verb \in {"SELECT", "DELETE"} /\ x.tail \in {"none", "into", "lock", "call", "column"}

\* A few words.
LEMMA Few1 == ASSUME NEW a \in AWord PROVE <<a>> \in Seq(AWord) /\ Len(<<a>>) = 1 /\ <<a>>[1] = a
  OBVIOUS

LEMMA Few2 ==
    ASSUME NEW a \in AWord, NEW b \in AWord
    PROVE  <<a, b>> \in Seq(AWord) /\ Len(<<a, b>>) = 2 /\ <<a, b>>[1] = a /\ <<a, b>>[2] = b
  OBVIOUS

LEMMA Few3 ==
    ASSUME NEW a \in AWord, NEW b \in AWord, NEW c \in AWord
    PROVE  /\ <<a, b, c>> \in Seq(AWord) /\ Len(<<a, b, c>>) = 3
           /\ <<a, b, c>>[1] = a /\ <<a, b, c>>[2] = b /\ <<a, b, c>>[3] = c
  OBVIOUS

\* What follows a verb.
LEMMA TailText ==
    ASSUME NEW tail \in {"none", "into", "lock", "call", "column"}
    PROVE  LET g == Tails[tail]
           IN  /\ g \in Seq(AWord) /\ Len(g) \in 1..3 /\ \A j \in 1..Len(g) : g[j] # "WITH"
               /\ tail = "none" => Len(g) = 1 /\ g[1] = "name"
               /\ tail = "column" => Len(g) = 1 /\ g[1] = "COPY"
               /\ tail = "into" => Len(g) = 2 /\ g[1] = "INTO"
               /\ tail = "lock" => Len(g) = 2 /\ g[1] = "FOR" /\ g[2] = "UPDATE"
               /\ tail = "call" => Len(g) = 3 /\ g[1] = "set_config" /\ g[2] = "("
  <1> DEFINE g == Tails[tail]
  <1>1. CASE tail = "none"
    <2>1. g = <<"name">>
      BY <1>1 DEF Tails
    <2> HIDE DEF g
    <2>2. "name" \in AWord
      BY WordsHas
    <2>3. g \in Seq(AWord) /\ Len(g) = 1 /\ g[1] = "name"
      BY <2>1, <2>2, Few1
    <2>4. \A j \in 1..1 : j = 1
      OBVIOUS
    <2> QED BY <1>1, <2>3, <2>4 DEF g
  <1>2. CASE tail = "column"
    <2>1. g = <<"COPY">>
      BY <1>2 DEF Tails
    <2> HIDE DEF g
    <2>2. "COPY" \in AWord
      BY WordsHas
    <2>3. g \in Seq(AWord) /\ Len(g) = 1 /\ g[1] = "COPY"
      BY <2>1, <2>2, Few1
    <2>4. \A j \in 1..1 : j = 1
      OBVIOUS
    <2> QED BY <1>2, <2>3, <2>4 DEF g
  <1>3. CASE tail = "into"
    <2>1. g = <<"INTO", "name">>
      BY <1>3 DEF Tails
    <2> HIDE DEF g
    <2>2. "INTO" \in AWord /\ "name" \in AWord
      BY WordsHas
    <2>3. g \in Seq(AWord) /\ Len(g) = 2 /\ g[1] = "INTO" /\ g[2] = "name"
      BY <2>1, <2>2, Few2
    <2>4. \A j \in 1..2 : j = 1 \/ j = 2
      OBVIOUS
    <2> QED BY <1>3, <2>3, <2>4 DEF g
  <1>4. CASE tail = "lock"
    <2>1. g = <<"FOR", "UPDATE">>
      BY <1>4 DEF Tails
    <2> HIDE DEF g
    <2>2. "FOR" \in AWord /\ "UPDATE" \in AWord
      BY WordsHas
    <2>3. g \in Seq(AWord) /\ Len(g) = 2 /\ g[1] = "FOR" /\ g[2] = "UPDATE"
      BY <2>1, <2>2, Few2
    <2>4. \A j \in 1..2 : j = 1 \/ j = 2
      OBVIOUS
    <2> QED BY <1>4, <2>3, <2>4 DEF g
  <1>5. CASE tail = "call"
    <2>1. g = <<"set_config", "(", ")">>
      BY <1>5 DEF Tails
    <2> HIDE DEF g
    <2>2. "set_config" \in AWord /\ "(" \in AWord /\ ")" \in AWord
      BY WordsHas
    <2>3. g \in Seq(AWord) /\ Len(g) = 3 /\ g[1] = "set_config" /\ g[2] = "(" /\ g[3] = ")"
      BY <2>1, <2>2, Few3
    <2>4. \A j \in 1..3 : j = 1 \/ j = 2 \/ j = 3
      OBVIOUS
    <2> QED BY <1>5, <2>3, <2>4 DEF g
  <1> QED BY <1>1, <1>2, <1>3, <1>4, <1>5

\* A verb and its tail.
LEMMA FlatText ==
    ASSUME NEW x, Verb(x), NEW d \in Nat
    PROVE  LET f == Flat(x, d)
           IN  /\ f \in Seq(AToken) /\ Len(f) \in 2..4 /\ f[1] = Tok(x.verb, d)
                    /\ \A j \in 1..Len(f) : f[j].w # "WITH"
               /\ x.tail = "none" => Len(f) = 2 /\ f[2] = Tok("name", d)
               /\ x.tail = "column" => Len(f) = 2 /\ f[2] = Tok("COPY", d)
               /\ x.tail = "into" => Len(f) = 3 /\ f[2] = Tok("INTO", d)
               /\ x.tail = "lock" => Len(f) = 3 /\ f[2] = Tok("FOR", d) /\ f[3] = Tok("UPDATE", d)
               /\ x.tail = "call" => Len(f) = 4 /\ f[2] = Tok("set_config", d) /\ f[3] = Tok("(", d)
  <1> DEFINE v == x.verb
             g == Tails[x.tail]
             a == <<v>>
             ws == a \o g
             f == Flat(x, d)
  <1>1. x.tail \in {"none", "into", "lock", "call", "column"} /\ v \in AWord /\ v # "WITH"
    BY WordsHas DEF Verb
  <1>2. /\ g \in Seq(AWord) /\ Len(g) \in 1..3 /\ \A j \in 1..Len(g) : g[j] # "WITH"
        /\ x.tail = "none" => Len(g) = 1 /\ g[1] = "name"
        /\ x.tail = "column" => Len(g) = 1 /\ g[1] = "COPY"
        /\ x.tail = "into" => Len(g) = 2 /\ g[1] = "INTO"
        /\ x.tail = "lock" => Len(g) = 2 /\ g[1] = "FOR" /\ g[2] = "UPDATE"
        /\ x.tail = "call" => Len(g) = 3 /\ g[1] = "set_config" /\ g[2] = "("
    BY <1>1, TailText
  <1>3. a \in Seq(AWord) /\ Len(a) = 1 /\ a[1] = v
    BY <1>1
  <1>4. f = Words(ws, d)
    BY DEF Flat
  <1> HIDE DEF a, g, v, ws, f
  <1>5. /\ ws \in Seq(AWord) /\ Len(ws) = Len(a) + Len(g)
        /\ \A j \in 1..Len(a) : ws[j] = a[j]
        /\ \A j \in 1..Len(g) : ws[Len(a) + j] = g[j]
    BY <1>2, <1>3, Joined DEF ws
  <1>6. f \in Seq(AToken) /\ Len(f) = Len(ws) /\ \A i \in 1..Len(ws) : f[i] = Tok(ws[i], d)
    BY <1>4, <1>5, WordsText
  <1>7. Len(f) = 1 + Len(g) /\ f[1] = Tok(v, d) /\ \A j \in 1..Len(g) : f[1 + j] = Tok(g[j], d)
    <2>1. 1 \in 1..Len(a) /\ Len(ws) = 1 + Len(g) /\ 1 \in 1..Len(ws)
      BY <1>2, <1>3, <1>5
    <2>2. f[1] = Tok(v, d)
      BY <1>3, <1>5, <1>6, <2>1
    <2>3. ASSUME NEW j \in 1..Len(g) PROVE f[1 + j] = Tok(g[j], d)
      <3>1. 1 + j \in 1..Len(ws) /\ ws[1 + j] = g[j]
        BY <1>2, <1>3, <1>5, <2>1
      <3> QED BY <1>6, <3>1
    <2> QED BY <1>6, <2>1, <2>2, <2>3
  <1>8. \A j \in 1..Len(f) : f[j].w # "WITH"
    <2> SUFFICES ASSUME NEW j \in 1..Len(f) PROVE f[j].w # "WITH"
      OBVIOUS
    <2>1. CASE j = 1
      BY <1>1, <1>7, <2>1 DEF Tok
    <2>2. CASE j # 1
      <3>1. j - 1 \in 1..Len(g) /\ 1 + (j - 1) = j
        BY <1>2, <1>7, <2>2
      <3>2. f[j] = Tok(g[j - 1], d) /\ g[j - 1] # "WITH"
        BY <1>2, <1>7, <3>1
      <3> QED BY <3>2 DEF Tok
    <2> QED BY <2>1, <2>2
  <1>9. /\ f[1 + 1] = Tok(g[1], d)
        /\ Len(g) > 1 => f[1 + 2] = Tok(g[2], d)
    <2>1. 1 \in 1..Len(g) /\ (Len(g) > 1 => 2 \in 1..Len(g))
      BY <1>2
    <2> QED BY <1>7, <2>1
  <1>10. Len(f) \in 2..4
    <2>1. Len(f) = 1 + Len(g) /\ Len(g) \in 1..3
      BY <1>2, <1>7
    <2>2. \A n \in 1..3 : 1 + n \in 2..4
      OBVIOUS
    <2>3. 1 + Len(g) \in 2..4
      BY <2>1, <2>2, Zenon
    <2> QED BY <2>1, <2>3, Zenon
  <1>11. f[2] = Tok(g[1], d) /\ (Len(g) > 1 => f[3] = Tok(g[2], d))
    BY <1>9
  <1> QED BY <1>1, <1>2, <1>6, <1>7, <1>8, <1>10, <1>11, SMTT(60) DEF f, v

\* A text behind another.
LEMMA Behind ==
    ASSUME NEW a \in Seq(AToken), NEW b \in Seq(AToken), NEW t, t = a \o b
    PROVE  /\ t \in Seq(AToken) /\ Len(t) = Len(a) + Len(b) /\ Len(t) \in Nat /\ Len(a) \in Nat
           /\ Len(b) \in Nat
           /\ Stands(t, 0, a) /\ Stands(t, Len(a), b)
  <1>1. t \in Seq(AToken) /\ Len(t) = Len(a) + Len(b) /\ Len(a) \in Nat /\ Len(b) \in Nat
    BY Joined
  <1>2. Stands(t, 0, a) /\ Stands(t, Len(a), b)
    BY StandsJoined
  <1> QED BY <1>1, <1>2

\* The words a text is of.
Only(t, G) == \A j \in 1..Len(t) : t[j].w \in G

\* Two texts of such words make a third.
LEMMA OnlyJoined ==
    ASSUME NEW a \in Seq(AToken), NEW b \in Seq(AToken), NEW t, t = a \o b, NEW G, Only(a, G), Only(b, G)
    PROVE  Only(t, G)
  <1>1. /\ Len(t) = Len(a) + Len(b) /\ Len(a) \in Nat /\ Len(b) \in Nat
        /\ \A j \in 1..Len(a) : t[j] = a[j]
        /\ \A j \in 1..Len(b) : t[Len(a) + j] = b[j]
    BY Joined
  <1>2. ASSUME NEW j \in 1..Len(t) PROVE t[j].w \in G
    <2>1. CASE j <= Len(a)
      BY <1>1, <2>1 DEF Only
    <2>2. CASE j > Len(a)
      <3>1. j - Len(a) \in 1..Len(b) /\ Len(a) + (j - Len(a)) = j
        BY <1>1, <2>2
      <3> QED BY <1>1, <3>1 DEF Only
    <2> QED BY <1>1, <2>1, <2>2
  <1> QED BY <1>2 DEF Only

\* A common table expression, and how it stands in its list.
Cte(c, d) == Words(<<"name", "AS", "(">>, d) \o Flat(c, d + 1) \o Words(<<")">>, d)
Pieces(x, d) == [k \in DOMAIN x.ctes |-> IF k = 1 THEN Cte(x.ctes[k], d) ELSE Words(<<Comma>>,
  d) \o Cte(x.ctes[k], d)]

\* What a query that only reads is written with, past its WITH: where named, a name that is a
\* keyword elsewhere may be among it.
Quiet(named) == {"name", "AS", "(", ")", Comma, "SELECT"} \cup {w \in {"COPY"} : named}
Mute(x, named) == ~Harmful(x) /\ (x.tail = "column" => named)

\* A verb that harms nothing, and its tail.
LEMMA FlatQuiet ==
    ASSUME NEW x, Verb(x), NEW named \in BOOLEAN, Mute(x, named), NEW d \in Nat
    PROVE  Only(Flat(x, d), Quiet(named))
  <1>1. x.verb = "SELECT" /\ x.tail \in {"none", "column"} /\ (x.tail = "column" => named)
    BY DEF Verb, Harmful, Mute
  <1> DEFINE f == Flat(x, d)
  <1>2. /\ Len(f) = 2 /\ f[1] = Tok("SELECT", d)
        /\ f[2] = Tok("name", d) \/ (f[2] = Tok("COPY", d) /\ named)
    BY <1>1, FlatText
  <1> HIDE DEF f
  <1>3. \A j \in 1..Len(f) : j = 1 \/ j = 2
    BY <1>2
  <1>4. f[1].w \in Quiet(named) /\ f[2].w \in Quiet(named)
    <2>1. f[1].w = "SELECT" /\ (f[2].w = "name" \/ (f[2].w = "COPY" /\ named))
      BY <1>2 DEF Tok
    <2> QED BY <2>1 DEF Quiet
  <1> QED BY <1>3, <1>4 DEF Only, f

\* A common table expression in its parentheses.
LEMMA CteText ==
    ASSUME NEW c, Verb(c), NEW d \in Nat
    PROVE  LET t == Cte(c, d)
               f == Flat(c, d + 1)
           IN  /\ t \in Seq(AToken) /\ Len(t) = Len(f) + 4
               /\ t[1] = Tok("name", d) /\ t[2] = Tok("AS", d) /\ t[3] = Tok("(", d)
               /\ t[Len(t)] = Tok(")", d)
               /\ Stands(t, 3, f)
               /\ \A named \in BOOLEAN : Mute(c, named) => Only(t, Quiet(named))
  <1> DEFINE a == Words(<<"name", "AS", "(">>, d)
             f == Flat(c, d + 1)
             z == Words(<<")">>, d)
             t == Cte(c, d)
  <1>0. "name" \in AWord /\ "AS" \in AWord /\ "(" \in AWord /\ ")" \in AWord
    BY WordsHas
  <1>20. d + 1 \in Nat
    OBVIOUS
  <1>1. a \in Seq(AToken) /\ Len(a) = 3 /\ a[1] = Tok("name", d) /\ a[2] = Tok("AS", d) /\ a[3] = Tok("(", d)
    BY <1>0, Words3
  <1>2. f \in Seq(AToken) /\ Len(f) \in 2..4
    BY <1>20, FlatText
  <1>3. z \in Seq(AToken) /\ Len(z) = 1 /\ z[1] = Tok(")", d)
    BY <1>0, Words1
  <1>4. t = (a \o f) \o z
    BY DEF Cte
  <1>5. \A named \in BOOLEAN : Mute(c, named) => Only(f, Quiet(named))
    BY <1>20, FlatQuiet
  <1> HIDE DEF a, f, z, t
  <1>6. \A named \in BOOLEAN : Only(a, Quiet(named)) /\ Only(z, Quiet(named))
    <2>1. (\A j \in 1..3 : j = 1 \/ j = 2 \/ j = 3) /\ (\A j \in 1..1 : j = 1)
      OBVIOUS
    <2>2. \A named : /\ a[1].w \in Quiet(named) /\ a[2].w \in Quiet(named) /\ a[3].w \in Quiet(named)
                    /\ z[1].w \in Quiet(named)
      BY <1>1, <1>3 DEF Tok, Quiet
    <2> QED BY <1>1, <1>3, <2>1, <2>2 DEF Only
  <1> DEFINE u == a \o f
  <1>9. t = u \o z
    BY <1>4
  <1>16. u = a \o f
    OBVIOUS
  <1> HIDE DEF u
  <1>7. u \in Seq(AToken) /\ Len(u) = Len(a) + Len(f) /\ Stands(u, 0, a) /\ Stands(u, Len(a), f)
    BY <1>1, <1>2, <1>16, Behind
  <1>8. \A named \in BOOLEAN : Mute(c, named) => Only(u, Quiet(named))
    BY <1>1, <1>2, <1>5, <1>6, <1>16, OnlyJoined
  <1>10. /\ t \in Seq(AToken) /\ Len(t) = Len(u) + Len(z) /\ Len(t) \in Nat /\ Len(u) \in Nat
         /\ Stands(t, 0, u) /\ Stands(t, Len(u), z)
    BY <1>3, <1>7, <1>9, Behind
  <1>11. \A named \in BOOLEAN : Mute(c, named) => Only(t, Quiet(named))
    BY <1>3, <1>6, <1>7, <1>8, <1>9, OnlyJoined
  <1>17. Len(a) \in Nat /\ Len(f) \in Nat
    BY <1>1, <1>2
  <1>18. Stands(t, 0 + 0, a)
    BY <1>7, <1>10, <1>17, StandsIn
  <1>19. Stands(t, 0 + Len(a), f)
    BY <1>7, <1>10, <1>17, StandsIn
  <1>12. Stands(t, 0 + 0, a) /\ Stands(t, 0 + 3, f)
    BY <1>1, <1>18, <1>19
  <1>13. /\ t[0 + 1] = a[1] /\ t[0 + 2] = a[2] /\ t[0 + 3] = a[3]
         /\ t[Len(u) + 1] = z[1]
    BY <1>1, <1>3, <1>10, <1>12 DEF Stands
  <1>14. Len(t) = Len(f) + 4 /\ Len(t) = Len(u) + 1
    BY <1>1, <1>2, <1>3, <1>7, <1>10
  <1>15. t[1] = a[1] /\ t[2] = a[2] /\ t[3] = a[3] /\ t[Len(t)] = z[1] /\ Stands(t, 3, f)
    BY <1>12, <1>13, <1>14
  <1> QED BY <1>1, <1>3, <1>10, <1>11, <1>14, <1>15 DEF f, t

\* The same with the comma before it.
LEMMA PieceText ==
    ASSUME NEW x, NEW d \in Nat, NEW k \in DOMAIN x.ctes, Verb(x.ctes[k])
    PROVE  LET p == Pieces(x, d)[k]
               t == Cte(x.ctes[k], d)
           IN  /\ p \in Seq(AToken)
               /\ k = 1 => p = t
               /\ k # 1 => Len(p) = Len(t) + 1 /\ p[1] = Tok(Comma, d) /\ Stands(p, 1, t)
               /\ \A named \in BOOLEAN : Mute(x.ctes[k], named) => Only(p, Quiet(named))
  <1> DEFINE a == Words(<<Comma>>, d)
             c == x.ctes[k]
             t == Cte(c, d)
  <1>0. Comma \in AWord
    BY WordsHas
  <1>1. a \in Seq(AToken) /\ Len(a) = 1 /\ a[1] = Tok(Comma, d)
    BY <1>0, Words1
  <1>2. t \in Seq(AToken) /\ \A named \in BOOLEAN : Mute(c, named) => Only(t, Quiet(named))
    BY CteText
  <1>3. Pieces(x, d)[k] = IF k = 1 THEN t ELSE a \o t
    BY DEF Pieces
  <1> HIDE DEF a, t
  <1> DEFINE u == a \o t
  <1>8. u = a \o t
    OBVIOUS
  <1> HIDE DEF u
  <1>9. /\ u \in Seq(AToken) /\ Len(u) = Len(a) + Len(t) /\ Len(t) \in Nat /\ Stands(u, 0, a)
        /\ Stands(u, Len(a), t)
    BY <1>1, <1>2, <1>8, Behind
  <1>4. u[0 + 1] = a[1]
    BY <1>1, <1>9 DEF Stands
  <1>5. Len(u) = Len(t) + 1 /\ u[1] = Tok(Comma, d) /\ Stands(u, 1, t)
    BY <1>1, <1>4, <1>9
  <1>6. \A named \in BOOLEAN : Only(a, Quiet(named))
    <2>1. \A j \in 1..1 : j = 1
      OBVIOUS
    <2>2. \A named : a[1].w \in Quiet(named)
      BY <1>1 DEF Tok, Quiet
    <2> QED BY <1>1, <2>1, <2>2 DEF Only
  <1>7. \A named \in BOOLEAN : Mute(c, named) => Only(u, Quiet(named))
    BY <1>1, <1>2, <1>6, <1>8, OnlyJoined
  <1>10. /\ k = 1 => Pieces(x, d)[k] = t
         /\ k # 1 => Pieces(x, d)[k] = u
    BY <1>3, <1>8
  <1> QED BY <1>2, <1>5, <1>7, <1>9, <1>10 DEF t

\* The parts of a query.
LEMMA FormedParts ==
    ASSUME NEW x, Formed(x)
    PROVE  /\ Verb(x) /\ x.ctes \in Seq(Plains) /\ Len(x.ctes) \in Nat /\ DOMAIN x.ctes = 1..Len(x.ctes)
           /\ \A k \in 1..Len(x.ctes) : Verb(x.ctes[k])
           /\ x.ctes # <<>> => Len(x.ctes) > 0
  <1>1. DOMAIN Tails = {"none", "into", "lock", "call", "column"}
    BY DEF Tails
  <1>2. \A c \in Plains : Verb(c)
    <2> SUFFICES ASSUME NEW verb \in {"SELECT", "DELETE"}, NEW tail \in DOMAIN Tails
      PROVE Verb(PlainQuery(verb, tail))
      BY DEF Plains
    <2>1. PlainQuery(verb, tail).verb = verb /\ PlainQuery(verb, tail).tail = tail
      BY DEF PlainQuery
    <2> QED BY <1>1, <2>1 DEF Verb
  <1>3. Verb(x) /\ x.ctes \in Seq(Plains)
    BY <1>1 DEF Formed, Verb
  <1> DEFINE s == x.ctes
  <1> HIDE DEF s
  <1>4. s \in Seq(Plains) => Len(s) \in Nat /\ DOMAIN s = 1..Len(s) /\ (\A k \in 1..Len(s) : s[k] \in Plains)
          /\ (s # <<>> => Len(s) > 0)
    OBVIOUS
  <1> QED BY <1>2, <1>3, <1>4 DEF s

List(x, d) == FlattenSeq(Pieces(x, d))

\* A list of common table expressions.
LEMMA ListText ==
    ASSUME NEW x, Formed(x), NEW d \in Nat
    PROVE  /\ List(x, d) \in Seq(AToken) /\ Len(List(x, d)) \in Nat /\ \E o : Laid(Pieces(x, d), List(x, d), o)
           /\ Len(Pieces(x, d)) = Len(x.ctes) /\ \A k \in 1..Len(x.ctes) : Pieces(x, d)[k] \in Seq(AToken)
  <1> DEFINE ss == Pieces(x, d)
  <1>1. Len(x.ctes) \in Nat /\ DOMAIN x.ctes = 1..Len(x.ctes) /\ \A k \in 1..Len(x.ctes) : Verb(x.ctes[k])
    BY FormedParts
  <1>2. \A k \in 1..Len(x.ctes) : ss[k] \in Seq(AToken)
    BY <1>1, PieceText
  <1>3. ss = [k \in 1..Len(x.ctes) |-> ss[k]]
    BY <1>1 DEF Pieces
  <1> HIDE DEF ss
  <1>4. ss \in Seq(Seq(AToken)) /\ Len(ss) = Len(x.ctes)
    BY <1>1, <1>2, <1>3
  <1>5. FlattenSeq(ss) \in Seq(AToken) /\ \E o : Laid(ss, FlattenSeq(ss), o)
    BY <1>4, Flattens
  <1>6. Len(FlattenSeq(ss)) \in Nat
    BY <1>5
  <1> QED BY <1>2, <1>4, <1>5, <1>6 DEF List, ss

\* A query with a list.
LEMMA NestedText ==
    ASSUME NEW x, Formed(x), x.ctes # <<>>, NEW d \in Nat
    PROVE  LET t == Nested(x, d)
               l == List(x, d)
               f == Flat(x, d)
           IN  /\ t \in Seq(AToken) /\ Len(t) = 1 + Len(l) + Len(f) /\ t[1] = Tok("WITH", d)
               /\ Stands(t, 1, l) /\ Stands(t, 1 + Len(l), f)
  <1> DEFINE t == Nested(x, d)
             l == List(x, d)
             f == Flat(x, d)
             a == Words(<<"WITH">>, d)
             u == a \o l
  <1>1. t = u \o f
    BY DEF Nested, List, Pieces, Cte
  <1>2. l \in Seq(AToken) /\ f \in Seq(AToken)
    BY ListText, FlatText, FormedParts
  <1>3. a \in Seq(AToken) /\ Len(a) = 1 /\ a[1] = Tok("WITH", d)
    BY WordsHas, Words1
  <1>4. u = a \o l
    OBVIOUS
  <1> HIDE DEF t, l, f, a, u
  <1>5. /\ u \in Seq(AToken) /\ Len(u) = Len(a) + Len(l) /\ Len(a) \in Nat /\ Len(l) \in Nat /\ Len(u) \in Nat
        /\ Stands(u, 0, a) /\ Stands(u, Len(a), l)
    BY <1>2, <1>3, <1>4, Behind
  <1>6. /\ t \in Seq(AToken) /\ Len(t) = Len(u) + Len(f) /\ Len(t) \in Nat
        /\ Stands(t, 0, u) /\ Stands(t, Len(u), f)
    BY <1>1, <1>2, <1>5, Behind
  <1>7. Stands(t, 0 + 0, a)
    BY <1>5, <1>6, StandsIn
  <1>8. Stands(t, 0 + Len(a), l)
    BY <1>5, <1>6, StandsIn
  <1>9. t[0 + 1] = a[1]
    BY <1>3, <1>7 DEF Stands
  <1>10. Len(u) = 1 + Len(l) /\ 0 + Len(a) = 1 /\ 0 + 1 = 1
    BY <1>3, <1>5
  <1>11. Stands(t, 1, l) /\ Stands(t, 1 + Len(l), f) /\ t[1] = a[1] /\ Len(t) = 1 + Len(l) + Len(f)
    BY <1>6, <1>8, <1>9, <1>10
  <1> QED BY <1>3, <1>6, <1>11 DEF t, l, f

\* A query without one.
LEMMA PlainText ==
    ASSUME NEW x, x.ctes = <<>>, NEW d \in Nat, Flat(x, d) \in Seq(AToken)
    PROVE  Nested(x, d) = Flat(x, d)
  <1> DEFINE f == Flat(x, d)
  <1>1. Nested(x, d) = <<>> \o f
    BY DEF Nested
  <1> HIDE DEF f
  <1>2. f \in Seq(AToken) => <<>> \o f = f
    OBVIOUS
  <1> QED BY <1>1, <1>2 DEF f

\* Every part of a query stands in what is written down of it.
LEMMA PartStands ==
    ASSUME NEW x, Formed(x), NEW d \in Nat, NEW k \in 1..Len(x.ctes)
    PROVE  \E b \in Nat : b > 0 /\ Stands(Nested(x, d), b, Flat(x.ctes[k], d + 1))
  <1> DEFINE t == Nested(x, d)
             l == List(x, d)
             p == Pieces(x, d)[k]
             c == Cte(x.ctes[k], d)
             f == Flat(x.ctes[k], d + 1)
  <1>1. k \in DOMAIN x.ctes /\ Verb(x.ctes[k]) /\ x.ctes # <<>> /\ d + 1 \in Nat /\ Len(x.ctes) \in Nat
    BY FormedParts
  <1>2. t \in Seq(AToken) /\ Stands(t, 1, l)
    BY <1>1, NestedText
  <1>3. PICK o : Laid(Pieces(x, d), l, o)
    BY ListText
  <1>4. l \in Seq(AToken) /\ Len(Pieces(x, d)) = Len(x.ctes) /\ p \in Seq(AToken)
    BY ListText
  <1>5. c \in Seq(AToken) /\ Stands(c, 3, f)
    BY <1>1, CteText
  <1>6. f \in Seq(AToken)
    BY <1>1, FlatText
  <1>7. (k = 1 => p = c) /\ (k # 1 => Stands(p, 1, c))
    BY <1>1, PieceText
  <1>8. Stands(l, o[k - 1], p)
    <2>1. k \in 1..Len(Pieces(x, d)) /\ k - 1 \in 0..Len(Pieces(x, d))
      BY <1>1, <1>4
    <2>2. o[k - 1] \in Nat /\ o[k] = o[k - 1] + Len(p) /\ o[k] <= Len(l)
            /\ \A j \in 1..Len(p) : l[o[k - 1] + j] = p[j]
      BY <1>3, <2>1 DEF Laid
    <2> QED BY <2>2 DEF Stands
  <1> HIDE DEF t, l, p, c, f
  <1>9. Len(t) \in Nat /\ Len(l) \in Nat /\ Len(p) \in Nat /\ Len(c) \in Nat /\ Len(f) \in Nat
    BY <1>2, <1>4, <1>5, <1>6
  <1>10. Stands(t, 1 + o[k - 1], p)
    BY <1>2, <1>8, <1>9, StandsIn
  <1>11. \E b \in Nat : b > 0 /\ Stands(t, b, c)
    <2>0. o[k - 1] \in Nat
      BY <1>8 DEF Stands
    <2> DEFINE b == 1 + o[k - 1]
    <2>1. b \in Nat /\ b > 0 /\ Stands(t, b, p)
      BY <1>10, <2>0
    <2> HIDE DEF b
    <2>2. CASE k = 1
      BY <1>7, <2>1, <2>2
    <2>3. CASE k # 1
      <3>1. Stands(t, b + 1, c)
        BY <1>7, <1>9, <2>1, <2>3, StandsIn
      <3> QED BY <2>1, <3>1
    <2> QED BY <2>2, <2>3
  <1>12. PICK b \in Nat : b > 0 /\ Stands(t, b, c)
    BY <1>11
  <1>13. Stands(t, b + 3, f)
    BY <1>5, <1>9, <1>12, StandsIn
  <1> QED BY <1>12, <1>13 DEF t, f

\* A query that only reads is quiet past its first word.
LEMMA NestedQuiet ==
    ASSUME NEW x, Formed(x), NEW named \in BOOLEAN, Mute(x, named),
           \A k \in 1..Len(x.ctes) : Mute(x.ctes[k], named), NEW d \in Nat
    PROVE  LET t == Nested(x, d)
           IN  /\ t \in Seq(AToken) /\ Len(t) >= 2 /\ \A j \in 2..Len(t) : t[j].w \in Quiet(named)
               /\ t[1].w = IF x.ctes = <<>> THEN "SELECT" ELSE "WITH"
  <1> DEFINE t == Nested(x, d)
             l == List(x, d)
             f == Flat(x, d)
  <1>1. /\ f \in Seq(AToken) /\ Len(f) \in 2..4 /\ Len(f) >= 2 /\ f[1] = Tok(x.verb, d)
        /\ Only(f, Quiet(named)) /\ x.verb = "SELECT"
    <2>1. Verb(x)
      BY FormedParts
    <2>2. x.verb = "SELECT"
      BY <2>1 DEF Verb, Harmful, Mute
    <2>3. f \in Seq(AToken) /\ Len(f) \in 2..4 /\ f[1] = Tok(x.verb, d)
      BY <2>1, FlatText
    <2>4. Only(f, Quiet(named))
      BY <2>1, FlatQuiet
    <2> HIDE DEF f
    <2>6. \A m \in 2..4 : m >= 2
      OBVIOUS
    <2>5. Len(f) >= 2
      BY <2>3, <2>6
    <2> QED BY <2>2, <2>3, <2>4, <2>5
  <1>2. CASE x.ctes = <<>>
    <2>1. t = f
      BY <1>1, <1>2, PlainText
    <2> HIDE DEF t, f
    <2>2. \A j \in 2..Len(f) : j \in 1..Len(f)
      BY <1>1
    <2>3. f[1].w = "SELECT" /\ Len(f) >= 2 /\ \A j \in 2..Len(f) : f[j].w \in Quiet(named)
      <3>1. f[1].w = "SELECT"
        BY <1>1 DEF Tok
      <3>2. Len(f) >= 2
        BY <1>1
      <3>3. \A j \in 2..Len(f) : f[j].w \in Quiet(named)
        BY <1>1, <2>2 DEF Only
      <3> QED BY <3>1, <3>2, <3>3
    <2>4. t \in Seq(AToken) /\ Len(t) >= 2 /\ (\A j \in 2..Len(t) : t[j].w \in Quiet(named)) /\ t[1].w = "SELECT"
      BY <1>1, <2>1, <2>3
    <2> QED BY <1>2, <2>4 DEF t
  <1>3. CASE x.ctes # <<>>
    <2>1. /\ t \in Seq(AToken) /\ Len(t) = 1 + Len(l) + Len(f) /\ t[1] = Tok("WITH", d)
          /\ Stands(t, 1, l) /\ Stands(t, 1 + Len(l), f)
      BY <1>3, NestedText
    <2>2. Only(l, Quiet(named)) /\ Len(l) \in Nat
      <3>1. PICK o : Laid(Pieces(x, d), l, o)
        BY ListText
      <3>2. /\ Len(l) \in Nat /\ Len(Pieces(x, d)) = Len(x.ctes) /\ Len(Pieces(x, d)) \in Nat
            /\ \A k \in 1..Len(x.ctes) : Pieces(x, d)[k] \in Seq(AToken)
        BY ListText, FormedParts
      <3>3. \A k \in 1..Len(x.ctes) : Only(Pieces(x, d)[k], Quiet(named)) /\ Len(Pieces(x, d)[k]) \in Nat
        BY <3>2, PieceText, FormedParts
      <3> DEFINE ss == Pieces(x, d)
      <3> HIDE DEF ss, l
      <3>5. Laid(ss, l, o) /\ Len(ss) \in Nat /\ \A k \in 1..Len(ss) : Len(ss[k]) \in Nat
        BY <3>1, <3>2, <3>3 DEF ss
      <3>4. ASSUME NEW i \in 1..Len(l) PROVE l[i].w \in Quiet(named)
        <4>1. PICK k \in 1..Len(ss) : \E j \in 1..Len(ss[k]) : i = o[k - 1] + j
          BY <3>5, LaidSomewhere, SMTT(60)
        <4>2. PICK j \in 1..Len(ss[k]) : i = o[k - 1] + j
          BY <4>1
        <4>3. l[i] = ss[k][j]
          BY <3>1, <4>2 DEF Laid, ss
        <4> QED BY <3>2, <3>3, <4>3 DEF ss, Only
      <3> QED BY <3>2, <3>4 DEF Only
    <2> HIDE DEF t, l, f
    <2>3. ASSUME NEW j \in 2..Len(t) PROVE t[j].w \in Quiet(named)
      <3>1. CASE j <= 1 + Len(l)
        <4>1. j - 1 \in 1..Len(l) /\ 1 + (j - 1) = j
          BY <2>2, <3>1
        <4>2. t[j] = l[j - 1]
          BY <2>1, <4>1 DEF Stands
        <4> QED BY <2>2, <4>1, <4>2 DEF Only
      <3>2. CASE j > 1 + Len(l)
        <4> DEFINE h == j - (1 + Len(l))
        <4>1. h \in 1..Len(f) /\ (1 + Len(l)) + h = j
          BY <1>1, <2>1, <2>2, <3>2
        <4> HIDE DEF h
        <4>2. t[j] = f[h]
          BY <2>1, <4>1 DEF Stands
        <4> QED BY <1>1, <4>1, <4>2 DEF Only
      <3> QED BY <2>2, <3>1, <3>2
    <2>4. t[1].w = "WITH" /\ Len(t) >= 2
      BY <1>1, <2>1, <2>2 DEF Tok
    <2> QED BY <1>3, <2>1, <2>3, <2>4 DEF t
  <1> QED BY <1>2, <1>3

\* Nothing but its verb can make it write.
Clean(x) == x.tail \in {"none", "column"}
CleanParts(x) == Clean(x) /\ \A k \in 1..Len(x.ctes) : Clean(x.ctes[k])

\* A common table expression at a place.
CteAt(t, i, verb, d) ==
    /\ i \in Nat /\ i > 0 /\ i + 5 <= Len(t)
    /\ t[i] = Tok("name", d) /\ t[i + 1] = Tok("AS", d) /\ t[i + 2] = Tok("(", d)
    /\ t[i + 3] = Tok(verb, d + 1)
    /\ t[i + 4].w \in {"name", "COPY"} /\ t[i + 5] = Tok(")", d)

\* A clean common table expression is six words long.
LEMMA CleanCte ==
    ASSUME NEW c, Verb(c), Clean(c), NEW d \in Nat
    PROVE  Len(Cte(c, d)) = 6 /\ CteAt(Cte(c, d), 1, c.verb, d)
  <1> DEFINE t == Cte(c, d)
             f == Flat(c, d + 1)
  <1>1. d + 1 \in Nat
    OBVIOUS
  <1>2. /\ Len(f) = 2 /\ f[1] = Tok(c.verb, d + 1)
        /\ f[2] = Tok("name", d + 1) \/ f[2] = Tok("COPY", d + 1)
    BY <1>1, FlatText DEF Clean
  <1>3. /\ t \in Seq(AToken) /\ Len(t) = Len(f) + 4
        /\ t[1] = Tok("name", d) /\ t[2] = Tok("AS", d) /\ t[3] = Tok("(", d) /\ t[Len(t)] = Tok(")", d)
        /\ Stands(t, 3, f)
    BY CteText
  <1> HIDE DEF t, f
  <1>4. f[2].w \in {"name", "COPY"}
    BY <1>2 DEF Tok
  <1>5. t[3 + 1] = f[1] /\ t[3 + 2] = f[2]
    BY <1>2, <1>3 DEF Stands
  <1>6. Len(t) = 6
    BY <1>2, <1>3
  <1>7. t[4] = f[1] /\ t[5] = f[2] /\ t[6] = Tok(")", d)
    <2>1. 3 + 1 = 4 /\ 3 + 2 = 5
      OBVIOUS
    <2>2. t[6] = Tok(")", d)
      BY <1>3, <1>6
    <2> QED BY <1>5, <2>1, <2>2
  <1>8. t[1 + 1] = Tok("AS", d) /\ t[1 + 2] = Tok("(", d) /\ t[1 + 3] = Tok(c.verb, d + 1)
        /\ t[1 + 4].w \in {"name", "COPY"} /\ t[1 + 5] = Tok(")", d)
    BY <1>2, <1>3, <1>4, <1>7
  <1>9. CteAt(t, 1, c.verb, d)
    <2>1. 1 \in Nat /\ 1 > 0 /\ 1 + 5 <= Len(t)
      BY <1>6
    <2> QED BY <1>3, <1>8, <2>1 DEF CteAt
  <1> QED BY <1>6, <1>9 DEF t

\* It stands as it is wherever its text does.
LEMMA CteStands ==
    ASSUME NEW t, NEW s, NEW b, Stands(t, b, s), NEW i, NEW verb, NEW d, CteAt(s, i, verb, d), Len(s) \in Nat,
           Len(t) \in Nat
    PROVE  CteAt(t, b + i, verb, d)
  <1>1. /\ b \in Nat /\ i \in Nat /\ i > 0 /\ i + 5 <= Len(s) /\ b + Len(s) <= Len(t)
        /\ \A j \in 1..Len(s) : t[b + j] = s[j]
    BY DEF Stands, CteAt
  <1>2. /\ i \in 1..Len(s) /\ i + 1 \in 1..Len(s) /\ i + 2 \in 1..Len(s)
        /\ i + 3 \in 1..Len(s) /\ i + 4 \in 1..Len(s) /\ i + 5 \in 1..Len(s)
    <2>1. i \in Nat /\ i > 0 /\ i + 5 <= Len(s) /\ Len(s) \in Nat
      BY <1>1
    <2> QED BY <2>1
  <1>3. /\ t[b + i] = s[i] /\ t[b + (i + 1)] = s[i + 1] /\ t[b + (i + 2)] = s[i + 2]
        /\ t[b + (i + 3)] = s[i + 3] /\ t[b + (i + 4)] = s[i + 4] /\ t[b + (i + 5)] = s[i + 5]
    BY <1>1, <1>2
  <1>4. /\ b + (i + 1) = (b + i) + 1 /\ b + (i + 2) = (b + i) + 2 /\ b + (i + 3) = (b + i) + 3
        /\ b + (i + 4) = (b + i) + 4 /\ b + (i + 5) = (b + i) + 5
        /\ b + i \in Nat /\ b + i > 0 /\ (b + i) + 5 <= Len(t)
    BY <1>1
  <1> QED BY <1>3, <1>4 DEF CteAt

\* Where the common table expressions of a clean list are.
LEMMA CleanList ==
    ASSUME NEW x, Formed(x), x.ctes # <<>>, CleanParts(x), NEW d \in Nat
    PROVE  /\ Len(List(x, d)) = 7 * Len(x.ctes) - 1
           /\ \A k \in 1..Len(x.ctes) : CteAt(List(x, d), 7 * k - 6, x.ctes[k].verb, d)
           /\ \A k \in 1..Len(x.ctes) - 1 : List(x, d)[7 * k] = Tok(Comma, d)
  <1> DEFINE n == Len(x.ctes)
             ss == Pieces(x, d)
             l == List(x, d)
  <1>1. n \in Nat /\ n > 0 /\ DOMAIN x.ctes = 1..n /\ \A k \in 1..n : Verb(x.ctes[k]) /\ Clean(x.ctes[k])
    BY FormedParts DEF CleanParts
  <1>2. PICK o : Laid(ss, l, o)
    BY ListText
  <1>3. Len(ss) = n /\ Len(l) \in Nat /\ \A k \in 1..n : ss[k] \in Seq(AToken)
    BY ListText
  <1>4. ASSUME NEW k \in 1..n
        PROVE  /\ k = 1 => Len(ss[k]) = 6 /\ CteAt(ss[k], 1, x.ctes[k].verb, d)
               /\ k # 1 => Len(ss[k]) = 7 /\ ss[k][1] = Tok(Comma, d) /\ CteAt(ss[k], 2, x.ctes[k].verb, d)
    <2> DEFINE c == Cte(x.ctes[k], d)
               p == ss[k]
    <2>1. Len(c) = 6 /\ CteAt(c, 1, x.ctes[k].verb, d)
      BY <1>1, CleanCte
    <2>2. (k = 1 => p = c) /\ (k # 1 => Len(p) = Len(c) + 1 /\ p[1] = Tok(Comma, d) /\ Stands(p, 1, c))
      BY <1>1, PieceText
    <2> HIDE DEF c, p
    <2>3. k # 1 => CteAt(p, 1 + 1, x.ctes[k].verb, d)
      <3> SUFFICES ASSUME k # 1 PROVE CteAt(p, 1 + 1, x.ctes[k].verb, d)
        OBVIOUS
      <3>1. Len(c) \in Nat /\ Len(p) \in Nat
        BY <2>1, <2>2
      <3> QED BY <2>1, <2>2, <3>1, CteStands
    <2> QED BY <2>1, <2>2, <2>3 DEF p
  <1> HIDE DEF ss, l, n
  <1>5. /\ o \in [0..n -> Nat] /\ o[0] = 0 /\ Len(l) = o[n]
        /\ \A k \in 1..n : /\ o[k] = o[k - 1] + Len(ss[k]) /\ o[k] <= Len(l)
                           /\ \A j \in 1..Len(ss[k]) : l[o[k - 1] + j] = ss[k][j]
    BY <1>2, <1>3 DEF Laid
  <1>6. ASSUME NEW k \in 1..n PROVE o[k] = 7 * k - 1
    <2> DEFINE P == {h \in 0..n : h = 0 \/ o[h] = 7 * h - 1}
    <2>1. 0 \in P
      BY <1>1
    <2>2. ASSUME NEW h \in 1..n, h - 1 \in P PROVE h \in P
      <3>1. CASE h = 1
        <4>1. h - 1 = 0 /\ Len(ss[h]) = 6
          BY <1>4, <3>1
        <4>2. o[h] = o[h - 1] + Len(ss[h]) /\ o[h - 1] = 0
          BY <1>5, <4>1
        <4>3. o[h] = 7 * h - 1
          BY <3>1, <4>1, <4>2
        <4> QED BY <1>1, <4>3
      <3>2. CASE h # 1
        <4>1. o[h - 1] = 7 * (h - 1) - 1 /\ Len(ss[h]) = 7 /\ o[h] = o[h - 1] + Len(ss[h])
          BY <1>4, <1>5, <2>2, <3>2
        <4> QED BY <4>1
      <3> QED BY <3>1, <3>2
    <2>3. 0..n \subseteq P
      <3> HIDE DEF P
      <3> QED BY <1>1, <2>1, <2>2, ScanUp
    <2>4. k \in 0..n
      BY <1>1
    <2> QED BY <2>3, <2>4
  <1>7. Len(l) = 7 * n - 1
    BY <1>1, <1>5, <1>6
  <1>8. ASSUME NEW k \in 1..n PROVE Stands(l, o[k - 1], ss[k])
    <2>1. o[k - 1] \in Nat
      BY <1>1, <1>5
    <2> QED BY <1>5, <2>1 DEF Stands
  <1>9. ASSUME NEW k \in 1..n PROVE CteAt(l, 7 * k - 6, x.ctes[k].verb, d)
    <2>0. Stands(l, o[k - 1], ss[k]) /\ Len(l) \in Nat
      BY <1>3, <1>8
    <2>1. CASE k = 1
      <3>1. k - 1 = 0 /\ 0 + 1 = 7 * k - 6 /\ Len(ss[k]) \in Nat
        BY <1>4, <2>1
      <3>2. Stands(l, 0, ss[k]) /\ CteAt(ss[k], 1, x.ctes[k].verb, d)
        BY <1>4, <1>5, <2>0, <2>1, <3>1
      <3>3. CteAt(l, 0 + 1, x.ctes[k].verb, d)
        BY <2>0, <3>1, <3>2, CteStands
      <3> QED BY <3>1, <3>3
    <2>2. CASE k # 1
      <3>1. k - 1 \in 1..n
        BY <1>1, <2>2
      <3>2. o[k - 1] = 7 * (k - 1) - 1
        BY <1>6, <3>1
      <3>3. CteAt(ss[k], 2, x.ctes[k].verb, d) /\ Len(ss[k]) \in Nat
        BY <1>4, <2>2
      <3>4. CteAt(l, o[k - 1] + 2, x.ctes[k].verb, d)
        BY <2>0, <3>3, CteStands
      <3>5. o[k - 1] + 2 = 7 * k - 6
        BY <3>2
      <3> QED BY <3>4, <3>5
    <2> QED BY <2>1, <2>2
  <1>10. ASSUME NEW k \in 1..n - 1 PROVE l[7 * k] = Tok(Comma, d)
    <2>1. k + 1 \in 1..n /\ k + 1 # 1 /\ (k + 1) - 1 = k /\ k \in 1..n
      BY <1>1
    <2>2. Len(ss[k + 1]) = 7 /\ ss[k + 1][1] = Tok(Comma, d)
      BY <1>4, <2>1
    <2>3. l[o[k] + 1] = ss[k + 1][1]
      BY <1>5, <2>1, <2>2
    <2>4. o[k] + 1 = 7 * k
      BY <1>6, <2>1
    <2> QED BY <2>2, <2>3, <2>4
  <1> QED BY <1>7, <1>9, <1>10 DEF l, n

\* The comma is no verb.
LEMMA CommaApart == Comma # "SELECT" /\ Comma # "DELETE"
  BY DEF Comma

\* What a refusal is at a place of a text.
LEMMA RefusedAt ==
    ASSUME NEW t, Len(t) \in Nat, NEW i \in 1..Len(t)
    PROVE  /\ "query" \in Refusals(t)[i] <=> QueryRefused(t, i, Refusals(t))
           /\ "list" \in Refusals(t)[i] <=> ListRefused(t, i, Refusals(t))
  <1> DEFINE R == Refusals(t)
  <1>1. R = [j \in 1..Len(t) + 1 |-> At1(t, j, R)]
    BY RefusalsSteps
  <1> HIDE DEF R
  <1>2. R[i] = At1(t, i, R) /\ i <= Len(t)
    BY <1>1
  <1>3. "query" \in At1(t, i, R) <=> QueryRefused(t, i, R)
    BY <1>2 DEF At1
  <1>4. "list" \in At1(t, i, R) <=> ListRefused(t, i, R)
    BY <1>2 DEF At1
  <1> QED BY <1>2, <1>3, <1>4 DEF R

\* A query that is a verb is refused when it is a DELETE.
LEMMA VerbRefused ==
    ASSUME NEW t, Len(t) \in Nat, NEW i \in 1..Len(t), t[i].w \in {"SELECT", "DELETE"}
    PROVE  "query" \in Refusals(t)[i] <=> t[i].w = "DELETE"
  <1>1. "query" \in Refusals(t)[i] <=> QueryRefused(t, i, Refusals(t))
    BY RefusedAt
  <1>2. QueryRefused(t, i, Refusals(t)) <=> t[i].w = "DELETE"
    BY DEF QueryRefused
  <1> QED BY <1>1, <1>2

\* A list is refused for the common table expression it begins with, or for what follows that.
LEMMA CteRefused ==
    ASSUME NEW t \in Seq(AToken), NEW i, NEW verb \in {"SELECT", "DELETE"}, NEW d, CteAt(t, i, verb, d),
           i + 6 <= Len(t)
    PROVE  "list" \in Refusals(t)[i] <=>
               verb = "DELETE"
                 \/ (IF t[i + 6].w = Comma THEN "list" \in Refusals(t)[i + 7] ELSE "query" \in Refusals(t)[i + 6])
  <1> DEFINE R == Refusals(t)
  <1>0. Len(t) \in Nat /\ DOMAIN t = 1..Len(t)
    OBVIOUS
  <1>1. /\ i \in Nat /\ i > 0 /\ i \in 1..Len(t) /\ i + 1 \in 1..Len(t) /\ i + 2 \in 1..Len(t)
        /\ i + 3 \in 1..Len(t)
        /\ i + 4 \in 1..Len(t) /\ i + 5 \in 1..Len(t) /\ i + 6 \in 1..Len(t)
    BY <1>0 DEF CteAt
  <1>2. /\ t[i].w = "name" /\ t[i + 1].w = "AS" /\ t[i + 2].w = "(" /\ t[i + 2].d = d /\ t[i + 3].w = verb
        /\ t[i + 4].w \in {"name", "COPY"} /\ t[i + 5].w = ")" /\ t[i + 5].d = d
    BY DEF CteAt, Tok
  <1>3. Closing(t, i + 2) = i + 5
    <2>1. i + 5 \in (i + 2) + 1..Len(t)
      BY <1>1
    <2>2. ASSUME NEW j \in (i + 2) + 1..(i + 5) - 1 PROVE t[j].w # ")"
      <3>1. j = i + 3 \/ j = i + 4
        BY <1>1
      <3> QED BY <1>2, <3>1
    <2>3. i + 2 \in 1..Len(t) /\ t[i + 5].d = t[i + 2].d
      BY <1>1, <1>2
    <2> QED BY <1>0, <1>2, <2>1, <2>2, <2>3, ClosesFirst
  <1>4. IsName(t, i) /\ W(t, i + 1) = "AS" /\ W(t, i + 2) = "(" /\ W(t, i + 6) = t[i + 6].w
    <2>1. W(t, i) = "name" /\ W(t, i + 1) = "AS" /\ W(t, i + 2) = "(" /\ W(t, i + 6) = t[i + 6].w
      BY <1>0, <1>1, <1>2 DEF W
    <2> QED BY <2>1 DEF IsName, Names
  <1> DEFINE columns == IF W(t, i + 1) = "(" THEN Closing(t, i + 1) + 1 ELSE i + 1
             body == IF W(t, columns + 1) = "MATERIALIZED" THEN columns + 2 ELSE columns + 1
             after == Closing(t, body) + 1
  <1>5. columns = i + 1
    BY <1>4
  <1>6. ListRefused(t, i, R) <=>
            \/ ~IsName(t, i)
            \/ /\ columns <= Len(t)
               /\ \/ W(t, columns) # "AS"
                  \/ /\ body <= Len(t)
                     /\ \/ W(t, body) # "("
                        \/ "query" \in R[body + 1]
                        \/ /\ after <= Len(t)
                           /\ IF W(t, after) = Comma THEN "list" \in R[after + 1] ELSE "query" \in R[after]
    BY DEF ListRefused
  <1> HIDE DEF columns, R
  <1>7. body = i + 2
    <2>1. columns + 1 = i + 2
      BY <1>1, <1>5
    <2> QED BY <1>4, <2>1
  <1> HIDE DEF body
  <1>8. after = i + 6
    <2>1. (i + 5) + 1 = i + 6
      BY <1>1
    <2> QED BY <1>3, <1>7, <2>1
  <1> HIDE DEF after
  <1>9. columns <= Len(t) /\ body <= Len(t) /\ after <= Len(t) /\ body + 1 = i + 3 /\ after + 1 = i + 7
    BY <1>0, <1>1, <1>5, <1>7, <1>8
  <1>10. "query" \in R[i + 3] <=> verb = "DELETE"
    BY <1>0, <1>1, <1>2, VerbRefused DEF R
  <1>11. ListRefused(t, i, R) <=>
            \/ "query" \in R[i + 3]
            \/ IF t[i + 6].w = Comma THEN "list" \in R[i + 7] ELSE "query" \in R[i + 6]
    BY <1>4, <1>5, <1>6, <1>7, <1>8, <1>9
  <1>12. "list" \in R[i] <=> ListRefused(t, i, R)
    BY <1>0, <1>1, RefusedAt DEF R
  <1> QED BY <1>10, <1>11, <1>12 DEF R

\* A clean query with a list, token by token.
LEMMA NestedClean ==
    ASSUME NEW x, Formed(x), x.ctes # <<>>, CleanParts(x), NEW d \in Nat
    PROVE  LET t == Nested(x, d)
               n == Len(x.ctes)
           IN  /\ t \in Seq(AToken) /\ Len(t) = 7 * n + 2 /\ t[1] = Tok("WITH", d)
               /\ t[7 * n + 1] = Tok(x.verb, d)
               /\ \A k \in 1..n : CteAt(t, 7 * k - 5, x.ctes[k].verb, d)
               /\ \A k \in 1..n - 1 : t[7 * k + 1] = Tok(Comma, d)
  <1> DEFINE n == Len(x.ctes)
             t == Nested(x, d)
             l == List(x, d)
             f == Flat(x, d)
  <1>1. n \in Nat /\ n > 0 /\ Verb(x)
    BY FormedParts
  <1>2. Len(l) = 7 * n - 1 /\ (\A k \in 1..n : CteAt(l, 7 * k - 6, x.ctes[k].verb, d))
          /\ \A k \in 1..n - 1 : l[7 * k] = Tok(Comma, d)
    BY CleanList
  <1>3. /\ t \in Seq(AToken) /\ Len(t) = 1 + Len(l) + Len(f) /\ t[1] = Tok("WITH", d)
        /\ Stands(t, 1, l) /\ Stands(t, 1 + Len(l), f)
    BY NestedText
  <1>4. Len(f) = 2 /\ f[1] = Tok(x.verb, d)
    BY <1>1, FlatText DEF CleanParts, Clean
  <1> HIDE DEF n, t, l, f
  <1>5. Len(t) = 7 * n + 2 /\ Len(t) \in Nat /\ Len(l) \in Nat
    BY <1>1, <1>2, <1>3, <1>4
  <1>6. t[7 * n + 1] = Tok(x.verb, d)
    <2>1. t[(1 + Len(l)) + 1] = f[1]
      BY <1>3, <1>4 DEF Stands
    <2>2. (1 + Len(l)) + 1 = 7 * n + 1
      BY <1>1, <1>2
    <2> QED BY <1>4, <2>1, <2>2
  <1>7. ASSUME NEW k \in 1..n PROVE CteAt(t, 7 * k - 5, x.ctes[k].verb, d)
    <2>1. CteAt(t, 1 + (7 * k - 6), x.ctes[k].verb, d)
      BY <1>2, <1>3, <1>5, CteStands
    <2>2. 1 + (7 * k - 6) = 7 * k - 5
      BY <1>1
    <2> QED BY <2>1, <2>2
  <1>8. ASSUME NEW k \in 1..n - 1 PROVE t[7 * k + 1] = Tok(Comma, d)
    <2>1. 7 * k \in 1..Len(l) /\ 1 + 7 * k = 7 * k + 1
      BY <1>1, <1>2
    <2> QED BY <1>2, <1>3, <2>1 DEF Stands
  <1> QED BY <1>3, <1>5, <1>6, <1>7, <1>8 DEF n, t

\* The list of a clean query, wherever it stands, is refused exactly when a part of it deletes.
LEMMA ListVerdict ==
    ASSUME NEW x, Formed(x), x.ctes # <<>>, CleanParts(x), NEW d \in Nat, NEW t \in Seq(AToken), NEW b,
           Stands(t, b, Nested(x, d))
    PROVE  "list" \in Refusals(t)[b + 2] <=> x.verb = "DELETE"
             \/ \E k \in 1..Len(x.ctes) : x.ctes[k].verb = "DELETE"
  <1> DEFINE n == Len(x.ctes)
             s == Nested(x, d)
             R == Refusals(t)
  <1>1. n \in Nat /\ n > 0 /\ x.verb \in {"SELECT", "DELETE"} /\ \A k \in 1..n : x.ctes[k].verb \in {"SELECT",
          "DELETE"}
    BY FormedParts DEF Verb
  <1>2. /\ s \in Seq(AToken) /\ Len(s) = 7 * n + 2 /\ s[7 * n + 1] = Tok(x.verb, d)
        /\ \A k \in 1..n : CteAt(s, 7 * k - 5, x.ctes[k].verb, d)
        /\ \A k \in 1..n - 1 : s[7 * k + 1] = Tok(Comma, d)
    BY NestedClean
  <1>3. Stands(t, b, s) /\ Len(t) \in Nat
    OBVIOUS
  <1> HIDE DEF n, s
  <1>4. b \in Nat /\ b + (7 * n + 2) <= Len(t)
    BY <1>2, <1>3 DEF Stands
  <1>5. ASSUME NEW k \in 1..n
        PROVE  "list" \in R[b + (7 * k - 5)] <=>
                   \/ x.ctes[k].verb = "DELETE"
                   \/ IF k = n THEN x.verb = "DELETE" ELSE "list" \in R[b + (7 * (k + 1) - 5)]
    <2> DEFINE i == b + (7 * k - 5)
               verb == x.ctes[k].verb
    <2>1. CteAt(t, i, verb, d) /\ verb \in {"SELECT", "DELETE"}
      BY <1>1, <1>2, <1>3, CteStands
    <2>2. /\ i + 6 <= Len(t) /\ i + 6 = b + (7 * k + 1) /\ i + 7 = b + (7 * (k + 1) - 5)
          /\ 7 * k + 1 \in 1..Len(s) /\ i + 6 \in 1..Len(t)
      BY <1>1, <1>2, <1>4
    <2>3. t[i + 6] = s[7 * k + 1]
      BY <1>3, <2>2 DEF Stands
    <2> HIDE DEF i, verb
    <2>4. "list" \in R[i] <=> verb = "DELETE"
            \/ (IF t[i + 6].w = Comma THEN "list" \in R[i + 7] ELSE "query" \in R[i + 6])
      BY <2>1, <2>2, CteRefused
    <2>5. CASE k = n
      <3>1. t[i + 6].w = x.verb
        BY <1>2, <2>3, <2>5 DEF Tok
      <3>2. t[i + 6].w # Comma
        BY <1>1, <3>1, CommaApart
      <3>3. "query" \in R[i + 6] <=> x.verb = "DELETE"
        BY <1>1, <1>3, <2>2, <3>1, VerbRefused
      <3> QED BY <2>4, <2>5, <3>2, <3>3 DEF i, verb
    <2>6. CASE k # n
      <3>1. k \in 1..n - 1
        BY <1>1, <2>6
      <3>2. t[i + 6].w = Comma
        BY <1>2, <2>3, <3>1 DEF Tok
      <3> QED BY <2>2, <2>4, <2>6, <3>2 DEF i, verb
    <2> QED BY <2>5, <2>6
  <1> DEFINE Bad(k) == x.verb = "DELETE" \/ \E h \in k..n : x.ctes[h].verb = "DELETE"
             P == {k \in 0..n : k = 0 \/ ("list" \in R[b + (7 * k - 5)] <=> Bad(k))}
  <1>6. n \in P
    <2>1. n \in 1..n /\ \A h \in n..n : h = n
      BY <1>1
    <2>2. Bad(n) <=> x.verb = "DELETE" \/ x.ctes[n].verb = "DELETE"
      BY <1>1, <2>1
    <2> HIDE DEF Bad, R
    <2> QED BY <1>1, <1>5, <2>1, <2>2
  <1>7. ASSUME NEW k \in 0..n - 1, k + 1 \in P PROVE k \in P
    <2>1. CASE k = 0
      BY <1>1, <2>1
    <2>2. CASE k # 0
      <3>1. k \in 1..n /\ k # n /\ k \in 0..n /\ k + 1 # 0
        BY <1>1, <2>2
      <3>2. Bad(k) <=> x.ctes[k].verb = "DELETE" \/ Bad(k + 1)
        <4>1. \A h \in k..n : h = k \/ h \in k + 1..n
          BY <3>1
        <4>2. k \in k..n /\ \A h \in k + 1..n : h \in k..n
          BY <1>1, <3>1
        <4> QED BY <4>1, <4>2
      <3>3. "list" \in R[b + (7 * (k + 1) - 5)] <=> Bad(k + 1)
        BY <1>7, <3>1
      <3> HIDE DEF Bad, R
      <3>4. "list" \in R[b + (7 * k - 5)] <=> Bad(k)
        BY <1>5, <3>1, <3>2, <3>3
      <3> QED BY <3>1, <3>4
    <2> QED BY <2>1, <2>2
  <1>8. 1 \in P
    <2> HIDE DEF P
    <2>1. 0..n \subseteq P
      BY <1>1, <1>6, <1>7, ScanDown
    <2>2. 1 \in 0..n
      BY <1>1
    <2> QED BY <2>1, <2>2
  <1>9. b + (7 * 1 - 5) = b + 2
    BY <1>4
  <1>10. "list" \in R[b + 2] <=> Bad(1)
    BY <1>8, <1>9
  <1> QED BY <1>10 DEF n

\* A query in parentheses, and the one it is in.
HasSub(q) == q.sub = <<q.sub[1]>> /\ Nestable(q.sub[1])

\* A query's text begins with its verb or with WITH, and its own verb stands in it.
LEMMA NestedSeq ==
    ASSUME NEW x, Formed(x), NEW d \in Nat
    PROVE  /\ Nested(x, d) \in Seq(AToken) /\ Len(Nested(x, d)) \in Nat /\ Len(Nested(x, d)) >= 2
           /\ Nested(x, d)[1].w = IF x.ctes = <<>> THEN x.verb ELSE "WITH"
           /\ \E b \in Nat : (x.ctes # <<>> => b > 0) /\ (x.ctes = <<>> => b = 0) /\ Stands(Nested(x, d), b,
                Flat(x, d))
  <1> DEFINE t == Nested(x, d)
             f == Flat(x, d)
  <1>1. f \in Seq(AToken) /\ Len(f) \in 2..4 /\ f[1] = Tok(x.verb, d)
    BY FlatText, FormedParts
  <1>0. \A m \in 2..4 : m >= 2 /\ m \in Nat
    OBVIOUS
  <1>2. CASE x.ctes = <<>>
    <2>1. t = f
      BY <1>1, <1>2, PlainText
    <2> HIDE DEF t, f
    <2>2. Len(f) >= 2 /\ Len(f) \in Nat
      BY <1>0, <1>1
    <2>3. f[1].w = x.verb
      BY <1>1 DEF Tok
    <2>4. Stands(f, 0, f)
      BY <2>2 DEF Stands
    <2> QED BY <1>1, <1>2, <2>1, <2>2, <2>3, <2>4 DEF t, f
  <1>3. CASE x.ctes # <<>>
    <2> DEFINE l == List(x, d)
    <2>1. /\ t \in Seq(AToken) /\ Len(t) = 1 + Len(l) + Len(f) /\ t[1] = Tok("WITH", d)
          /\ Stands(t, 1 + Len(l), f)
      BY <1>3, NestedText
    <2>2. Len(l) \in Nat
      BY ListText
    <2> HIDE DEF t, f, l
    <2>3. Len(f) >= 2 /\ Len(f) \in Nat
      BY <1>0, <1>1
    <2>4. Len(t) \in Nat /\ Len(t) >= 2 /\ 1 + Len(l) \in Nat /\ 1 + Len(l) > 0
      BY <2>1, <2>2, <2>3
    <2>5. t[1].w = "WITH"
      BY <2>1 DEF Tok
    <2> QED BY <1>3, <2>1, <2>4, <2>5 DEF t, f
  <1> QED BY <1>2, <1>3

\* Where a query and the one in parentheses stand in the text.
LEMMA TokensText ==
    ASSUME NEW q, Formed(q)
    PROVE  LET t == Tokens(q)
               s == Nested(q, 0)
               u == Nested(q.sub[1], 1)
           IN  /\ q.sub = <<>> => t = s
               /\ HasSub(q) => /\ t \in Seq(AToken) /\ Len(t) = Len(s) + Len(u) + 3 /\ Stands(t, 0, s)
                               /\ t[Len(s) + 1].w = "FROM" /\ t[Len(s) + 2].w = "("
                               /\ t[Len(s) + Len(u) + 3].w = ")"
                               /\ Stands(t, Len(s) + 2, u)
  <1> DEFINE t == Tokens(q)
             s == Nested(q, 0)
             u == Nested(q.sub[1], 1)
             a == Words(<<"FROM", "(">>, 0)
             z == Words(<<")">>, 0)
             v == a \o u
             w == v \o z
  <1>1. s \in Seq(AToken) /\ Len(s) \in Nat
    BY NestedSeq
  <1>2. ASSUME q.sub = <<>> PROVE t = s
    <2>1. t = s \o <<>>
      BY <1>2 DEF Tokens
    <2> HIDE DEF t, s
    <2>2. s \o <<>> = s
      BY <1>1
    <2> QED BY <2>1, <2>2
  <1>3. ASSUME HasSub(q)
        PROVE  /\ t \in Seq(AToken) /\ Len(t) = Len(s) + Len(u) + 3 /\ Stands(t, 0, s)
               /\ t[Len(s) + 1].w = "FROM" /\ t[Len(s) + 2].w = "(" /\ t[Len(s) + Len(u) + 3].w = ")"
               /\ Stands(t, Len(s) + 2, u)
    <2>0. q.sub # <<>>
      <3>1. q.sub = <<q.sub[1]>>
        BY <1>3 DEF HasSub
      <3> QED BY <3>1
    <2>1. t = s \o w
      BY <2>0 DEF Tokens
    <2>2. u \in Seq(AToken) /\ Len(u) \in Nat
      BY <1>3, NestedSeq DEF HasSub, Nestable
    <2>3. a \in Seq(AToken) /\ Len(a) = 2 /\ a[1] = Tok("FROM", 0) /\ a[2] = Tok("(", 0)
      BY WordsHas, Words2
    <2>4. z \in Seq(AToken) /\ Len(z) = 1 /\ z[1] = Tok(")", 0)
      BY WordsHas, Words1
    <2>5. v = a \o u /\ w = v \o z
      OBVIOUS
    <2> HIDE DEF t, s, u, a, z, v, w
    <2>6. /\ v \in Seq(AToken) /\ Len(v) = Len(a) + Len(u) /\ Len(v) \in Nat /\ Len(a) \in Nat
          /\ Stands(v, 0, a) /\ Stands(v, Len(a), u)
      BY <2>2, <2>3, <2>5, Behind
    <2>7. /\ w \in Seq(AToken) /\ Len(w) = Len(v) + Len(z) /\ Len(w) \in Nat /\ Len(z) \in Nat
          /\ Stands(w, 0, v) /\ Stands(w, Len(v), z)
      BY <2>4, <2>5, <2>6, Behind
    <2>8. /\ t \in Seq(AToken) /\ Len(t) = Len(s) + Len(w) /\ Len(t) \in Nat
          /\ Stands(t, 0, s) /\ Stands(t, Len(s), w)
      BY <1>1, <2>1, <2>7, Behind
    <2>9. Stands(t, Len(s) + 0, v)
      BY <1>1, <2>6, <2>7, <2>8, StandsIn
    <2>10. Stands(t, Len(s) + Len(v), z)
      BY <1>1, <2>6, <2>7, <2>8, StandsIn
    <2>11. Len(s) + 0 = Len(s)
      BY <1>1
    <2>12. Stands(t, Len(s), v)
      BY <2>9, <2>11
    <2>13. Stands(t, Len(s) + 0, a)
      BY <1>1, <2>6, <2>8, <2>12, StandsIn
    <2>14. Stands(t, Len(s) + Len(a), u)
      BY <1>1, <2>2, <2>6, <2>8, <2>12, StandsIn
    <2>15. t[Len(s) + 1] = a[1] /\ t[Len(s) + 2] = a[2]
      BY <2>3, <2>11, <2>13 DEF Stands
    <2>16. t[(Len(s) + Len(v)) + 1] = z[1]
      BY <2>4, <2>10 DEF Stands
    <2>17. /\ (Len(s) + Len(v)) + 1 = Len(s) + Len(u) + 3 /\ Len(t) = Len(s) + Len(u) + 3
           /\ Len(s) + Len(a) = Len(s) + 2
      BY <1>1, <2>2, <2>3, <2>4, <2>6, <2>7, <2>8
    <2>18. t[Len(s) + 1].w = "FROM" /\ t[Len(s) + 2].w = "(" /\ t[Len(s) + Len(u) + 3].w = ")"
      BY <2>3, <2>4, <2>15, <2>16, <2>17 DEF Tok
    <2> QED BY <2>8, <2>14, <2>17, <2>18
  <1> QED BY <1>2, <1>3

\* A query begins with its first word.
LEMMA FirstOne ==
    ASSUME NEW t \in Seq(AToken), Len(t) > 0, t[1].w \in {"WITH", "SELECT", "DELETE"}
    PROVE  First(t) = 1 /\ W(t, 1) = t[1].w
  <1> DEFINE I == {i \in 1..Len(t) : t[i].w \notin {"(", Semicolon}}
  <1>0. Len(t) \in Nat /\ DOMAIN t = 1..Len(t) /\ 1 \in 1..Len(t)
    OBVIOUS
  <1>1. Semicolon # "WITH" /\ Semicolon # "SELECT" /\ Semicolon # "DELETE"
    BY DEF Semicolon
  <1>2. 1 \in I
    BY <1>0, <1>1
  <1>3. First(t) = IF I # {} THEN Min(I) ELSE 0
    BY DEF First, SelectInSeq
  <1>4. \A i \in I : 1 <= i /\ i \in Nat
    BY <1>0
  <1> HIDE DEF I
  <1>5. Min(I) = CHOOSE i \in I : \A j \in I : i <= j
    BY DEF Min
  <1>6. \A i \in I : (\A j \in I : i <= j) => i = 1
    <2> SUFFICES ASSUME NEW i \in I, \A j \in I : i <= j PROVE i = 1
      OBVIOUS
    <2>1. i <= 1 /\ 1 <= i /\ i \in Nat
      BY <1>2, <1>4
    <2> QED BY <2>1
  <1>7. First(t) = 1
    BY <1>2, <1>3, <1>4, <1>5, <1>6
  <1> QED BY <1>0, <1>7 DEF W

\* What writes, locks or sets behind a verb is seen wherever it stands.
LEMMA TailSeen ==
    ASSUME NEW t \in Seq(AToken), NEW x, Verb(x), ~Clean(x), NEW d \in Nat, NEW b, Stands(t, b, Flat(x, d))
    PROVE  \E i \in 2..Len(t) : t[i].w = "INTO" \/ Phrase(t, i)
  <1> DEFINE f == Flat(x, d)
  <1>0. Len(t) \in Nat /\ DOMAIN t = 1..Len(t)
    OBVIOUS
  <1>1. /\ f \in Seq(AToken) /\ Len(f) \in 2..4
        /\ x.tail = "into" => Len(f) = 3 /\ f[2] = Tok("INTO", d)
        /\ x.tail = "lock" => Len(f) = 3 /\ f[2] = Tok("FOR", d) /\ f[3] = Tok("UPDATE", d)
        /\ x.tail = "call" => Len(f) = 4 /\ f[2] = Tok("set_config", d) /\ f[3] = Tok("(", d)
    BY FlatText
  <1>2. b \in Nat /\ b + Len(f) <= Len(t) /\ \A j \in 1..Len(f) : t[b + j] = f[j]
    BY DEF Stands
  <1> HIDE DEF f
  <1>3. x.tail \in {"into", "lock", "call"}
    BY DEF Verb, Clean
  <1>4. CASE x.tail = "into"
    <2>0. Len(f) = 3
      BY <1>1, <1>4
    <2>1. b + 2 \in 2..Len(t) /\ t[b + 2] = f[2]
      BY <1>0, <1>2, <2>0
    <2>2. t[b + 2].w = "INTO"
      BY <1>1, <1>4, <2>1 DEF Tok
    <2> QED BY <2>1, <2>2
  <1>5. CASE x.tail \in {"lock", "call"}
    <2>1. /\ b + 2 \in 2..Len(t) /\ b + 2 \in 1..Len(t) /\ (b + 2) + 1 \in 1..Len(t)
          /\ (b + 2) + 1 = b + 3 /\ t[b + 2] = f[2] /\ t[b + 3] = f[3]
      BY <1>0, <1>1, <1>2, <1>5, SMTT(60)
    <2>2. W(t, b + 2) = f[2].w /\ W(t, (b + 2) + 1) = f[3].w
      BY <1>0, <2>1 DEF W
    <2>3. \/ W(t, b + 2) = "FOR" /\ W(t, (b + 2) + 1) = "UPDATE"
          \/ W(t, b + 2) = "set_config" /\ W(t, (b + 2) + 1) = "("
      BY <1>1, <1>5, <2>2 DEF Tok
    <2>4. Phrase(t, b + 2)
      BY <2>3 DEF Phrase
    <2> QED BY <2>1, <2>4
  <1> QED BY <1>3, <1>4, <1>5

\* So is a verb behind another word.
LEMMA VerbSeen ==
    ASSUME NEW t \in Seq(AToken), NEW x, Verb(x), NEW d \in Nat, NEW b, b > 0, Stands(t, b, Flat(x, d))
    PROVE  \E i \in 2..Len(t) : t[i].w = x.verb
  <1> DEFINE f == Flat(x, d)
  <1>1. f \in Seq(AToken) /\ Len(f) \in 2..4 /\ f[1] = Tok(x.verb, d)
    BY FlatText
  <1>2. b \in Nat /\ b + Len(f) <= Len(t) /\ \A j \in 1..Len(f) : t[b + j] = f[j]
    BY DEF Stands
  <1> HIDE DEF f
  <1>3. Len(t) \in Nat
    OBVIOUS
  <1>4. b + 1 \in 2..Len(t) /\ t[b + 1] = f[1]
    BY <1>1, <1>2, <1>3
  <1>5. t[b + 1].w = x.verb
    BY <1>1, <1>4 DEF Tok
  <1> QED BY <1>4, <1>5

\* A query in a text: what a reader of it would find writing.
HarmsIn(x) == Harmful(x) \/ \E k \in 1..Len(x.ctes) : Harmful(x.ctes[k])

\* What harms in a query is seen at a place of the text, unless it is a DELETE and all else is clean.
LEMMA HarmSeen ==
    ASSUME NEW x, Formed(x), HarmsIn(x), NEW d \in Nat, NEW t \in Seq(AToken), NEW b, Stands(t, b, Nested(x, d))
    PROVE  \/ \E i \in 2..Len(t) : t[i].w = "INTO" \/ Phrase(t, i)
           \/ /\ CleanParts(x)
              /\ x.verb = "DELETE" \/ \E k \in 1..Len(x.ctes) : x.ctes[k].verb = "DELETE"
              /\ (\E i \in 2..Len(t) : t[i].w = "DELETE") \/ (b = 0 /\ x.ctes = <<>>)
  <1> DEFINE s == Nested(x, d)
  <1>1. Verb(x) /\ Len(x.ctes) \in Nat /\ \A k \in 1..Len(x.ctes) : Verb(x.ctes[k])
    BY FormedParts
  <1>2. s \in Seq(AToken) /\ Len(s) \in Nat /\ Len(t) \in Nat
    BY NestedSeq
  <1>3. PICK c \in Nat : (x.ctes # <<>> => c > 0) /\ (x.ctes = <<>> => c = 0) /\ Stands(s, c, Flat(x, d))
    BY NestedSeq
  <1>4. \A k \in 1..Len(x.ctes) : \E e \in Nat : e > 0 /\ Stands(s, e, Flat(x.ctes[k], d + 1))
    BY PartStands
  <1>5. Stands(t, b, s) /\ b \in Nat
    BY DEF Stands
  <1> HIDE DEF s
  <1>6. Stands(t, b + c, Flat(x, d))
    <2>1. Flat(x, d) \in Seq(AToken)
      BY <1>1, FlatText
    <2>2. Len(Flat(x, d)) \in Nat
      BY <2>1
    <2> QED BY <1>2, <1>3, <1>5, <2>2, StandsIn
  <1>7. ASSUME NEW k \in 1..Len(x.ctes) PROVE \E e \in Nat : e > 0 /\ Stands(t, e, Flat(x.ctes[k], d + 1))
    <2>1. PICK e \in Nat : e > 0 /\ Stands(s, e, Flat(x.ctes[k], d + 1))
      BY <1>4
    <2>0. d + 1 \in Nat /\ Verb(x.ctes[k])
      BY <1>1
    <2>2. Flat(x.ctes[k], d + 1) \in Seq(AToken)
      BY <2>0, FlatText
    <2>3. Len(Flat(x.ctes[k], d + 1)) \in Nat
      BY <2>2
    <2>4. Stands(t, b + e, Flat(x.ctes[k], d + 1))
      BY <1>2, <1>5, <2>1, <2>3, StandsIn
    <2>5. b + e \in Nat /\ b + e > 0
      BY <1>5, <2>1
    <2> QED BY <2>4, <2>5
  <1>8. CASE ~Clean(x)
    BY <1>1, <1>6, <1>8, TailSeen
  <1>9. CASE \E k \in 1..Len(x.ctes) : ~Clean(x.ctes[k])
    <2>1. PICK k \in 1..Len(x.ctes) : ~Clean(x.ctes[k])
      BY <1>9
    <2>2. PICK e \in Nat : e > 0 /\ Stands(t, e, Flat(x.ctes[k], d + 1))
      BY <1>7
    <2>3. d + 1 \in Nat /\ Verb(x.ctes[k])
      BY <1>1
    <2> QED BY <2>1, <2>2, <2>3, TailSeen
  <1>10. CASE CleanParts(x)
    <2>1. \A y : Clean(y) /\ Harmful(y) => y.verb = "DELETE"
      BY DEF Clean, Harmful
    <2>2. Clean(x) /\ \A k \in 1..Len(x.ctes) : Clean(x.ctes[k])
      BY <1>10 DEF CleanParts
    <2>3. x.verb = "DELETE" \/ \E k \in 1..Len(x.ctes) : x.ctes[k].verb = "DELETE"
      BY <2>1, <2>2 DEF HarmsIn
    <2>4. CASE x.verb = "DELETE"
      <3>1. CASE b + c > 0
        <4>1. \E i \in 2..Len(t) : t[i].w = "DELETE"
          BY <1>1, <1>6, <2>4, <3>1, VerbSeen
        <4> QED BY <1>10, <2>3, <4>1
      <3>2. CASE b + c = 0
        <4>1. b = 0 /\ c = 0 /\ ~(c > 0)
          BY <1>5, <3>2
        <4> QED BY <1>3, <1>10, <2>3, <4>1
      <3> QED BY <1>3, <1>5, <3>1, <3>2
    <2>5. CASE \E k \in 1..Len(x.ctes) : x.ctes[k].verb = "DELETE"
      <3>1. PICK k \in 1..Len(x.ctes) : x.ctes[k].verb = "DELETE"
        BY <2>5
      <3>2. PICK e \in Nat : e > 0 /\ Stands(t, e, Flat(x.ctes[k], d + 1))
        BY <1>7
      <3>3. d + 1 \in Nat /\ Verb(x.ctes[k])
        BY <1>1
      <3>4. \E i \in 2..Len(t) : t[i].w = x.ctes[k].verb
        BY <3>2, <3>3, VerbSeen
      <3> QED BY <1>10, <2>3, <3>1, <3>4
    <2> QED BY <2>3, <2>4, <2>5
  <1> QED BY <1>8, <1>9, <1>10 DEF CleanParts

\* A text's query, and the one in parentheses in it.
LEMMA QueryText ==
    ASSUME NEW q, Formed(q), q.sub = <<>> \/ HasSub(q)
    PROVE  LET t == Tokens(q)
               s == Nested(q, 0)
               u == Nested(q.sub[1], 1)
           IN  /\ t \in Seq(AToken) /\ Len(t) \in Nat /\ Len(t) > 0 /\ Stands(t, 0, s) /\ First(t) = 1
               /\ 1 \in 1..Len(t) /\ W(t, 1) = t[1].w /\ t[1].w = IF q.ctes = <<>> THEN q.verb ELSE "WITH"
               /\ QueryHarms(q) <=> HarmsIn(q) \/ (HasSub(q) /\ HarmsIn(q.sub[1]))
               /\ HasSub(q) => /\ Formed(q.sub[1]) /\ (q.sub[1].ctes = <<>> => q.sub[1].verb = "SELECT")
                               /\ Stands(t, Len(s) + 2, u) /\ Len(s) + 2 \in 1..Len(t)
                               /\ t[Len(s) + 2].w = "("
                               /\ Len(s) + 3 \in 2..Len(t) /\ t[Len(s) + 3] = u[1]
  <1> DEFINE t == Tokens(q)
             s == Nested(q, 0)
             y == q.sub[1]
             u == Nested(y, 1)
  <1>0. ~(q.sub = <<>> /\ HasSub(q)) /\ (HasSub(q) => DOMAIN q.sub = {1}) /\ (q.sub = <<>> => DOMAIN q.sub = {})
    <2>1. ASSUME HasSub(q) PROVE q.sub # <<>> /\ DOMAIN q.sub = {1}
      <3>1. q.sub = <<q.sub[1]>>
        BY <2>1 DEF HasSub
      <3> QED BY <3>1
    <2> QED BY <2>1
  <1>1. Verb(q) /\ DOMAIN q.ctes = 1..Len(q.ctes)
    BY FormedParts
  <1>2. s \in Seq(AToken) /\ Len(s) \in Nat /\ Len(s) >= 2 /\ s[1].w = IF q.ctes = <<>> THEN q.verb ELSE "WITH"
    BY NestedSeq
  <1>3. HasSub(q) => Formed(y) /\ (y.ctes = <<>> => y.verb = "SELECT") /\ DOMAIN y.ctes = 1..Len(y.ctes)
    BY FormedParts DEF HasSub, Nestable
  <1>4. HasSub(q) => u \in Seq(AToken) /\ Len(u) \in Nat /\ Len(u) >= 2
    BY <1>3, NestedSeq
  <1>5. /\ q.sub = <<>> => t = s
        /\ HasSub(q) => /\ t \in Seq(AToken) /\ Len(t) = Len(s) + Len(u) + 3 /\ Stands(t, 0, s)
                        /\ t[Len(s) + 1].w = "FROM" /\ t[Len(s) + 2].w = "(" /\ t[Len(s) + Len(u) + 3].w = ")"
                        /\ Stands(t, Len(s) + 2, u)
    BY TokensText
  <1>6. QueryHarms(q) <=> HarmsIn(q) \/ \E k \in DOMAIN q.sub : Harmful(q.sub[k])
          \/ \E h \in DOMAIN q.sub[k].ctes : Harmful(q.sub[k].ctes[h])
    BY <1>1 DEF QueryHarms, HarmsIn
  <1>7. QueryHarms(q) <=> HarmsIn(q) \/ (HasSub(q) /\ HarmsIn(y))
    <2>1. CASE q.sub = <<>>
      BY <1>0, <1>6, <2>1
    <2>2. CASE HasSub(q)
      <3>1. \A k \in DOMAIN q.sub : k = 1
        BY <1>0, <2>2
      <3>2. 1 \in DOMAIN q.sub
        BY <1>0, <2>2
      <3> QED BY <1>3, <1>6, <2>2, <3>1, <3>2 DEF HarmsIn
    <2> QED BY <2>1, <2>2
  <1> HIDE DEF t, s, u, y
  <1>8. t \in Seq(AToken) /\ Len(t) \in Nat /\ Len(t) > 0 /\ Stands(t, 0, s) /\ 1 \in 1..Len(t)
    <2>1. CASE q.sub = <<>>
      <3>1. Stands(s, 0, s)
        BY <1>2 DEF Stands
      <3> QED BY <1>2, <1>5, <2>1, <3>1
    <2>2. CASE HasSub(q)
      BY <1>2, <1>4, <1>5, <2>2
    <2> QED BY <2>1, <2>2
  <1>9. t[1].w = IF q.ctes = <<>> THEN q.verb ELSE "WITH"
    <2>1. t[0 + 1] = s[1]
      BY <1>2, <1>8 DEF Stands
    <2> QED BY <1>2, <2>1
  <1>10. First(t) = 1 /\ W(t, 1) = t[1].w
    <2>1. t[1].w \in {"WITH", "SELECT", "DELETE"}
      BY <1>1, <1>9 DEF Verb
    <2> QED BY <1>8, <2>1, FirstOne
  <1>11. HasSub(q) => /\ Stands(t, Len(s) + 2, u) /\ Len(s) + 2 \in 1..Len(t) /\ t[Len(s) + 2].w = "("
                      /\ Len(s) + 3 \in 2..Len(t) /\ t[Len(s) + 3] = u[1]
    <2> SUFFICES ASSUME HasSub(q)
                 PROVE  /\ Stands(t, Len(s) + 2, u) /\ Len(s) + 2 \in 1..Len(t) /\ t[Len(s) + 2].w = "("
                        /\ Len(s) + 3 \in 2..Len(t) /\ t[Len(s) + 3] = u[1]
      OBVIOUS
    <2>1. t[(Len(s) + 2) + 1] = u[1]
      BY <1>4, <1>5 DEF Stands
    <2>2. (Len(s) + 2) + 1 = Len(s) + 3
      BY <1>2
    <2> QED BY <1>2, <1>4, <1>5, <2>1, <2>2
  <1> QED BY <1>3, <1>7, <1>8, <1>9, <1>10, <1>11 DEF t, s, u, y

\* A WITH is refused with its list.
LEMMA WithRefused ==
    ASSUME NEW t \in Seq(AToken), NEW i \in 1..Len(t), t[i].w = "WITH"
    PROVE  "query" \in Refusals(t)[i] <=> "list" \in Refusals(t)[i + 1]
  <1>1. Len(t) \in Nat
    OBVIOUS
  <1>2. "query" \in Refusals(t)[i] <=> QueryRefused(t, i, Refusals(t))
    BY <1>1, RefusedAt
  <1>3. QueryRefused(t, i, Refusals(t)) <=> "list" \in Refusals(t)[i + 1]
    BY DEF QueryRefused
  <1> QED BY <1>2, <1>3

\* No query that writes passes the guard of a raw text ...
LEMMA WriteRefusedRaw ==
    ASSUME NEW q, Formed(q), q.sub = <<>> \/ HasSub(q), QueryHarms(q), NEW engine
    PROVE  RawRefused(Tokens(q), engine)
  <1> DEFINE t == Tokens(q)
             s == Nested(q, 0)
             y == q.sub[1]
             u == Nested(y, 1)
  <1>1. /\ t \in Seq(AToken) /\ Stands(t, 0, s) /\ First(t) = 1 /\ W(t, 1) = t[1].w
             /\ t[1].w = IF q.ctes = <<>> THEN q.verb ELSE "WITH"
        /\ QueryHarms(q) <=> HarmsIn(q) \/ (HasSub(q) /\ HarmsIn(y))
        /\ HasSub(q) => Formed(y) /\ Stands(t, Len(s) + 2, u) /\ Len(s) + 2 \in 1..Len(t)
    BY QueryText
  <1>2. Len(s) \in Nat
    BY NestedSeq
  <1> HIDE DEF t, s, y, u
  <1>3. (\E i \in 2..Len(t) : t[i].w = "INTO" \/ Phrase(t, i) \/ t[i].w = "DELETE") \/ t[1].w = "DELETE"
    <2>1. CASE HarmsIn(q)
      <3>1. \/ \E i \in 2..Len(t) : t[i].w = "INTO" \/ Phrase(t, i)
            \/ /\ CleanParts(q)
               /\ q.verb = "DELETE" \/ \E k \in 1..Len(q.ctes) : q.ctes[k].verb = "DELETE"
               /\ (\E i \in 2..Len(t) : t[i].w = "DELETE") \/ (0 = 0 /\ q.ctes = <<>>)
        BY <1>1, <2>1, HarmSeen DEF s
      <3>2. q.ctes = <<>> => Len(q.ctes) = 0
        BY FormedParts
      <3>3. Len(q.ctes) = 0 => ~\E k \in 1..Len(q.ctes) : q.ctes[k].verb = "DELETE"
        OBVIOUS
      <3> QED BY <1>1, <3>1, <3>2, <3>3
    <2>2. CASE HasSub(q) /\ HarmsIn(y)
      <3> DEFINE b == Len(s) + 2
      <3>1. Stands(t, b, u) /\ b # 0
        BY <1>1, <1>2, <2>2
      <3> HIDE DEF b
      <3>2. \/ \E i \in 2..Len(t) : t[i].w = "INTO" \/ Phrase(t, i)
            \/ /\ CleanParts(y)
               /\ y.verb = "DELETE" \/ \E k \in 1..Len(y.ctes) : y.ctes[k].verb = "DELETE"
               /\ (\E i \in 2..Len(t) : t[i].w = "DELETE") \/ (b = 0 /\ y.ctes = <<>>)
        BY <1>1, <2>2, <3>1, HarmSeen DEF u
      <3> QED BY <3>1, <3>2
    <2> QED BY <1>1, <2>1, <2>2
  <1>4. CASE t[1].w = "DELETE"
    BY <1>1, <1>4 DEF RawRefused, t
  <1>5. CASE \E i \in 2..Len(t) : t[i].w = "INTO" \/ Phrase(t, i) \/ t[i].w = "DELETE"
    <2>1. PICK i \in 2..Len(t) : t[i].w = "INTO" \/ Phrase(t, i) \/ t[i].w = "DELETE"
      BY <1>5
    <2>2. i \in First(t) + 1..Len(t)
      BY <1>1
    <2>3. t[i].w \in Writing \/ Phrase(t, i)
      BY <2>1 DEF Writing
    <2>4. First(t) # 0
      BY <1>1
    <2> QED BY <2>2, <2>3, <2>4 DEF RawRefused, t
  <1> QED BY <1>3, <1>4, <1>5

\* ... or the guard of what a dialect rendered, which reads the structure only.
LEMMA WriteRefusedShape ==
    ASSUME NEW q, Formed(q), q.sub = <<>> \/ HasSub(q), QueryHarms(q), NEW engine
    PROVE  ShapeRefused(Tokens(q), engine)
  <1> DEFINE t == Tokens(q)
             s == Nested(q, 0)
             y == q.sub[1]
             u == Nested(y, 1)
             R == Refusals(t)
  <1>1. /\ t \in Seq(AToken) /\ Len(t) \in Nat /\ Stands(t, 0, s) /\ First(t) = 1 /\ W(t, 1) = t[1].w
        /\ 1 \in 1..Len(t)
        /\ t[1].w = IF q.ctes = <<>> THEN q.verb ELSE "WITH"
        /\ QueryHarms(q) <=> HarmsIn(q) \/ (HasSub(q) /\ HarmsIn(y))
        /\ HasSub(q) => /\ Formed(y) /\ (y.ctes = <<>> => y.verb = "SELECT")
                        /\ Stands(t, Len(s) + 2, u) /\ Len(s) + 2 \in 1..Len(t) /\ t[Len(s) + 2].w = "("
                        /\ Len(s) + 3 \in 2..Len(t) /\ t[Len(s) + 3] = u[1]
    BY QueryText
  <1>2. Len(s) \in Nat
    BY NestedSeq
  <1>3. CASE engine = "tsql"
    BY <1>3, WriteRefusedRaw DEF ShapeRefused
  <1>4. CASE engine # "tsql"
    <2>1. ShapeRefused(t, engine) <=>
              \/ W(t, 1) \notin {"SELECT", "WITH"}
              \/ Second(t)
              \/ \E i \in 1..Len(t) : t[i].w = "INTO" \/ Phrase(t, i)
              \/ "query" \in R[1]
              \/ \E i \in (1 + 1)..Len(t) : t[i].w = "WITH" /\ t[i - 1].w = "(" /\ "list" \in R[i + 1]
      <3>1. First(t) = 1 /\ 1 # 0
        BY <1>1
      <3> HIDE DEF t
      <3> QED BY <1>4, <3>1 DEF ShapeRefused
    <2>2. /\ q.ctes = <<>> => Len(q.ctes) = 0
          /\ HasSub(q) /\ y.ctes = <<>> => Len(y.ctes) = 0
      BY <1>1, FormedParts
    <2>3. \A n : n = 0 => 1..n = {}
      OBVIOUS
    <2> HIDE DEF t, s, y, u, R
    <2>4. CASE \E i \in 2..Len(t) : t[i].w = "INTO" \/ Phrase(t, i)
      <3>1. \E i \in 1..Len(t) : t[i].w = "INTO" \/ Phrase(t, i)
        BY <2>4
      <3> QED BY <2>1, <3>1 DEF t
    <2>5. CASE HarmsIn(q) /\ ~\E i \in 2..Len(t) : t[i].w = "INTO" \/ Phrase(t, i)
      <3>1. CleanParts(q) /\ (q.verb = "DELETE" \/ \E k \in 1..Len(q.ctes) : q.ctes[k].verb = "DELETE")
        BY <1>1, <2>5, HarmSeen DEF s
      <3>2. CASE q.ctes = <<>>
        <4>1. W(t, 1) = "DELETE"
          BY <1>1, <2>2, <2>3, <3>1, <3>2
        <4> QED BY <2>1, <4>1 DEF t
      <3>3. CASE q.ctes # <<>>
        <4>1. "list" \in R[0 + 2]
          BY <1>1, <3>1, <3>3, ListVerdict DEF s, R
        <4>2. "query" \in R[1] <=> "list" \in R[1 + 1]
          BY <1>1, <3>3, WithRefused DEF R
        <4> QED BY <2>1, <4>1, <4>2 DEF t
      <3> QED BY <3>2, <3>3
    <2>6. CASE HasSub(q) /\ HarmsIn(y) /\ ~\E i \in 2..Len(t) : t[i].w = "INTO" \/ Phrase(t, i)
      <3> DEFINE b == Len(s) + 2
      <3>1. Stands(t, b, u) /\ b \in Nat /\ b + 1 = Len(s) + 3 /\ (b + 1) - 1 = b
        BY <1>1, <1>2, <2>6
      <3> HIDE DEF b
      <3>2. CleanParts(y) /\ (y.verb = "DELETE" \/ \E k \in 1..Len(y.ctes) : y.ctes[k].verb = "DELETE")
        BY <1>1, <2>6, <3>1, HarmSeen DEF u
      <3>3. y.ctes # <<>>
        BY <1>1, <2>2, <2>3, <2>6, <3>2
      <3>4. "list" \in R[b + 2]
        BY <1>1, <2>6, <3>1, <3>2, <3>3, ListVerdict DEF u, R
      <3>5. u[1].w = "WITH"
        BY <1>1, <2>6, <3>3, NestedSeq DEF u
      <3>6. b + 1 \in (1 + 1)..Len(t) /\ t[b + 1].w = "WITH" /\ t[(b + 1) - 1].w = "(" /\ (b + 1) + 1 = b + 2
        BY <1>1, <2>6, <3>1, <3>5 DEF b
      <3>7. \E i \in (1 + 1)..Len(t) : t[i].w = "WITH" /\ t[i - 1].w = "(" /\ "list" \in R[i + 1]
        BY <3>4, <3>6
      <3> QED BY <2>1, <3>7 DEF t
    <2> QED BY <1>1, <2>4, <2>5, <2>6
  <1> QED BY <1>3, <1>4

\* The words of a query that only reads are none of those that are refused.
Calm(named) == Quiet(named) \cup {"FROM", "WITH"}

\* Words that are refused nowhere.
LEMMA CalmApart ==
    ASSUME NEW named \in BOOLEAN, NEW w \in Calm(named)
    PROVE  /\ w \notin {"FOR", "NEXT", "LOCK", "set_config", "INTO"} /\ w # Semicolon
           /\ ~named => w \notin Writing /\ w \notin TsqlOnly
  <1>1. CASE w = Comma
    <2>1. Comma \notin Writing
      BY DEF Comma, Writing
    <2>2. Comma \notin TsqlOnly /\ Comma \notin {"FOR", "NEXT", "LOCK", "set_config", "INTO"} /\ Comma # Semicolon
      BY DEF Comma, TsqlOnly, Semicolon
    <2> QED BY <1>1, <2>1, <2>2
  <1>2. CASE w # Comma
    <2>1. w \in {"name", "AS", "(", ")", "SELECT", "FROM", "WITH"} \/ (w = "COPY" /\ named)
      BY <1>2 DEF Calm, Quiet
    <2>2. ~named => w \notin Writing
      BY <2>1 DEF Writing
    <2>3. /\ ~named => w \notin TsqlOnly
          /\ w \notin {"FOR", "NEXT", "LOCK", "set_config", "INTO"}
      BY <2>1 DEF TsqlOnly
    <2>4. w # Semicolon
      BY <2>1, Zenon DEF Semicolon
    <2> QED BY <2>2, <2>3, <2>4
  <1> QED BY <1>1, <1>2

\* A query has a name that is a keyword elsewhere.
NamedIn(x) == x.tail = "column" \/ \E k \in 1..Len(x.ctes) : x.ctes[k].tail = "column"

LEMMA NamedText ==
    ASSUME NEW q, Formed(q), q.sub = <<>> \/ HasSub(q)
    PROVE  NamedAsKeyword(q) <=> NamedIn(q) \/ (HasSub(q) /\ NamedIn(q.sub[1]))
  <1> DEFINE y == q.sub[1]
  <1>1. DOMAIN q.ctes = 1..Len(q.ctes)
    BY FormedParts
  <1>2. NamedAsKeyword(q) <=> NamedIn(q) \/ \E k \in DOMAIN q.sub : q.sub[k].tail = "column"
          \/ \E h \in DOMAIN q.sub[k].ctes : q.sub[k].ctes[h].tail = "column"
    BY <1>1 DEF NamedAsKeyword, NamedIn
  <1>3. CASE q.sub = <<>>
    <2>1. DOMAIN q.sub = {} /\ ~HasSub(q)
      <3>1. ASSUME HasSub(q) PROVE FALSE
        <4>1. q.sub = <<q.sub[1]>>
          BY <3>1 DEF HasSub
        <4> QED BY <1>3, <4>1
      <3> QED BY <1>3, <3>1
    <2> QED BY <1>2, <2>1
  <1>4. CASE HasSub(q)
    <2>1. q.sub = <<q.sub[1]>> /\ Formed(y)
      BY <1>4 DEF HasSub, Nestable
    <2>2. DOMAIN q.sub = {1}
      BY <2>1
    <2>3. DOMAIN y.ctes = 1..Len(y.ctes)
      BY <2>1, FormedParts
    <2> HIDE DEF y
    <2>4. (\E k \in DOMAIN q.sub : q.sub[k].tail = "column"
              \/ \E h \in DOMAIN q.sub[k].ctes : q.sub[k].ctes[h].tail = "column")
          <=> y.tail = "column" \/ \E h \in DOMAIN y.ctes : y.ctes[h].tail = "column"
      BY <2>2 DEF y
    <2> QED BY <1>2, <1>4, <2>3, <2>4 DEF NamedIn, y
  <1> QED BY <1>3, <1>4

\* A query that only reads has only words of its own, and those of its WITHs.
LEMMA ReadText ==
    ASSUME NEW q, Formed(q), q.sub = <<>> \/ HasSub(q), ~QueryHarms(q),
           NEW named \in BOOLEAN, NamedAsKeyword(q) => named
    PROVE  LET t == Tokens(q)
               s == Nested(q, 0)
               y == q.sub[1]
           IN  /\ \A j \in 2..Len(t) :
                      t[j].w = "WITH" => HasSub(q) /\ j = Len(s) + 3 /\ y.ctes # <<>>
               /\ \A j \in 1..Len(t) : t[j].w \in Calm(named)
               /\ q.verb = "SELECT" /\ CleanParts(q) /\ \A k \in 1..Len(q.ctes) : q.ctes[k].verb = "SELECT"
               /\ HasSub(q) => /\ y.verb = "SELECT" /\ CleanParts(y)
                               /\ \A k \in 1..Len(y.ctes) : y.ctes[k].verb = "SELECT"
  <1> DEFINE t == Tokens(q)
             s == Nested(q, 0)
             y == q.sub[1]
             u == Nested(y, 1)
  <1>1. /\ t \in Seq(AToken) /\ Len(t) \in Nat /\ Stands(t, 0, s) /\ First(t) = 1 /\ W(t, 1) = t[1].w
        /\ 1 \in 1..Len(t)
        /\ t[1].w = IF q.ctes = <<>> THEN q.verb ELSE "WITH"
        /\ QueryHarms(q) <=> HarmsIn(q) \/ (HasSub(q) /\ HarmsIn(y))
        /\ HasSub(q) => /\ Formed(y) /\ Stands(t, Len(s) + 2, u)
    BY QueryText
  <1>2. /\ ~HarmsIn(q) /\ (HasSub(q) => ~HarmsIn(y))
        /\ NamedIn(q) => named
        /\ HasSub(q) => (NamedIn(y) => named)
    BY <1>1, NamedText
  <1>3. /\ q.sub = <<>> => t = s
        /\ HasSub(q) => /\ Len(t) = Len(s) + Len(u) + 3
                        /\ t[Len(s) + 1].w = "FROM" /\ t[Len(s) + 2].w = "(" /\ t[Len(s) + Len(u) + 3].w = ")"
    BY TokensText
  <1>4. \A x : Formed(x) /\ ~HarmsIn(x) /\ (NamedIn(x) => named) =>
            /\ x.verb = "SELECT" /\ CleanParts(x) /\ (\A k \in 1..Len(x.ctes) : x.ctes[k].verb = "SELECT")
            /\ Mute(x, named) /\ (\A k \in 1..Len(x.ctes) : Mute(x.ctes[k], named))
    <2> SUFFICES ASSUME NEW x, Formed(x), ~HarmsIn(x), NamedIn(x) => named
                 PROVE  /\ x.verb = "SELECT" /\ CleanParts(x)
                             /\ (\A k \in 1..Len(x.ctes) : x.ctes[k].verb = "SELECT")
                        /\ Mute(x, named) /\ (\A k \in 1..Len(x.ctes) : Mute(x.ctes[k], named))
      OBVIOUS
    <2>1. \A z : Verb(z) /\ ~Harmful(z) => z.verb = "SELECT" /\ Clean(z)
      BY DEF Verb, Harmful, Clean
    <2>2. Verb(x) /\ \A k \in 1..Len(x.ctes) : Verb(x.ctes[k])
      BY FormedParts
    <2>3. ~Harmful(x) /\ (\A k \in 1..Len(x.ctes) : ~Harmful(x.ctes[k]))
      BY DEF HarmsIn
    <2>4. Mute(x, named) /\ \A k \in 1..Len(x.ctes) : Mute(x.ctes[k], named)
      BY <2>3 DEF NamedIn, Mute
    <2> QED BY <2>1, <2>2, <2>3, <2>4 DEF CleanParts
  <1>5. /\ Len(s) \in Nat /\ Len(s) >= 2 /\ \A j \in 2..Len(s) : s[j].w \in Quiet(named)
    BY <1>2, <1>4, NestedQuiet, NestedSeq
  <1>6. HasSub(q) => /\ Len(u) \in Nat /\ Len(u) >= 2 /\ (\A j \in 2..Len(u) : u[j].w \in Quiet(named))
                     /\ u[1].w = IF y.ctes = <<>> THEN "SELECT" ELSE "WITH"
    BY <1>1, <1>2, <1>4, NestedQuiet, NestedSeq, SMTT(60)
  <1>7. q.verb = "SELECT" /\ CleanParts(q) /\ \A k \in 1..Len(q.ctes) : q.ctes[k].verb = "SELECT"
    BY <1>2, <1>4
  <1>8. HasSub(q) => y.verb = "SELECT" /\ CleanParts(y) /\ \A k \in 1..Len(y.ctes) : y.ctes[k].verb = "SELECT"
    BY <1>1, <1>2, <1>4
  <1> HIDE DEF t, s, u, y
  <1>9. "WITH" \notin Quiet(named) /\ "FROM" \notin Quiet(named) /\ "(" \in Quiet(named) /\ ")" \in Quiet(named) /\ "SELECT" \in Quiet(named)
    <2>1. "WITH" # Comma /\ "FROM" # Comma
      BY DEF Comma
    <2> QED BY <2>1 DEF Quiet
  <1>10. ASSUME NEW j \in 2..Len(t)
         PROVE  t[j].w \in Quiet(named) \cup {"FROM"} \/ (HasSub(q) /\ j = Len(s) + 3 /\ y.ctes # <<>> /\ t[j].w = "WITH")
    <2>1. CASE j <= Len(s)
      <3>1. j \in 1..Len(s) /\ j \in 2..Len(s) /\ 0 + j = j
        BY <1>5, <2>1
      <3>2. t[j] = s[j]
        BY <1>1, <3>1 DEF Stands
      <3> QED BY <1>5, <3>1, <3>2
    <2>2. CASE j > Len(s)
      <3>1. HasSub(q)
        BY <1>3, <1>5, <2>2
      <3>2. CASE j = Len(s) + 1 \/ j = Len(s) + 2 \/ j = Len(s) + Len(u) + 3
        BY <1>3, <1>9, <3>1, <3>2
      <3>3. CASE j > Len(s) + 2 /\ j < Len(s) + Len(u) + 3
        <4> DEFINE h == j - (Len(s) + 2)
        <4>1. h \in 1..Len(u) /\ (Len(s) + 2) + h = j /\ (h = 1 => j = Len(s) + 3) /\ (h # 1 => h \in 2..Len(u))
          BY <1>5, <1>6, <3>1, <3>3
        <4> HIDE DEF h
        <4>2. t[j] = u[h]
          BY <1>1, <3>1, <4>1 DEF Stands
        <4> QED BY <1>6, <1>9, <3>1, <4>1, <4>2
      <3>4. j <= Len(s) + Len(u) + 3
        BY <1>3, <3>1
      <3>5. (j = Len(s) + 1 \/ j = Len(s) + 2 \/ j = Len(s) + Len(u) + 3) \/ (j > Len(s) + 2
              /\ j < Len(s) + Len(u) + 3)
        <4>1. Len(u) \in Nat
          BY <1>6, <3>1
        <4> QED BY <1>5, <2>2, <3>4, <4>1
      <3> QED BY <3>2, <3>3, <3>5
    <2> QED BY <1>5, <2>1, <2>2
  <1>11. t[1].w \in {"SELECT", "WITH"}
    BY <1>1, <1>7
  <1>12. ASSUME NEW i \in 1..Len(t) PROVE t[i].w \in Calm(named)
    <2>1. CASE i = 1
      BY <1>9, <1>11, <2>1 DEF Calm
    <2>2. CASE i # 1
      <3>1. i \in 2..Len(t)
        BY <2>2
      <3> QED BY <1>10, <3>1 DEF Calm
    <2> QED BY <2>1, <2>2
  <1>13. ASSUME NEW j \in 2..Len(t), t[j].w = "WITH"
         PROVE  HasSub(q) /\ j = Len(s) + 3 /\ y.ctes # <<>>
    BY <1>9, <1>10, <1>13
  <1> QED BY <1>7, <1>8, <1>12, <1>13 DEF t, s, y

\* A name that is a keyword is seen wherever it stands ...
LEMMA NameSeen ==
    ASSUME NEW t \in Seq(AToken), NEW x, Verb(x), x.tail = "column", NEW d \in Nat, NEW b, Stands(t, b, Flat(x, d))
    PROVE  \E i \in 2..Len(t) : t[i].w = "COPY"
  <1> DEFINE f == Flat(x, d)
  <1>1. Len(f) = 2 /\ f[2] = Tok("COPY", d)
    BY FlatText
  <1>2. b \in Nat /\ b + Len(f) <= Len(t) /\ \A j \in 1..Len(f) : t[b + j] = f[j]
    BY DEF Stands
  <1> HIDE DEF f
  <1>3. Len(t) \in Nat
    OBVIOUS
  <1>4. b + 2 \in 2..Len(t) /\ t[b + 2] = f[2]
    BY <1>1, <1>2, <1>3
  <1> QED BY <1>1, <1>4 DEF Tok

LEMMA NameInQuery ==
    ASSUME NEW x, Formed(x), NamedIn(x), NEW d \in Nat, NEW t \in Seq(AToken), NEW b, Stands(t, b, Nested(x, d))
    PROVE  \E i \in 2..Len(t) : t[i].w = "COPY"
  <1> DEFINE s == Nested(x, d)
  <1>1. Verb(x) /\ \A k \in 1..Len(x.ctes) : Verb(x.ctes[k])
    BY FormedParts
  <1>2. Len(s) \in Nat /\ Len(t) \in Nat
    BY NestedSeq
  <1>3. PICK c \in Nat : Stands(s, c, Flat(x, d))
    BY NestedSeq
  <1>4. \A k \in 1..Len(x.ctes) : \E e \in Nat : Stands(s, e, Flat(x.ctes[k], d + 1))
    BY PartStands
  <1>5. Stands(t, b, s) /\ b \in Nat
    BY DEF Stands
  <1> HIDE DEF s
  <1>6. CASE x.tail = "column"
    <2>1. Flat(x, d) \in Seq(AToken)
      BY <1>1, FlatText
    <2>2. Len(Flat(x, d)) \in Nat
      BY <2>1
    <2>3. Stands(t, b + c, Flat(x, d))
      BY <1>2, <1>3, <1>5, <2>2, StandsIn
    <2> QED BY <1>1, <1>6, <2>3, NameSeen
  <1>7. CASE \E k \in 1..Len(x.ctes) : x.ctes[k].tail = "column"
    <2>1. PICK k \in 1..Len(x.ctes) : x.ctes[k].tail = "column"
      BY <1>7
    <2>2. PICK e \in Nat : Stands(s, e, Flat(x.ctes[k], d + 1))
      BY <1>4
    <2>3. d + 1 \in Nat /\ Verb(x.ctes[k])
      BY <1>1
    <2>4. Flat(x.ctes[k], d + 1) \in Seq(AToken)
      BY <2>3, FlatText
    <2>5. Len(Flat(x.ctes[k], d + 1)) \in Nat
      BY <2>4
    <2>6. Stands(t, b + e, Flat(x.ctes[k], d + 1))
      BY <1>2, <1>5, <2>2, <2>5, StandsIn
    <2> QED BY <2>1, <2>3, <2>6, NameSeen
  <1> QED BY <1>6, <1>7 DEF NamedIn

\* ... and a raw text with it is refused.
LEMMA NameRefusedRaw ==
    ASSUME NEW q, Formed(q), q.sub = <<>> \/ HasSub(q), NamedAsKeyword(q), NEW engine
    PROVE  RawRefused(Tokens(q), engine)
  <1> DEFINE t == Tokens(q)
             s == Nested(q, 0)
             y == q.sub[1]
             u == Nested(y, 1)
  <1>1. /\ t \in Seq(AToken) /\ Stands(t, 0, s) /\ First(t) = 1
        /\ HasSub(q) => Formed(y) /\ Stands(t, Len(s) + 2, u)
        /\ NamedIn(q) \/ (HasSub(q) /\ NamedIn(y))
    BY QueryText, NamedText
  <1> HIDE DEF t, y
  <1>2. \E i \in 2..Len(t) : t[i].w = "COPY"
    BY <1>1, NameInQuery
  <1>3. PICK i \in 2..Len(t) : t[i].w = "COPY"
    BY <1>2
  <1>4. i \in (First(t) + 1)..Len(t) /\ First(t) # 0
    BY <1>1
  <1>5. t[i].w \in Writing
    BY <1>3 DEF Writing
  <1> QED BY <1>4, <1>5 DEF RawRefused, t

\* A raw text that only reads is let through, unless a name in it is a keyword.
LEMMA ReadPassesRaw ==
    ASSUME NEW q, Formed(q), q.sub = <<>> \/ HasSub(q), ~QueryHarms(q), ~NamedAsKeyword(q), NEW engine
    PROVE  ~RawRefused(Tokens(q), engine)
  <1> DEFINE t == Tokens(q)
  <1>1. t \in Seq(AToken) /\ First(t) = 1 /\ W(t, 1) = t[1].w /\ t[1].w \in {"WITH", "SELECT"}
    BY QueryText, ReadText
  <1>2. \A i \in 1..Len(t) : t[i].w \in Calm(FALSE)
    BY ReadText
  <1> HIDE DEF t
  <1>3. ASSUME NEW i \in 1..Len(t)
        PROVE  t[i].w \notin Writing /\ t[i].w \notin TsqlOnly /\ t[i].w # Semicolon /\ ~Phrase(t, i)
    <2>1. /\ t[i].w \notin Writing /\ t[i].w \notin TsqlOnly /\ t[i].w # Semicolon
          /\ t[i].w \notin {"FOR", "NEXT", "LOCK", "set_config", "INTO"}
      BY <1>2, CalmApart
    <2>2. W(t, i) = t[i].w
      BY <1>1 DEF W
    <2> QED BY <2>1, <2>2 DEF Phrase
  <1>4. ~Second(t)
    BY <1>1, <1>3 DEF Second
  <1>5. \A i \in (First(t) + 1)..Len(t) : i \in 1..Len(t)
    BY <1>1
  <1> QED BY <1>1, <1>3, <1>4, <1>5 DEF RawRefused, t

\* A rendered one is let through whatever the names are, but on SQL Server.
LEMMA ReadPassesShape ==
    ASSUME NEW q, Formed(q), q.sub = <<>> \/ HasSub(q), ~QueryHarms(q), NEW engine, engine # "tsql"
    PROVE  ~ShapeRefused(Tokens(q), engine)
  <1> DEFINE t == Tokens(q)
             s == Nested(q, 0)
             y == q.sub[1]
             u == Nested(y, 1)
             R == Refusals(t)
  <1>1. /\ t \in Seq(AToken) /\ Len(t) \in Nat /\ Stands(t, 0, s) /\ First(t) = 1 /\ W(t, 1) = t[1].w
        /\ 1 \in 1..Len(t)
        /\ t[1].w = IF q.ctes = <<>> THEN q.verb ELSE "WITH"
        /\ HasSub(q) => /\ Formed(y) /\ Stands(t, Len(s) + 2, u)
    BY QueryText
  <1>5. Len(s) \in Nat
    BY NestedSeq
  <1>7. q.verb = "SELECT" /\ CleanParts(q) /\ \A k \in 1..Len(q.ctes) : q.ctes[k].verb = "SELECT"
    BY ReadText
  <1>8. HasSub(q) => y.verb = "SELECT" /\ CleanParts(y) /\ \A k \in 1..Len(y.ctes) : y.ctes[k].verb = "SELECT"
    BY ReadText
  <1>10. \A j \in 2..Len(t) : t[j].w = "WITH" => HasSub(q) /\ j = Len(s) + 3 /\ y.ctes # <<>>
    BY ReadText
  <1>12. \A i \in 1..Len(t) : t[i].w \in Calm(TRUE)
    BY ReadText
  <1> HIDE DEF t, s, u, y, R
  <1>11. t[1].w \in {"SELECT", "WITH"}
    BY <1>1, <1>7
  <1>13. ASSUME NEW i \in 1..Len(t)
         PROVE  t[i].w # "INTO" /\ t[i].w # Semicolon /\ ~Phrase(t, i)
    <2>1. t[i].w \notin {"FOR", "NEXT", "LOCK", "set_config", "INTO"} /\ t[i].w # Semicolon
      BY <1>12, CalmApart
    <2>2. W(t, i) = t[i].w
      BY <1>1 DEF W
    <2>3. ~Phrase(t, i)
      BY <2>1, <2>2 DEF Phrase
    <2> QED BY <2>1, <2>3
  <1>14. DOMAIN t = 1..Len(t)
    BY <1>1
  <1>15. ~Second(t)
    BY <1>13, <1>14 DEF Second
  <1>17. ~ShapeRefused(t, engine)
    <2>1. "query" \notin R[1]
      <3>1. CASE q.ctes = <<>>
        <4>1. t[1].w = "SELECT"
          BY <1>1, <1>7, <3>1
        <4> QED BY <1>1, <4>1, VerbRefused DEF R
      <3>2. CASE q.ctes # <<>>
        <4>1. ~("list" \in R[0 + 2])
          BY <1>1, <1>7, <3>2, ListVerdict DEF s, R
        <4>2. "query" \in R[1] <=> "list" \in R[1 + 1]
          BY <1>1, <3>2, WithRefused DEF R
        <4> QED BY <4>1, <4>2
      <3> QED BY <3>1, <3>2
    <2>2. ASSUME NEW i \in (1 + 1)..Len(t), t[i].w = "WITH" PROVE "list" \notin R[i + 1]
      <3>1. HasSub(q) /\ i = Len(s) + 3 /\ y.ctes # <<>>
        BY <1>10, <2>2
      <3> DEFINE b == Len(s) + 2
      <3>2. Stands(t, b, u) /\ i + 1 = b + 2
        BY <1>1, <1>5, <3>1
      <3> HIDE DEF b
      <3>3. "list" \notin R[b + 2]
        BY <1>1, <1>8, <3>1, <3>2, ListVerdict DEF u, R
      <3> QED BY <3>2, <3>3
    <2>3. ~(\E i \in 1..Len(t) : t[i].w = "INTO" \/ Phrase(t, i))
      BY <1>13
    <2>4. First(t) = 1
      BY <1>1
    <2>5. ~ShapeRefused(t, engine)
      <3>1. ShapeRefused(t, engine) =>
              \/ W(t, 1) \notin {"SELECT", "WITH"}
              \/ Second(t)
              \/ \E i \in 1..Len(t) : t[i].w = "INTO" \/ Phrase(t, i)
              \/ "query" \in R[1]
              \/ \E i \in (1 + 1)..Len(t) : t[i].w = "WITH" /\ t[i - 1].w = "(" /\ "list" \in R[i + 1]
        BY <2>4 DEF ShapeRefused, R
      <3> QED BY <1>1, <1>11, <1>15, <2>1, <2>2, <2>3, <3>1
    <2> QED BY <2>5
  <1> QED BY <1>17 DEF t

\* No query that writes passes a read-only guard, however many common table expressions it has and
\* whichever of them writes, and what a dialect rendered passes when it only reads.
THEOREM ReadsOnlyHolds == PolicySpec => []ReadsOnly
  <1>1. PolicyInit => \A query \in queries : query.tree \in Queries
    BY DEF PolicyInit
  <1>2. (\A query \in queries : query.tree \in Queries) => ReadsOnly
    <2> SUFFICES ASSUME NEW query \in queries, query.tree \in Queries
                 PROVE  GuardedAsRead(query.tree, query.engine)
      BY DEF ReadsOnly
    <2> DEFINE q == query.tree
    <2>1. Formed(q) /\ (q.sub = <<>> \/ HasSub(q))
      BY QueriesAssumption DEF HasSub
    <2>2. QueryHarms(q) => ShapeRefused(Tokens(q), query.engine) /\ RawRefused(Tokens(q), query.engine)
      BY <2>1, WriteRefusedShape, WriteRefusedRaw
    <2>3. NamedAsKeyword(q) => RawRefused(Tokens(q), query.engine)
      BY <2>1, NameRefusedRaw
    <2>4. ~QueryHarms(q) /\ ~NamedAsKeyword(q) => ~RawRefused(Tokens(q), query.engine)
      BY <2>1, ReadPassesRaw
    <2>5. ~QueryHarms(q) /\ query.engine # "tsql" => ~ShapeRefused(Tokens(q), query.engine)
      BY <2>1, ReadPassesShape
    <2>6. query.engine = "tsql" => (ShapeRefused(Tokens(q), query.engine) <=> RawRefused(Tokens(q), query.engine))
      BY DEF ShapeRefused
    <2> QED BY <2>2, <2>3, <2>4, <2>5, <2>6 DEF GuardedAsRead
  <1>3. ReadsOnly /\ [PolicyNext]_<<queries, batches>> => ReadsOnly'
    BY DEF PolicyNext, ReadsOnly
  <1> QED BY <1>1, <1>2, <1>3, PTL DEF PolicySpec

---------------------------------------------------------------------------
(* How a statement is written down.                                         *)

LEMMA Words5 ==
    ASSUME NEW a1 \in AWord, NEW a2 \in AWord, NEW a3 \in AWord, NEW a4 \in AWord, NEW a5 \in AWord, NEW d \in Nat
    PROVE  /\ Words(<<a1, a2, a3, a4, a5>>, d) \in Seq(AToken) /\ Len(Words(<<a1, a2, a3, a4, a5>>, d)) = 5
           /\ Words(<<a1, a2, a3, a4, a5>>, d)[1] = Tok(a1, d)
           /\ Words(<<a1, a2, a3, a4, a5>>, d)[2] = Tok(a2, d)
           /\ Words(<<a1, a2, a3, a4, a5>>, d)[3] = Tok(a3, d)
           /\ Words(<<a1, a2, a3, a4, a5>>, d)[4] = Tok(a4, d)
           /\ Words(<<a1, a2, a3, a4, a5>>, d)[5] = Tok(a5, d)
  <1> DEFINE ws == <<a1, a2, a3, a4, a5>>
  <1>1. ws \in Seq(AWord) /\ Len(ws) = 5 /\ ws[1] = a1 /\ ws[2] = a2 /\ ws[3] = a3 /\ ws[4] = a4 /\ ws[5] = a5
    OBVIOUS
  <1> HIDE DEF ws
  <1>2. Words(ws, d) \in Seq(AToken) /\ Len(Words(ws, d)) = Len(ws) /\ \A i \in 1..Len(ws) : Words(ws,
          d)[i] = Tok(ws[i], d)
    BY <1>1, WordsText
  <1>3. 1 \in 1..Len(ws) /\ 2 \in 1..Len(ws) /\ 3 \in 1..Len(ws) /\ 4 \in 1..Len(ws) /\ 5 \in 1..Len(ws)
    BY <1>1
  <1> QED BY <1>1, <1>2, <1>3 DEF ws

LEMMA Words6 ==
    ASSUME NEW a1 \in AWord, NEW a2 \in AWord, NEW a3 \in AWord, NEW a4 \in AWord, NEW a5 \in AWord,
           NEW a6 \in AWord, NEW d \in Nat
    PROVE  /\ Words(<<a1, a2, a3, a4, a5, a6>>, d) \in Seq(AToken)
           /\ Len(Words(<<a1, a2, a3, a4, a5, a6>>, d)) = 6
           /\ Words(<<a1, a2, a3, a4, a5, a6>>, d)[1] = Tok(a1, d)
           /\ Words(<<a1, a2, a3, a4, a5, a6>>, d)[2] = Tok(a2, d)
           /\ Words(<<a1, a2, a3, a4, a5, a6>>, d)[3] = Tok(a3, d)
           /\ Words(<<a1, a2, a3, a4, a5, a6>>, d)[4] = Tok(a4, d)
           /\ Words(<<a1, a2, a3, a4, a5, a6>>, d)[5] = Tok(a5, d)
           /\ Words(<<a1, a2, a3, a4, a5, a6>>, d)[6] = Tok(a6, d)
  <1> DEFINE ws == <<a1, a2, a3, a4, a5, a6>>
  <1>1. /\ ws \in Seq(AWord) /\ Len(ws) = 6 /\ ws[1] = a1 /\ ws[2] = a2 /\ ws[3] = a3 /\ ws[4] = a4
        /\ ws[5] = a5 /\ ws[6] = a6
    OBVIOUS
  <1> HIDE DEF ws
  <1>2. Words(ws, d) \in Seq(AToken) /\ Len(Words(ws, d)) = Len(ws) /\ \A i \in 1..Len(ws) : Words(ws,
          d)[i] = Tok(ws[i], d)
    BY <1>1, WordsText
  <1>3. /\ 1 \in 1..Len(ws) /\ 2 \in 1..Len(ws) /\ 3 \in 1..Len(ws) /\ 4 \in 1..Len(ws)
        /\ 5 \in 1..Len(ws) /\ 6 \in 1..Len(ws)
    BY <1>1
  <1> QED BY <1>1, <1>2, <1>3 DEF ws

---------------------------------------------------------------------------
(* What is refused at a place of a batch for SQL Server.                    *)

VerbAt(t, i, j, V) ==
    IF j = 0 THEN "none"
    ELSE IF t[j].d # t[i].d THEN V[j - 1]
    ELSE IF t[j].w \in Verbs THEN t[j].w
    ELSE IF t[j].w = "OUTPUT" /\ V[j - 1] \in Verbs \ {"SELECT"} THEN "OUTPUT" ELSE V[j - 1]

\* The verb of an INTO, from word to word.
LEMMA VerbSteps ==
    ASSUME NEW t, Len(t) \in Nat, NEW i
    PROVE  \E V : LastVerb(t, i) = V[i - 1] /\ \A j \in 0..Len(t) : V[j] = VerbAt(t, i, j, V)
  <1> DEFINE N == Len(t)
             P == {k \in 0..N : \E V : V = [j \in 0..k |-> VerbAt(t, i, j, V)]}
  <1>1. 0 \in P
    <2> DEFINE V == [j \in 0..0 |-> "none"]
    <2>1. V = [j \in 0..0 |-> VerbAt(t, i, j, V)]
      <3>1. \A U : \A j \in 0..0 : VerbAt(t, i, j, U) = "none"
        BY DEF VerbAt
      <3> HIDE DEF V
      <3>2. V = [j \in 0..0 |-> "none"]
        BY DEF V
      <3> QED BY <3>1, <3>2
    <2> HIDE DEF V
    <2>2. \E U : U = [j \in 0..0 |-> VerbAt(t, i, j, U)]
      BY <2>1
    <2> QED BY <2>2
  <1>2. ASSUME NEW k \in 1..N, k - 1 \in P PROVE k \in P
    <2>1. PICK g : g = [j \in 0..k - 1 |-> VerbAt(t, i, j, g)]
      BY <1>2
    <2> DEFINE V == [j \in 0..k |-> IF j = k THEN VerbAt(t, i, k, g) ELSE g[j]]
    <2>2. (\A j \in 0..k - 1 : V[j] = g[j]) /\ V[k] = VerbAt(t, i, k, g) /\ V = [j \in 0..k |-> V[j]]
      OBVIOUS
    <2> HIDE DEF V
    <2>3. \A j \in 0..k : VerbAt(t, i, j, V) = VerbAt(t, i, j, g)
      <3> SUFFICES ASSUME NEW j \in 0..k PROVE VerbAt(t, i, j, V) = VerbAt(t, i, j, g)
        OBVIOUS
      <3>1. CASE j = 0
        BY <3>1 DEF VerbAt
      <3>2. CASE j # 0
        <4>1. j - 1 \in 0..k - 1
          BY <3>2
        <4>2. V[j - 1] = g[j - 1]
          BY <2>2, <4>1
        <4> QED BY <4>2 DEF VerbAt
      <3> QED BY <3>1, <3>2
    <2>4. \A j \in 0..k : V[j] = VerbAt(t, i, j, V)
      <3> SUFFICES ASSUME NEW j \in 0..k PROVE V[j] = VerbAt(t, i, j, V)
        OBVIOUS
      <3>1. CASE j = k
        BY <2>2, <2>3, <3>1
      <3>2. CASE j # k
        <4>1. j \in 0..k - 1
          BY <3>2
        <4> QED BY <2>1, <2>2, <2>3, <4>1
      <3> QED BY <3>1, <3>2
    <2>5. V = [j \in 0..k |-> VerbAt(t, i, j, V)]
      BY <2>2, <2>4
    <2> QED BY <2>5
  <1>3. N \in P
    <2> HIDE DEF P, N
    <2>1. \A k \in 1..N : k - 1 \in P => k \in P
      BY <1>2
    <2>2. N \in Nat
      BY DEF N
    <2>3. 0..N \subseteq P
      BY <1>1, <2>1, <2>2, ScanUp
    <2> QED BY <2>2, <2>3
  <1> DEFINE V == CHOOSE V : V = [j \in 0..N |-> VerbAt(t, i, j, V)]
  <1>4. V = [j \in 0..N |-> VerbAt(t, i, j, V)]
    BY <1>3
  <1>5. LastVerb(t, i) = V[i - 1]
    BY DEF LastVerb, VerbAt
  <1> HIDE DEF V
  <1> QED BY <1>4, <1>5

\* One place's refusal: what begins a statement there, and an INTO that creates its target.
TsqlAt(t, i) ==
    \/ t[i].w = "EXEC" /\ Dynamic(t, i + 1)
    \/ t[i].w = "OPENQUERY"
    \/ t[i].d = 0 /\ t[i].w \in TsqlSchemaWords /\ W(t, i + 1) # "COLUMN" /\ ~Temporary(t, i)
    \/ t[i].d = 0 /\ t[i].w = "DISABLE" /\ W(t, i + 1) = "TRIGGER"
    \/ t[i].d = 0 /\ t[i].w = "DBCC"
    \/ t[i].w = "INTO" /\ LastVerb(t, i) = "SELECT" /\ W(t, i + 1) # "#temp"

Dull == {"name", "SELECT", "FROM", "TABLE", "#temp", Comma, "COLUMN", "@var", "sp_rename", "literal",
         "INSERT", "UPDATE", "SET", "=", "(", ")", "OUTPUT"}

\* A dull word is refused nowhere.
LEMMA DullPasses == ASSUME NEW t, NEW i, t[i].w \in Dull PROVE ~TsqlAt(t, i)
  <1>1. t[i].w \notin {"EXEC", "OPENQUERY", "CREATE", "ALTER", "DROP", "GRANT", "DISABLE", "DBCC", "INTO"}
    <2>1. CASE t[i].w = Comma
      <3>1. Comma \notin {"EXEC", "OPENQUERY", "CREATE", "ALTER", "DROP", "GRANT", "DISABLE", "DBCC", "INTO"}
        BY DEF Comma
      <3> QED BY <2>1, <3>1
    <2>2. CASE t[i].w # Comma
      <3>1. t[i].w \in {"name", "SELECT", "FROM", "TABLE", "#temp", "COLUMN", "@var", "sp_rename", "literal",
                        "INSERT", "UPDATE", "SET", "=", "(", ")", "OUTPUT"}
        BY <2>2 DEF Dull
      <3> QED BY <3>1
    <2> QED BY <2>1, <2>2
  <1> QED BY <1>1 DEF TsqlAt, TsqlSchemaWords

\* The comma is no name.
LEMMA CommaOther == Comma # "#temp" /\ Comma # "end" /\ Comma # "name"
  BY DEF Comma

\* An EXEC is refused when what it runs is not known, or changes the schema.
LEMMA ExecAt ==
    ASSUME NEW t, NEW i, t[i].w = "EXEC"
    PROVE  /\ W(t, i + 1) = "name" => ~TsqlAt(t, i)
           /\ W(t, i + 1) \in {"@var", "sp_rename"} => TsqlAt(t, i)
  <1>1. W(t, i + 1) = "name" => ~Dynamic(t, i + 1)
    BY DEF Dynamic, SchemaProcedures
  <1>2. W(t, i + 1) \in {"@var", "sp_rename"} => Dynamic(t, i + 1)
    BY DEF Dynamic, SchemaProcedures
  <1> QED BY <1>1, <1>2 DEF TsqlAt, TsqlSchemaWords

\* A table is created or changed: a session's own is its business.
LEMMA TableAt ==
    ASSUME NEW t, NEW i, t[i].w \in {"CREATE", "ALTER"}, t[i].d = 0, W(t, i + 1) = "TABLE"
    PROVE  /\ TsqlAt(t, i) <=> W(t, i + 2) # "#temp"
           /\ Temporary(t, i) <=> W(t, i + 2) = "#temp"
  <1>1. Temporary(t, i) <=> W(t, i + 2) = "#temp"
    BY DEF Temporary
  <1> QED BY <1>1 DEF TsqlAt, TsqlSchemaWords

\* A list of two is dropped.
LEMMA DropAt ==
    ASSUME NEW t, Len(t) \in Nat, NEW i \in 1..Len(t), t[i].w = "DROP", t[i].d = 0, W(t, i + 1) = "TABLE", W(t,
           i + 2) = "#temp",
           W(t, i + 3) = Comma, W(t, i + 5) # Comma
    PROVE  /\ TsqlAt(t, i) <=> W(t, i + 4) # "#temp"
           /\ Temporary(t, i) <=> W(t, i + 4) = "#temp"
  <1>1. ASSUME Temporary(t, i) PROVE W(t, i + 4) = "#temp"
    <2>1. (\A k \in 1..1 : W(t, i + 1 + 2 * k) = Comma) => W(t, i + 2 + 2 * 1) = "#temp"
      <3>1. 1 \in 1..Len(t)
        OBVIOUS
      <3> QED BY <1>1, <3>1 DEF Temporary
    <2>2. \A k \in 1..1 : i + 1 + 2 * k = i + 3
      OBVIOUS
    <2>3. i + 2 + 2 * 1 = i + 4
      OBVIOUS
    <2> QED BY <2>1, <2>2, <2>3
  <1>2. ASSUME W(t, i + 4) = "#temp" PROVE Temporary(t, i)
    <2>1. ASSUME NEW n \in 1..Len(t), \A k \in 1..n : W(t, i + 1 + 2 * k) = Comma PROVE W(t,
                   i + 2 + 2 * n) = "#temp"
      <3>1. CASE n = 1
        <4>1. i + 2 + 2 * n = i + 4
          BY <3>1
        <4> QED BY <1>2, <4>1
      <3>2. CASE n # 1
        <4>1. 2 \in 1..n /\ i + 1 + 2 * 2 = i + 5
          BY <3>2
        <4>2. W(t, i + 1 + 2 * 2) = Comma
          BY <2>1, <4>1
        <4> QED BY <4>1, <4>2
      <3> QED BY <3>1, <3>2
    <2> QED BY <2>1 DEF Temporary
  <1> QED BY <1>1, <1>2 DEF TsqlAt, TsqlSchemaWords

\* A DROP COLUMN is part of an ALTER.
LEMMA ColumnAt == ASSUME NEW t, NEW i, t[i].w = "DROP", W(t, i + 1) = "COLUMN" PROVE ~TsqlAt(t, i)
  BY DEF TsqlAt

\* An INTO creates its target behind a SELECT, and not in a write.
LEMMA IntoNew ==
    ASSUME NEW t, Len(t) \in Nat, NEW b \in Nat, b + 3 <= Len(t), t[b + 1] = Tok("SELECT", 0),
           t[b + 2] = Tok("name", 0), t[b + 3] = Tok("INTO", 0)
    PROVE  LastVerb(t, b + 3) = "SELECT"
  <1>1. PICK V : LastVerb(t, b + 3) = V[(b + 3) - 1] /\ \A j \in 0..Len(t) : V[j] = VerbAt(t, b + 3, j, V)
    BY VerbSteps
  <1>2. /\ (b + 3) - 1 = b + 2 /\ b + 1 \in 0..Len(t) /\ b + 2 \in 0..Len(t) /\ (b + 2) - 1 = b + 1
        /\ b + 1 # 0 /\ b + 2 # 0
    OBVIOUS
  <1>3. t[b + 1].w = "SELECT" /\ t[b + 2].w = "name" /\ t[b + 1].d = t[b + 3].d /\ t[b + 2].d = t[b + 3].d
    BY DEF Tok
  <1>4. V[b + 1] = "SELECT"
    BY <1>1, <1>2, <1>3 DEF VerbAt, Verbs
  <1>5. V[b + 2] = V[b + 1]
    BY <1>1, <1>2, <1>3 DEF VerbAt, Verbs
  <1> QED BY <1>1, <1>2, <1>4, <1>5

\* The INTO of an INSERT.
LEMMA IntoInsert ==
    ASSUME NEW t, Len(t) \in Nat, NEW b \in Nat, b + 2 <= Len(t), t[b + 1] = Tok("INSERT", 0),
           t[b + 2] = Tok("INTO", 0)
    PROVE  LastVerb(t, b + 2) = "INSERT"
  <1>1. PICK V : LastVerb(t, b + 2) = V[(b + 2) - 1] /\ \A j \in 0..Len(t) : V[j] = VerbAt(t, b + 2, j, V)
    BY VerbSteps
  <1>2. (b + 2) - 1 = b + 1 /\ b + 1 \in 0..Len(t) /\ b + 1 # 0
    OBVIOUS
  <1>3. t[b + 1].w = "INSERT" /\ t[b + 1].d = t[b + 2].d
    BY DEF Tok
  <1>4. V[b + 1] = "INSERT"
    BY <1>1, <1>2, <1>3 DEF VerbAt, Verbs
  <1> QED BY <1>1, <1>2, <1>4

\* The INTO of an OUTPUT, past the subquery of a SET.
LEMMA IntoOutput ==
    ASSUME NEW t, Len(t) \in Nat, NEW b \in Nat, b + 12 <= Len(t),
           t[b + 1] = Tok("UPDATE", 0), t[b + 2] = Tok("name", 0), t[b + 3] = Tok("SET", 0),
             t[b + 4] = Tok("name", 0),
           t[b + 5] = Tok("=", 0), t[b + 6] = Tok("(", 0), t[b + 7] = Tok("SELECT", 1), t[b + 8] = Tok("name", 1),
           t[b + 9] = Tok(")", 0), t[b + 10] = Tok("OUTPUT", 0), t[b + 11] = Tok("name", 0),
             t[b + 12] = Tok("INTO", 0)
    PROVE  LastVerb(t, b + 12) = "OUTPUT"
  <1>1. PICK V : LastVerb(t, b + 12) = V[(b + 12) - 1] /\ \A j \in 0..Len(t) : V[j] = VerbAt(t, b + 12, j, V)
    BY VerbSteps
  <1>2. \A j \in 1..11 : b + j \in 0..Len(t) /\ b + j # 0 /\ V[b + j] = VerbAt(t, b + 12, b + j, V)
    <2>1. \A j \in 1..11 : b + j \in 0..Len(t) /\ b + j # 0
      OBVIOUS
    <2> QED BY <1>1, <2>1
  <1>3. t[b + 12].d = 0
    BY DEF Tok
  <1>4. \A j \in 1..11 : /\ t[b + j].d # 0 => V[b + j] = V[(b + j) - 1]
                         /\ t[b + j].d = 0 /\ t[b + j].w \in Verbs => V[b + j] = t[b + j].w
                         /\ t[b + j].d = 0 /\ t[b + j].w \notin Verbs /\ t[b + j].w # "OUTPUT"
                              => V[b + j] = V[(b + j) - 1]
                         /\ t[b + j].d = 0 /\ t[b + j].w = "OUTPUT" /\ V[(b + j) - 1] = "UPDATE"
                              => V[b + j] = "OUTPUT"
    <2> SUFFICES ASSUME NEW j \in 1..11
                 PROVE  /\ t[b + j].d # 0 => V[b + j] = V[(b + j) - 1]
                        /\ t[b + j].d = 0 /\ t[b + j].w \in Verbs => V[b + j] = t[b + j].w
                        /\ t[b + j].d = 0 /\ t[b + j].w \notin Verbs /\ t[b + j].w # "OUTPUT"
                             => V[b + j] = V[(b + j) - 1]
                        /\ t[b + j].d = 0 /\ t[b + j].w = "OUTPUT" /\ V[(b + j) - 1] = "UPDATE"
                             => V[b + j] = "OUTPUT"
      OBVIOUS
    <2>1. b + j # 0 /\ V[b + j] = VerbAt(t, b + 12, b + j, V)
      BY <1>2
    <2>2. "OUTPUT" \notin Verbs /\ "UPDATE" \in Verbs \ {"SELECT"}
      BY DEF Verbs
    <2> QED BY <1>3, <2>1, <2>2 DEF VerbAt
  <1>5. /\ (b + 2) - 1 = b + 1 /\ (b + 3) - 1 = b + 2 /\ (b + 4) - 1 = b + 3 /\ (b + 5) - 1 = b + 4
        /\ (b + 6) - 1 = b + 5
        /\ (b + 7) - 1 = b + 6 /\ (b + 8) - 1 = b + 7 /\ (b + 9) - 1 = b + 8 /\ (b + 10) - 1 = b + 9
        /\ (b + 11) - 1 = b + 10
        /\ (b + 12) - 1 = b + 11
    OBVIOUS
  <1>6. /\ "UPDATE" \in Verbs /\ "name" \notin Verbs /\ "SET" \notin Verbs /\ "=" \notin Verbs
        /\ "(" \notin Verbs /\ ")" \notin Verbs
    BY DEF Verbs
  <1>7. V[b + 1] = "UPDATE"
    <2>1. t[b + 1].w = "UPDATE" /\ t[b + 1].d = 0 /\ 1 \in 1..11
      BY DEF Tok
    <2> QED BY <1>4, <1>6, <2>1
  <1>8. /\ V[b + 2] = V[b + 1] /\ V[b + 3] = V[b + 2] /\ V[b + 4] = V[b + 3] /\ V[b + 5] = V[b + 4]
        /\ V[b + 6] = V[b + 5]
    BY <1>4, <1>5, <1>6, SMTT(60) DEF Tok
  <1>9. V[b + 7] = V[b + 6] /\ V[b + 8] = V[b + 7] /\ V[b + 9] = V[b + 8]
    BY <1>4, <1>5, <1>6, SMTT(60) DEF Tok
  <1>10. V[b + 10] = "OUTPUT"
    BY <1>4, <1>5, <1>7, <1>8, <1>9, SMTT(60) DEF Tok
  <1>11. V[b + 11] = V[b + 10]
    <2>1. t[b + 11].w = "name" /\ t[b + 11].d = 0 /\ 11 \in 1..11 /\ "name" # "OUTPUT"
      BY DEF Tok
    <2> QED BY <1>4, <1>5, <1>6, <2>1
  <1> QED BY <1>1, <1>5, <1>10, <1>11

---------------------------------------------------------------------------
(* Statement by statement.                                                  *)

Text(kind) == IF kind = "output" THEN OutputWrite ELSE Words(Spelled[kind], 0)

\* What is refused in a stretch of a text.
Refused(t, b, n) == \E j \in 1..n : TsqlAt(t, b + j)

\* A word of a text, looked up.
LEMMA Looked ==
    ASSUME NEW t \in Seq(AToken), NEW i \in 1..Len(t)
    PROVE  W(t, i) = t[i].w /\ Len(t) \in Nat
  BY DEF W

\* "select", word by word.
LEMMA SelectText ==
    /\ Len(Text("select")) = 4 /\ Text("select") \in Seq(AToken)
    /\ Text("select")[1] = Tok("SELECT", 0) /\ Text("select")[2] = Tok("name", 0)
    /\ Text("select")[3] = Tok("FROM", 0) /\ Text("select")[4] = Tok("name", 0)
  <1>1. Text("select") = Words(<<"SELECT", "name", "FROM", "name">>, 0)
    BY DEF Text, Spelled
  <1>2. "SELECT" \in AWord /\ "name" \in AWord /\ "FROM" \in AWord /\ 0 \in Nat
    BY WordsHas
  <1> QED BY <1>1, <1>2, Words4

\* "select" where it stands.
LEMMA SelectVerdict ==
    ASSUME NEW t \in Seq(AToken), NEW b, Stands(t, b, Text("select"))
    PROVE  ~Refused(t, b, 4)
  <1> DEFINE s == Text("select")
  <1>1. /\ Len(s) = 4 /\ s[1] = Tok("SELECT", 0) /\ s[2] = Tok("name", 0) /\ s[3] = Tok("FROM", 0)
        /\ s[4] = Tok("name", 0)
    BY SelectText
  <1> HIDE DEF s
  <1>2. b \in Nat /\ b + Len(s) <= Len(t) /\ \A j \in 1..Len(s) : t[b + j] = s[j]
    BY DEF Stands, s
  <1>3. /\ b \in Nat /\ b + 4 <= Len(t)
        /\ t[b + 1] = Tok("SELECT", 0) /\ t[b + 2] = Tok("name", 0) /\ t[b + 3] = Tok("FROM", 0)
        /\ t[b + 4] = Tok("name", 0)
    BY <1>1, <1>2, SMTT(60)
  <1>4. /\ Len(t) \in Nat /\ b + 1 \in 1..Len(t) /\ b + 2 \in 1..Len(t) /\ b + 3 \in 1..Len(t)
        /\ b + 4 \in 1..Len(t)
    BY <1>3
  <1>5. /\ t[b + 1].w = "SELECT" /\ t[b + 1].d = 0 /\ t[b + 2].w = "name" /\ t[b + 2].d = 0
        /\ t[b + 3].w = "FROM" /\ t[b + 3].d = 0 /\ t[b + 4].w = "name" /\ t[b + 4].d = 0
    BY <1>3 DEF Tok
  <1>6. W(t, b + 1) = "SELECT" /\ W(t, b + 2) = "name" /\ W(t, b + 3) = "FROM" /\ W(t, b + 4) = "name"
    BY <1>4, <1>5, Looked
  <1>7. /\ (b + 1) + 1 = b + 2 /\ (b + 1) + 2 = b + 3 /\ (b + 1) + 3 = b + 4 /\ (b + 2) + 1 = b + 3
        /\ (b + 2) + 2 = b + 4 /\ (b + 3) + 1 = b + 4
    BY <1>3
  <1>8. ~TsqlAt(t, b + 1) /\ ~TsqlAt(t, b + 2) /\ ~TsqlAt(t, b + 3) /\ ~TsqlAt(t, b + 4)
    BY <1>5, DullPasses DEF Dull
  <1>9. \A j \in 1..4 : j = 1 \/ j = 2 \/ j = 3 \/ j = 4
    OBVIOUS
  <1> QED BY <1>8, <1>9 DEF Refused

\* "intoNew", word by word.
LEMMA IntoNewText ==
    /\ Len(Text("intoNew")) = 4 /\ Text("intoNew") \in Seq(AToken)
    /\ Text("intoNew")[1] = Tok("SELECT", 0) /\ Text("intoNew")[2] = Tok("name", 0)
    /\ Text("intoNew")[3] = Tok("INTO", 0) /\ Text("intoNew")[4] = Tok("name", 0)
  <1>1. Text("intoNew") = Words(<<"SELECT", "name", "INTO", "name">>, 0)
    BY DEF Text, Spelled
  <1>2. "SELECT" \in AWord /\ "name" \in AWord /\ "INTO" \in AWord /\ 0 \in Nat
    BY WordsHas
  <1> QED BY <1>1, <1>2, Words4

\* "intoNew" where it stands.
LEMMA IntoNewVerdict ==
    ASSUME NEW t \in Seq(AToken), NEW b, Stands(t, b, Text("intoNew"))
    PROVE  Refused(t, b, 4)
  <1> DEFINE s == Text("intoNew")
  <1>1. /\ Len(s) = 4 /\ s[1] = Tok("SELECT", 0) /\ s[2] = Tok("name", 0) /\ s[3] = Tok("INTO", 0)
        /\ s[4] = Tok("name", 0)
    BY IntoNewText
  <1> HIDE DEF s
  <1>2. b \in Nat /\ b + Len(s) <= Len(t) /\ \A j \in 1..Len(s) : t[b + j] = s[j]
    BY DEF Stands, s
  <1>3. /\ b \in Nat /\ b + 4 <= Len(t)
        /\ t[b + 1] = Tok("SELECT", 0) /\ t[b + 2] = Tok("name", 0) /\ t[b + 3] = Tok("INTO", 0)
        /\ t[b + 4] = Tok("name", 0)
    BY <1>1, <1>2, SMTT(60)
  <1>4. /\ Len(t) \in Nat /\ b + 1 \in 1..Len(t) /\ b + 2 \in 1..Len(t) /\ b + 3 \in 1..Len(t)
        /\ b + 4 \in 1..Len(t)
    BY <1>3
  <1>5. /\ t[b + 1].w = "SELECT" /\ t[b + 1].d = 0 /\ t[b + 2].w = "name" /\ t[b + 2].d = 0
        /\ t[b + 3].w = "INTO" /\ t[b + 3].d = 0 /\ t[b + 4].w = "name" /\ t[b + 4].d = 0
    BY <1>3 DEF Tok
  <1>6. W(t, b + 1) = "SELECT" /\ W(t, b + 2) = "name" /\ W(t, b + 3) = "INTO" /\ W(t, b + 4) = "name"
    BY <1>4, <1>5, Looked
  <1>7. /\ (b + 1) + 1 = b + 2 /\ (b + 1) + 2 = b + 3 /\ (b + 1) + 3 = b + 4 /\ (b + 2) + 1 = b + 3
        /\ (b + 2) + 2 = b + 4 /\ (b + 3) + 1 = b + 4
    BY <1>3
  <1>8. ~TsqlAt(t, b + 1) /\ ~TsqlAt(t, b + 2) /\ ~TsqlAt(t, b + 4)
    BY <1>5, DullPasses DEF Dull
  <1>9. TsqlAt(t, b + 3)
    <2>1. LastVerb(t, b + 3) = "SELECT"
      BY <1>3, <1>4, IntoNew
    <2> QED BY <1>5, <1>6, <1>7, <2>1 DEF TsqlAt
  <1> QED BY <1>8, <1>9 DEF Refused

\* "intoTemp", word by word.
LEMMA IntoTempText ==
    /\ Len(Text("intoTemp")) = 4 /\ Text("intoTemp") \in Seq(AToken)
    /\ Text("intoTemp")[1] = Tok("SELECT", 0) /\ Text("intoTemp")[2] = Tok("name", 0)
    /\ Text("intoTemp")[3] = Tok("INTO", 0) /\ Text("intoTemp")[4] = Tok("#temp", 0)
  <1>1. Text("intoTemp") = Words(<<"SELECT", "name", "INTO", "#temp">>, 0)
    BY DEF Text, Spelled
  <1>2. "SELECT" \in AWord /\ "name" \in AWord /\ "INTO" \in AWord /\ "#temp" \in AWord /\ 0 \in Nat
    BY WordsHas
  <1> QED BY <1>1, <1>2, Words4

\* "intoTemp" where it stands.
LEMMA IntoTempVerdict ==
    ASSUME NEW t \in Seq(AToken), NEW b, Stands(t, b, Text("intoTemp"))
    PROVE  ~Refused(t, b, 4)
  <1> DEFINE s == Text("intoTemp")
  <1>1. /\ Len(s) = 4 /\ s[1] = Tok("SELECT", 0) /\ s[2] = Tok("name", 0) /\ s[3] = Tok("INTO", 0)
        /\ s[4] = Tok("#temp", 0)
    BY IntoTempText
  <1> HIDE DEF s
  <1>2. b \in Nat /\ b + Len(s) <= Len(t) /\ \A j \in 1..Len(s) : t[b + j] = s[j]
    BY DEF Stands, s
  <1>3. /\ b \in Nat /\ b + 4 <= Len(t)
        /\ t[b + 1] = Tok("SELECT", 0) /\ t[b + 2] = Tok("name", 0) /\ t[b + 3] = Tok("INTO", 0)
        /\ t[b + 4] = Tok("#temp", 0)
    BY <1>1, <1>2, SMTT(60)
  <1>4. /\ Len(t) \in Nat /\ b + 1 \in 1..Len(t) /\ b + 2 \in 1..Len(t) /\ b + 3 \in 1..Len(t)
        /\ b + 4 \in 1..Len(t)
    BY <1>3
  <1>5. /\ t[b + 1].w = "SELECT" /\ t[b + 1].d = 0 /\ t[b + 2].w = "name" /\ t[b + 2].d = 0
        /\ t[b + 3].w = "INTO" /\ t[b + 3].d = 0 /\ t[b + 4].w = "#temp" /\ t[b + 4].d = 0
    BY <1>3 DEF Tok
  <1>6. W(t, b + 1) = "SELECT" /\ W(t, b + 2) = "name" /\ W(t, b + 3) = "INTO" /\ W(t, b + 4) = "#temp"
    BY <1>4, <1>5, Looked
  <1>7. /\ (b + 1) + 1 = b + 2 /\ (b + 1) + 2 = b + 3 /\ (b + 1) + 3 = b + 4 /\ (b + 2) + 1 = b + 3
        /\ (b + 2) + 2 = b + 4 /\ (b + 3) + 1 = b + 4
    BY <1>3
  <1>8. ~TsqlAt(t, b + 1) /\ ~TsqlAt(t, b + 2) /\ ~TsqlAt(t, b + 4)
    BY <1>5, DullPasses DEF Dull
  <1>9. ~TsqlAt(t, b + 3)
    <2>1. W(t, (b + 3) + 1) = "#temp"
      BY <1>6, <1>7
    <2> QED BY <1>5, <2>1 DEF TsqlAt, TsqlSchemaWords
  <1>10. \A j \in 1..4 : j = 1 \/ j = 2 \/ j = 3 \/ j = 4
    OBVIOUS
  <1> QED BY <1>8, <1>9, <1>10 DEF Refused

\* "insert", word by word.
LEMMA InsertText ==
    /\ Len(Text("insert")) = 5 /\ Text("insert") \in Seq(AToken)
    /\ Text("insert")[1] = Tok("INSERT", 0) /\ Text("insert")[2] = Tok("INTO", 0)
    /\ Text("insert")[3] = Tok("name", 0) /\ Text("insert")[4] = Tok("SELECT", 0)
    /\ Text("insert")[5] = Tok("name", 0)
  <1>1. Text("insert") = Words(<<"INSERT", "INTO", "name", "SELECT", "name">>, 0)
    BY DEF Text, Spelled
  <1>2. "INSERT" \in AWord /\ "INTO" \in AWord /\ "name" \in AWord /\ "SELECT" \in AWord /\ 0 \in Nat
    BY WordsHas
  <1> QED BY <1>1, <1>2, Words5

\* "insert" where it stands.
LEMMA InsertVerdict ==
    ASSUME NEW t \in Seq(AToken), NEW b, Stands(t, b, Text("insert"))
    PROVE  ~Refused(t, b, 5)
  <1> DEFINE s == Text("insert")
  <1>1. /\ Len(s) = 5 /\ s[1] = Tok("INSERT", 0) /\ s[2] = Tok("INTO", 0) /\ s[3] = Tok("name", 0)
        /\ s[4] = Tok("SELECT", 0) /\ s[5] = Tok("name", 0)
    BY InsertText
  <1> HIDE DEF s
  <1>2. b \in Nat /\ b + Len(s) <= Len(t) /\ \A j \in 1..Len(s) : t[b + j] = s[j]
    BY DEF Stands, s
  <1>3. /\ b \in Nat /\ b + 5 <= Len(t)
        /\ t[b + 1] = Tok("INSERT", 0) /\ t[b + 2] = Tok("INTO", 0) /\ t[b + 3] = Tok("name", 0)
        /\ t[b + 4] = Tok("SELECT", 0) /\ t[b + 5] = Tok("name", 0)
    BY <1>1, <1>2, SMTT(60)
  <1>4. /\ Len(t) \in Nat /\ b + 1 \in 1..Len(t) /\ b + 2 \in 1..Len(t) /\ b + 3 \in 1..Len(t)
        /\ b + 4 \in 1..Len(t) /\ b + 5 \in 1..Len(t)
    BY <1>3
  <1>5. /\ t[b + 1].w = "INSERT" /\ t[b + 1].d = 0 /\ t[b + 2].w = "INTO" /\ t[b + 2].d = 0
        /\ t[b + 3].w = "name" /\ t[b + 3].d = 0 /\ t[b + 4].w = "SELECT" /\ t[b + 4].d = 0
        /\ t[b + 5].w = "name" /\ t[b + 5].d = 0
    BY <1>3 DEF Tok
  <1>6. /\ W(t, b + 1) = "INSERT" /\ W(t, b + 2) = "INTO" /\ W(t, b + 3) = "name"
        /\ W(t, b + 4) = "SELECT" /\ W(t, b + 5) = "name"
    BY <1>4, <1>5, Looked
  <1>7. /\ (b + 1) + 1 = b + 2 /\ (b + 1) + 2 = b + 3 /\ (b + 1) + 3 = b + 4 /\ (b + 1) + 4 = b + 5
        /\ (b + 2) + 1 = b + 3 /\ (b + 2) + 2 = b + 4 /\ (b + 2) + 3 = b + 5 /\ (b + 3) + 1 = b + 4
        /\ (b + 3) + 2 = b + 5 /\ (b + 4) + 1 = b + 5
    BY <1>3
  <1>8. ~TsqlAt(t, b + 1) /\ ~TsqlAt(t, b + 3) /\ ~TsqlAt(t, b + 4) /\ ~TsqlAt(t, b + 5)
    BY <1>5, DullPasses DEF Dull
  <1>9. ~TsqlAt(t, b + 2)
    <2>1. LastVerb(t, b + 2) = "INSERT"
      BY <1>3, <1>4, IntoInsert
    <2> QED BY <1>5, <2>1 DEF TsqlAt, TsqlSchemaWords
  <1>10. \A j \in 1..5 : j = 1 \/ j = 2 \/ j = 3 \/ j = 4 \/ j = 5
    OBVIOUS
  <1> QED BY <1>8, <1>9, <1>10 DEF Refused

\* "create", word by word.
LEMMA CreateText ==
    /\ Len(Text("create")) = 3 /\ Text("create") \in Seq(AToken)
    /\ Text("create")[1] = Tok("CREATE", 0) /\ Text("create")[2] = Tok("TABLE", 0)
    /\ Text("create")[3] = Tok("name", 0)
  <1>1. Text("create") = Words(<<"CREATE", "TABLE", "name">>, 0)
    BY DEF Text, Spelled
  <1>2. "CREATE" \in AWord /\ "TABLE" \in AWord /\ "name" \in AWord /\ 0 \in Nat
    BY WordsHas
  <1> QED BY <1>1, <1>2, Words3

\* "create" where it stands.
LEMMA CreateVerdict ==
    ASSUME NEW t \in Seq(AToken), NEW b, Stands(t, b, Text("create"))
    PROVE  Refused(t, b, 3)
  <1> DEFINE s == Text("create")
  <1>1. Len(s) = 3 /\ s[1] = Tok("CREATE", 0) /\ s[2] = Tok("TABLE", 0) /\ s[3] = Tok("name", 0)
    BY CreateText
  <1> HIDE DEF s
  <1>2. b \in Nat /\ b + Len(s) <= Len(t) /\ \A j \in 1..Len(s) : t[b + j] = s[j]
    BY DEF Stands, s
  <1>3. /\ b \in Nat /\ b + 3 <= Len(t)
        /\ t[b + 1] = Tok("CREATE", 0) /\ t[b + 2] = Tok("TABLE", 0) /\ t[b + 3] = Tok("name", 0)
    BY <1>1, <1>2, SMTT(60)
  <1>4. Len(t) \in Nat /\ b + 1 \in 1..Len(t) /\ b + 2 \in 1..Len(t) /\ b + 3 \in 1..Len(t)
    BY <1>3
  <1>5. /\ t[b + 1].w = "CREATE" /\ t[b + 1].d = 0 /\ t[b + 2].w = "TABLE" /\ t[b + 2].d = 0
        /\ t[b + 3].w = "name" /\ t[b + 3].d = 0
    BY <1>3 DEF Tok
  <1>6. W(t, b + 1) = "CREATE" /\ W(t, b + 2) = "TABLE" /\ W(t, b + 3) = "name"
    BY <1>4, <1>5, Looked
  <1>7. (b + 1) + 1 = b + 2 /\ (b + 1) + 2 = b + 3 /\ (b + 2) + 1 = b + 3
    BY <1>3
  <1>8. ~TsqlAt(t, b + 2) /\ ~TsqlAt(t, b + 3)
    BY <1>5, DullPasses DEF Dull
  <1>9. TsqlAt(t, b + 1)
    <2>1. W(t, (b + 1) + 1) = "TABLE" /\ W(t, (b + 1) + 2) = "name"
      BY <1>6, <1>7
    <2> QED BY <1>5, <2>1, TableAt
  <1> QED BY <1>8, <1>9 DEF Refused

\* "createTemp", word by word.
LEMMA CreateTempText ==
    /\ Len(Text("createTemp")) = 3 /\ Text("createTemp") \in Seq(AToken)
    /\ Text("createTemp")[1] = Tok("CREATE", 0) /\ Text("createTemp")[2] = Tok("TABLE", 0)
    /\ Text("createTemp")[3] = Tok("#temp", 0)
  <1>1. Text("createTemp") = Words(<<"CREATE", "TABLE", "#temp">>, 0)
    BY DEF Text, Spelled
  <1>2. "CREATE" \in AWord /\ "TABLE" \in AWord /\ "#temp" \in AWord /\ 0 \in Nat
    BY WordsHas
  <1> QED BY <1>1, <1>2, Words3

\* "createTemp" where it stands.
LEMMA CreateTempVerdict ==
    ASSUME NEW t \in Seq(AToken), NEW b, Stands(t, b, Text("createTemp"))
    PROVE  ~Refused(t, b, 3)
  <1> DEFINE s == Text("createTemp")
  <1>1. Len(s) = 3 /\ s[1] = Tok("CREATE", 0) /\ s[2] = Tok("TABLE", 0) /\ s[3] = Tok("#temp", 0)
    BY CreateTempText
  <1> HIDE DEF s
  <1>2. b \in Nat /\ b + Len(s) <= Len(t) /\ \A j \in 1..Len(s) : t[b + j] = s[j]
    BY DEF Stands, s
  <1>3. /\ b \in Nat /\ b + 3 <= Len(t)
        /\ t[b + 1] = Tok("CREATE", 0) /\ t[b + 2] = Tok("TABLE", 0) /\ t[b + 3] = Tok("#temp", 0)
    BY <1>1, <1>2, SMTT(60)
  <1>4. Len(t) \in Nat /\ b + 1 \in 1..Len(t) /\ b + 2 \in 1..Len(t) /\ b + 3 \in 1..Len(t)
    BY <1>3
  <1>5. /\ t[b + 1].w = "CREATE" /\ t[b + 1].d = 0 /\ t[b + 2].w = "TABLE" /\ t[b + 2].d = 0
        /\ t[b + 3].w = "#temp" /\ t[b + 3].d = 0
    BY <1>3 DEF Tok
  <1>6. W(t, b + 1) = "CREATE" /\ W(t, b + 2) = "TABLE" /\ W(t, b + 3) = "#temp"
    BY <1>4, <1>5, Looked
  <1>7. (b + 1) + 1 = b + 2 /\ (b + 1) + 2 = b + 3 /\ (b + 2) + 1 = b + 3
    BY <1>3
  <1>8. ~TsqlAt(t, b + 2) /\ ~TsqlAt(t, b + 3)
    BY <1>5, DullPasses DEF Dull
  <1>9. ~TsqlAt(t, b + 1)
    <2>1. W(t, (b + 1) + 1) = "TABLE" /\ W(t, (b + 1) + 2) = "#temp"
      BY <1>6, <1>7
    <2> QED BY <1>5, <2>1, TableAt
  <1>10. \A j \in 1..3 : j = 1 \/ j = 2 \/ j = 3
    OBVIOUS
  <1> QED BY <1>8, <1>9, <1>10 DEF Refused

\* "dropTemp", word by word.
LEMMA DropTempText ==
    /\ Len(Text("dropTemp")) = 5 /\ Text("dropTemp") \in Seq(AToken)
    /\ Text("dropTemp")[1] = Tok("DROP", 0) /\ Text("dropTemp")[2] = Tok("TABLE", 0)
    /\ Text("dropTemp")[3] = Tok("#temp", 0) /\ Text("dropTemp")[4] = Tok(Comma, 0)
    /\ Text("dropTemp")[5] = Tok("#temp", 0)
  <1>1. Text("dropTemp") = Words(<<"DROP", "TABLE", "#temp", Comma, "#temp">>, 0)
    BY DEF Text, Spelled
  <1>2. "DROP" \in AWord /\ "TABLE" \in AWord /\ "#temp" \in AWord /\ Comma \in AWord /\ 0 \in Nat
    BY WordsHas
  <1> QED BY <1>1, <1>2, Words5

\* "dropTemp" where it stands.
LEMMA DropTempVerdict ==
    ASSUME NEW t \in Seq(AToken), NEW b, Stands(t, b, Text("dropTemp")), W(t, b + 6) # Comma
    PROVE  ~Refused(t, b, 5)
  <1> DEFINE s == Text("dropTemp")
  <1>1. /\ Len(s) = 5 /\ s[1] = Tok("DROP", 0) /\ s[2] = Tok("TABLE", 0) /\ s[3] = Tok("#temp", 0)
        /\ s[4] = Tok(Comma, 0) /\ s[5] = Tok("#temp", 0)
    BY DropTempText
  <1> HIDE DEF s
  <1>2. b \in Nat /\ b + Len(s) <= Len(t) /\ \A j \in 1..Len(s) : t[b + j] = s[j]
    BY DEF Stands, s
  <1>3. /\ b \in Nat /\ b + 5 <= Len(t)
        /\ t[b + 1] = Tok("DROP", 0) /\ t[b + 2] = Tok("TABLE", 0) /\ t[b + 3] = Tok("#temp", 0)
        /\ t[b + 4] = Tok(Comma, 0) /\ t[b + 5] = Tok("#temp", 0)
    BY <1>1, <1>2, SMTT(60)
  <1>4. /\ Len(t) \in Nat /\ b + 1 \in 1..Len(t) /\ b + 2 \in 1..Len(t) /\ b + 3 \in 1..Len(t)
        /\ b + 4 \in 1..Len(t) /\ b + 5 \in 1..Len(t)
    BY <1>3
  <1>5. /\ t[b + 1].w = "DROP" /\ t[b + 1].d = 0 /\ t[b + 2].w = "TABLE" /\ t[b + 2].d = 0
        /\ t[b + 3].w = "#temp" /\ t[b + 3].d = 0 /\ t[b + 4].w = Comma /\ t[b + 4].d = 0
        /\ t[b + 5].w = "#temp" /\ t[b + 5].d = 0
    BY <1>3 DEF Tok
  <1>6. /\ W(t, b + 1) = "DROP" /\ W(t, b + 2) = "TABLE" /\ W(t, b + 3) = "#temp" /\ W(t, b + 4) = Comma
        /\ W(t, b + 5) = "#temp"
    BY <1>4, <1>5, Looked
  <1>7. /\ (b + 1) + 1 = b + 2 /\ (b + 1) + 2 = b + 3 /\ (b + 1) + 3 = b + 4 /\ (b + 1) + 4 = b + 5
        /\ (b + 1) + 5 = b + 6 /\ (b + 2) + 1 = b + 3 /\ (b + 2) + 2 = b + 4 /\ (b + 2) + 3 = b + 5
        /\ (b + 2) + 4 = b + 6 /\ (b + 3) + 1 = b + 4 /\ (b + 3) + 2 = b + 5 /\ (b + 3) + 3 = b + 6
        /\ (b + 4) + 1 = b + 5 /\ (b + 4) + 2 = b + 6 /\ (b + 5) + 1 = b + 6
    BY <1>3
  <1>8. ~TsqlAt(t, b + 2) /\ ~TsqlAt(t, b + 3) /\ ~TsqlAt(t, b + 4) /\ ~TsqlAt(t, b + 5)
    BY <1>5, DullPasses DEF Dull
  <1>9. ~TsqlAt(t, b + 1)
    <2>1. /\ W(t, (b + 1) + 1) = "TABLE" /\ W(t, (b + 1) + 2) = "#temp" /\ W(t, (b + 1) + 3) = Comma
          /\ W(t, (b + 1) + 4) = "#temp"
      BY <1>6, <1>7
    <2>2. W(t, (b + 1) + 5) # Comma
      BY <1>7
    <2> QED BY <1>4, <1>5, <2>1, <2>2, DropAt
  <1>10. \A j \in 1..5 : j = 1 \/ j = 2 \/ j = 3 \/ j = 4 \/ j = 5
    OBVIOUS
  <1> QED BY <1>8, <1>9, <1>10 DEF Refused

\* "dropBoth", word by word.
LEMMA DropBothText ==
    /\ Len(Text("dropBoth")) = 5 /\ Text("dropBoth") \in Seq(AToken)
    /\ Text("dropBoth")[1] = Tok("DROP", 0) /\ Text("dropBoth")[2] = Tok("TABLE", 0)
    /\ Text("dropBoth")[3] = Tok("#temp", 0) /\ Text("dropBoth")[4] = Tok(Comma, 0)
    /\ Text("dropBoth")[5] = Tok("name", 0)
  <1>1. Text("dropBoth") = Words(<<"DROP", "TABLE", "#temp", Comma, "name">>, 0)
    BY DEF Text, Spelled
  <1>2. /\ "DROP" \in AWord /\ "TABLE" \in AWord /\ "#temp" \in AWord /\ Comma \in AWord
        /\ "name" \in AWord /\ 0 \in Nat
    BY WordsHas
  <1> QED BY <1>1, <1>2, Words5

\* "dropBoth" where it stands.
LEMMA DropBothVerdict ==
    ASSUME NEW t \in Seq(AToken), NEW b, Stands(t, b, Text("dropBoth")), W(t, b + 6) # Comma
    PROVE  Refused(t, b, 5)
  <1> DEFINE s == Text("dropBoth")
  <1>1. /\ Len(s) = 5 /\ s[1] = Tok("DROP", 0) /\ s[2] = Tok("TABLE", 0) /\ s[3] = Tok("#temp", 0)
        /\ s[4] = Tok(Comma, 0) /\ s[5] = Tok("name", 0)
    BY DropBothText
  <1> HIDE DEF s
  <1>2. b \in Nat /\ b + Len(s) <= Len(t) /\ \A j \in 1..Len(s) : t[b + j] = s[j]
    BY DEF Stands, s
  <1>3. /\ b \in Nat /\ b + 5 <= Len(t)
        /\ t[b + 1] = Tok("DROP", 0) /\ t[b + 2] = Tok("TABLE", 0) /\ t[b + 3] = Tok("#temp", 0)
        /\ t[b + 4] = Tok(Comma, 0) /\ t[b + 5] = Tok("name", 0)
    BY <1>1, <1>2, SMTT(60)
  <1>4. /\ Len(t) \in Nat /\ b + 1 \in 1..Len(t) /\ b + 2 \in 1..Len(t) /\ b + 3 \in 1..Len(t)
        /\ b + 4 \in 1..Len(t) /\ b + 5 \in 1..Len(t)
    BY <1>3
  <1>5. /\ t[b + 1].w = "DROP" /\ t[b + 1].d = 0 /\ t[b + 2].w = "TABLE" /\ t[b + 2].d = 0
        /\ t[b + 3].w = "#temp" /\ t[b + 3].d = 0 /\ t[b + 4].w = Comma /\ t[b + 4].d = 0
        /\ t[b + 5].w = "name" /\ t[b + 5].d = 0
    BY <1>3 DEF Tok
  <1>6. /\ W(t, b + 1) = "DROP" /\ W(t, b + 2) = "TABLE" /\ W(t, b + 3) = "#temp" /\ W(t, b + 4) = Comma
        /\ W(t, b + 5) = "name"
    BY <1>4, <1>5, Looked
  <1>7. /\ (b + 1) + 1 = b + 2 /\ (b + 1) + 2 = b + 3 /\ (b + 1) + 3 = b + 4 /\ (b + 1) + 4 = b + 5
        /\ (b + 1) + 5 = b + 6 /\ (b + 2) + 1 = b + 3 /\ (b + 2) + 2 = b + 4 /\ (b + 2) + 3 = b + 5
        /\ (b + 2) + 4 = b + 6 /\ (b + 3) + 1 = b + 4 /\ (b + 3) + 2 = b + 5 /\ (b + 3) + 3 = b + 6
        /\ (b + 4) + 1 = b + 5 /\ (b + 4) + 2 = b + 6 /\ (b + 5) + 1 = b + 6
    BY <1>3
  <1>8. ~TsqlAt(t, b + 2) /\ ~TsqlAt(t, b + 3) /\ ~TsqlAt(t, b + 4) /\ ~TsqlAt(t, b + 5)
    BY <1>5, DullPasses DEF Dull
  <1>9. TsqlAt(t, b + 1)
    <2>1. /\ W(t, (b + 1) + 1) = "TABLE" /\ W(t, (b + 1) + 2) = "#temp" /\ W(t, (b + 1) + 3) = Comma
          /\ W(t, (b + 1) + 4) = "name"
      BY <1>6, <1>7
    <2>2. W(t, (b + 1) + 5) # Comma
      BY <1>7
    <2> QED BY <1>4, <1>5, <2>1, <2>2, DropAt
  <1> QED BY <1>8, <1>9 DEF Refused

\* "alterTemp", word by word.
LEMMA AlterTempText ==
    /\ Len(Text("alterTemp")) = 6 /\ Text("alterTemp") \in Seq(AToken)
    /\ Text("alterTemp")[1] = Tok("ALTER", 0) /\ Text("alterTemp")[2] = Tok("TABLE", 0)
    /\ Text("alterTemp")[3] = Tok("#temp", 0) /\ Text("alterTemp")[4] = Tok("DROP", 0)
    /\ Text("alterTemp")[5] = Tok("COLUMN", 0) /\ Text("alterTemp")[6] = Tok("name", 0)
  <1>1. Text("alterTemp") = Words(<<"ALTER", "TABLE", "#temp", "DROP", "COLUMN", "name">>, 0)
    BY DEF Text, Spelled
  <1>2. /\ "ALTER" \in AWord /\ "TABLE" \in AWord /\ "#temp" \in AWord /\ "DROP" \in AWord
        /\ "COLUMN" \in AWord /\ "name" \in AWord /\ 0 \in Nat
    BY WordsHas
  <1> QED BY <1>1, <1>2, Words6, SMTT(60)

\* "alterTemp" where it stands.
LEMMA AlterTempVerdict ==
    ASSUME NEW t \in Seq(AToken), NEW b, Stands(t, b, Text("alterTemp"))
    PROVE  ~Refused(t, b, 6)
  <1> DEFINE s == Text("alterTemp")
  <1>1. /\ Len(s) = 6 /\ s[1] = Tok("ALTER", 0) /\ s[2] = Tok("TABLE", 0) /\ s[3] = Tok("#temp", 0)
        /\ s[4] = Tok("DROP", 0) /\ s[5] = Tok("COLUMN", 0) /\ s[6] = Tok("name", 0)
    BY AlterTempText
  <1> HIDE DEF s
  <1>2. b \in Nat /\ b + Len(s) <= Len(t) /\ \A j \in 1..Len(s) : t[b + j] = s[j]
    BY DEF Stands, s
  <1>3. /\ b \in Nat /\ b + 6 <= Len(t)
        /\ t[b + 1] = Tok("ALTER", 0) /\ t[b + 2] = Tok("TABLE", 0) /\ t[b + 3] = Tok("#temp", 0)
        /\ t[b + 4] = Tok("DROP", 0) /\ t[b + 5] = Tok("COLUMN", 0) /\ t[b + 6] = Tok("name", 0)
    BY <1>1, <1>2, SMTT(60)
  <1>4. /\ Len(t) \in Nat /\ b + 1 \in 1..Len(t) /\ b + 2 \in 1..Len(t) /\ b + 3 \in 1..Len(t)
        /\ b + 4 \in 1..Len(t) /\ b + 5 \in 1..Len(t) /\ b + 6 \in 1..Len(t)
    BY <1>3
  <1>5. /\ t[b + 1].w = "ALTER" /\ t[b + 1].d = 0 /\ t[b + 2].w = "TABLE" /\ t[b + 2].d = 0
        /\ t[b + 3].w = "#temp" /\ t[b + 3].d = 0 /\ t[b + 4].w = "DROP" /\ t[b + 4].d = 0
        /\ t[b + 5].w = "COLUMN" /\ t[b + 5].d = 0 /\ t[b + 6].w = "name" /\ t[b + 6].d = 0
    BY <1>3 DEF Tok
  <1>6. /\ W(t, b + 1) = "ALTER" /\ W(t, b + 2) = "TABLE" /\ W(t, b + 3) = "#temp"
        /\ W(t, b + 4) = "DROP" /\ W(t, b + 5) = "COLUMN" /\ W(t, b + 6) = "name"
    BY <1>4, <1>5, Looked
  <1>7. /\ (b + 1) + 1 = b + 2 /\ (b + 1) + 2 = b + 3 /\ (b + 1) + 3 = b + 4 /\ (b + 1) + 4 = b + 5
        /\ (b + 1) + 5 = b + 6 /\ (b + 2) + 1 = b + 3 /\ (b + 2) + 2 = b + 4 /\ (b + 2) + 3 = b + 5
        /\ (b + 2) + 4 = b + 6 /\ (b + 3) + 1 = b + 4 /\ (b + 3) + 2 = b + 5 /\ (b + 3) + 3 = b + 6
        /\ (b + 4) + 1 = b + 5 /\ (b + 4) + 2 = b + 6 /\ (b + 5) + 1 = b + 6
    BY <1>3
  <1>8. ~TsqlAt(t, b + 2) /\ ~TsqlAt(t, b + 3) /\ ~TsqlAt(t, b + 5) /\ ~TsqlAt(t, b + 6)
    BY <1>5, DullPasses DEF Dull
  <1>9. ~TsqlAt(t, b + 1)
    <2>1. W(t, (b + 1) + 1) = "TABLE" /\ W(t, (b + 1) + 2) = "#temp"
      BY <1>6, <1>7
    <2> QED BY <1>5, <2>1, TableAt
  <1>10. ~TsqlAt(t, b + 4)
    <2>1. W(t, (b + 4) + 1) = "COLUMN"
      BY <1>6, <1>7
    <2> QED BY <1>5, <2>1, ColumnAt
  <1>11. \A j \in 1..6 : j = 1 \/ j = 2 \/ j = 3 \/ j = 4 \/ j = 5 \/ j = 6
    OBVIOUS
  <1> QED BY <1>8, <1>9, <1>10, <1>11 DEF Refused

\* "call", word by word.
LEMMA CallText ==
    /\ Len(Text("call")) = 2 /\ Text("call") \in Seq(AToken)
    /\ Text("call")[1] = Tok("EXEC", 0) /\ Text("call")[2] = Tok("name", 0)
  <1>1. Text("call") = Words(<<"EXEC", "name">>, 0)
    BY DEF Text, Spelled
  <1>2. "EXEC" \in AWord /\ "name" \in AWord /\ 0 \in Nat
    BY WordsHas
  <1> QED BY <1>1, <1>2, Words2

\* "call" where it stands.
LEMMA CallVerdict ==
    ASSUME NEW t \in Seq(AToken), NEW b, Stands(t, b, Text("call"))
    PROVE  ~Refused(t, b, 2)
  <1> DEFINE s == Text("call")
  <1>1. Len(s) = 2 /\ s[1] = Tok("EXEC", 0) /\ s[2] = Tok("name", 0)
    BY CallText
  <1> HIDE DEF s
  <1>2. b \in Nat /\ b + Len(s) <= Len(t) /\ \A j \in 1..Len(s) : t[b + j] = s[j]
    BY DEF Stands, s
  <1>3. /\ b \in Nat /\ b + 2 <= Len(t)
        /\ t[b + 1] = Tok("EXEC", 0) /\ t[b + 2] = Tok("name", 0)
    BY <1>1, <1>2, SMTT(60)
  <1>4. Len(t) \in Nat /\ b + 1 \in 1..Len(t) /\ b + 2 \in 1..Len(t)
    BY <1>3
  <1>5. t[b + 1].w = "EXEC" /\ t[b + 1].d = 0 /\ t[b + 2].w = "name" /\ t[b + 2].d = 0
    BY <1>3 DEF Tok
  <1>6. W(t, b + 1) = "EXEC" /\ W(t, b + 2) = "name"
    BY <1>4, <1>5, Looked
  <1>7. (b + 1) + 1 = b + 2
    BY <1>3
  <1>8. ~TsqlAt(t, b + 2)
    BY <1>5, DullPasses DEF Dull
  <1>9. ~TsqlAt(t, b + 1)
    <2>1. W(t, (b + 1) + 1) = "name"
      BY <1>6, <1>7
    <2> QED BY <1>5, <2>1, ExecAt
  <1>10. \A j \in 1..2 : j = 1 \/ j = 2
    OBVIOUS
  <1> QED BY <1>8, <1>9, <1>10 DEF Refused

\* "dynamic", word by word.
LEMMA DynamicText ==
    /\ Len(Text("dynamic")) = 2 /\ Text("dynamic") \in Seq(AToken)
    /\ Text("dynamic")[1] = Tok("EXEC", 0) /\ Text("dynamic")[2] = Tok("@var", 0)
  <1>1. Text("dynamic") = Words(<<"EXEC", "@var">>, 0)
    BY DEF Text, Spelled
  <1>2. "EXEC" \in AWord /\ "@var" \in AWord /\ 0 \in Nat
    BY WordsHas
  <1> QED BY <1>1, <1>2, Words2

\* "dynamic" where it stands.
LEMMA DynamicVerdict ==
    ASSUME NEW t \in Seq(AToken), NEW b, Stands(t, b, Text("dynamic"))
    PROVE  Refused(t, b, 2)
  <1> DEFINE s == Text("dynamic")
  <1>1. Len(s) = 2 /\ s[1] = Tok("EXEC", 0) /\ s[2] = Tok("@var", 0)
    BY DynamicText
  <1> HIDE DEF s
  <1>2. b \in Nat /\ b + Len(s) <= Len(t) /\ \A j \in 1..Len(s) : t[b + j] = s[j]
    BY DEF Stands, s
  <1>3. /\ b \in Nat /\ b + 2 <= Len(t)
        /\ t[b + 1] = Tok("EXEC", 0) /\ t[b + 2] = Tok("@var", 0)
    BY <1>1, <1>2, SMTT(60)
  <1>4. Len(t) \in Nat /\ b + 1 \in 1..Len(t) /\ b + 2 \in 1..Len(t)
    BY <1>3
  <1>5. t[b + 1].w = "EXEC" /\ t[b + 1].d = 0 /\ t[b + 2].w = "@var" /\ t[b + 2].d = 0
    BY <1>3 DEF Tok
  <1>6. W(t, b + 1) = "EXEC" /\ W(t, b + 2) = "@var"
    BY <1>4, <1>5, Looked
  <1>7. (b + 1) + 1 = b + 2
    BY <1>3
  <1>8. ~TsqlAt(t, b + 2)
    BY <1>5, DullPasses DEF Dull
  <1>9. TsqlAt(t, b + 1)
    <2>1. W(t, (b + 1) + 1) = "@var"
      BY <1>6, <1>7
    <2> QED BY <1>5, <2>1, ExecAt
  <1> QED BY <1>8, <1>9 DEF Refused

\* "rename", word by word.
LEMMA RenameText ==
    /\ Len(Text("rename")) = 3 /\ Text("rename") \in Seq(AToken)
    /\ Text("rename")[1] = Tok("EXEC", 0) /\ Text("rename")[2] = Tok("sp_rename", 0)
    /\ Text("rename")[3] = Tok("literal", 0)
  <1>1. Text("rename") = Words(<<"EXEC", "sp_rename", "literal">>, 0)
    BY DEF Text, Spelled
  <1>2. "EXEC" \in AWord /\ "sp_rename" \in AWord /\ "literal" \in AWord /\ 0 \in Nat
    BY WordsHas
  <1> QED BY <1>1, <1>2, Words3

\* "rename" where it stands.
LEMMA RenameVerdict ==
    ASSUME NEW t \in Seq(AToken), NEW b, Stands(t, b, Text("rename"))
    PROVE  Refused(t, b, 3)
  <1> DEFINE s == Text("rename")
  <1>1. Len(s) = 3 /\ s[1] = Tok("EXEC", 0) /\ s[2] = Tok("sp_rename", 0) /\ s[3] = Tok("literal", 0)
    BY RenameText
  <1> HIDE DEF s
  <1>2. b \in Nat /\ b + Len(s) <= Len(t) /\ \A j \in 1..Len(s) : t[b + j] = s[j]
    BY DEF Stands, s
  <1>3. /\ b \in Nat /\ b + 3 <= Len(t)
        /\ t[b + 1] = Tok("EXEC", 0) /\ t[b + 2] = Tok("sp_rename", 0) /\ t[b + 3] = Tok("literal", 0)
    BY <1>1, <1>2, SMTT(60)
  <1>4. Len(t) \in Nat /\ b + 1 \in 1..Len(t) /\ b + 2 \in 1..Len(t) /\ b + 3 \in 1..Len(t)
    BY <1>3
  <1>5. /\ t[b + 1].w = "EXEC" /\ t[b + 1].d = 0 /\ t[b + 2].w = "sp_rename" /\ t[b + 2].d = 0
        /\ t[b + 3].w = "literal" /\ t[b + 3].d = 0
    BY <1>3 DEF Tok
  <1>6. W(t, b + 1) = "EXEC" /\ W(t, b + 2) = "sp_rename" /\ W(t, b + 3) = "literal"
    BY <1>4, <1>5, Looked
  <1>7. (b + 1) + 1 = b + 2 /\ (b + 1) + 2 = b + 3 /\ (b + 2) + 1 = b + 3
    BY <1>3
  <1>8. ~TsqlAt(t, b + 2) /\ ~TsqlAt(t, b + 3)
    BY <1>5, DullPasses DEF Dull
  <1>9. TsqlAt(t, b + 1)
    <2>1. W(t, (b + 1) + 1) = "sp_rename"
      BY <1>6, <1>7
    <2> QED BY <1>5, <2>1, ExecAt
  <1> QED BY <1>8, <1>9 DEF Refused

\* Two texts of tokens, one behind the other.
LEMMA TokensJoined ==
    ASSUME NEW a \in Seq(AToken), NEW b \in Seq(AToken), NEW t, t = a \o b
    PROVE  /\ t \in Seq(AToken) /\ Len(t) = Len(a) + Len(b) /\ (\A j \in 1..Len(a) : t[j] = a[j])
           /\ \A j \in 1..Len(b) : t[Len(a) + j] = b[j]
  BY Joined

\* An update that hands out what it wrote.
LEMMA OutputText ==
    /\ Len(Text("output")) = 13 /\ Text("output") \in Seq(AToken)
    /\ Text("output")[1] = Tok("UPDATE", 0) /\ Text("output")[2] = Tok("name", 0)
    /\ Text("output")[3] = Tok("SET", 0) /\ Text("output")[4] = Tok("name", 0)
    /\ Text("output")[5] = Tok("=", 0) /\ Text("output")[6] = Tok("(", 0)
    /\ Text("output")[7] = Tok("SELECT", 1) /\ Text("output")[8] = Tok("name", 1)
    /\ Text("output")[9] = Tok(")", 0) /\ Text("output")[10] = Tok("OUTPUT", 0)
    /\ Text("output")[11] = Tok("name", 0) /\ Text("output")[12] = Tok("INTO", 0)
    /\ Text("output")[13] = Tok("name", 0)
  <1> DEFINE a == Words(<<"UPDATE", "name", "SET", "name", "=", "(">>, 0)
             c == Words(<<"SELECT", "name">>, 1)
             z == Words(<<")", "OUTPUT", "name", "INTO", "name">>, 0)
             u == a \o c
             s == Text("output")
  <1>0. s = u \o z /\ u = a \o c
    BY DEF Text, OutputWrite
  <1>1. /\ "UPDATE" \in AWord /\ "name" \in AWord /\ "SET" \in AWord /\ "=" \in AWord /\ "(" \in AWord
        /\ ")" \in AWord
        /\ "SELECT" \in AWord /\ "OUTPUT" \in AWord /\ "INTO" \in AWord /\ 0 \in Nat /\ 1 \in Nat
    BY WordsHas
  <1>2. /\ a \in Seq(AToken) /\ Len(a) = 6 /\ a[1] = Tok("UPDATE", 0) /\ a[2] = Tok("name", 0)
        /\ a[3] = Tok("SET", 0)
        /\ a[4] = Tok("name", 0) /\ a[5] = Tok("=", 0) /\ a[6] = Tok("(", 0)
    <2> DEFINE ws == <<"UPDATE", "name", "SET", "name", "=", "(">>
    <2>1. /\ ws \in Seq(AWord) /\ Len(ws) = 6 /\ ws[1] = "UPDATE" /\ ws[2] = "name" /\ ws[3] = "SET"
          /\ ws[4] = "name" /\ ws[5] = "=" /\ ws[6] = "("
      BY <1>1
    <2> HIDE DEF ws
    <2>2. Words(ws, 0) \in Seq(AToken) /\ Len(Words(ws, 0)) = Len(ws) /\ \A i \in 1..Len(ws) : Words(ws,
            0)[i] = Tok(ws[i], 0)
      BY <1>1, <2>1, WordsText
    <2>3. /\ 1 \in 1..Len(ws) /\ 2 \in 1..Len(ws) /\ 3 \in 1..Len(ws) /\ 4 \in 1..Len(ws)
          /\ 5 \in 1..Len(ws) /\ 6 \in 1..Len(ws)
      BY <2>1
    <2>4. /\ Words(ws, 0) \in Seq(AToken) /\ Len(Words(ws, 0)) = 6 /\ Words(ws, 0)[1] = Tok("UPDATE", 0)
          /\ Words(ws, 0)[2] = Tok("name", 0) /\ Words(ws, 0)[3] = Tok("SET", 0)
          /\ Words(ws, 0)[4] = Tok("name", 0)
          /\ Words(ws, 0)[5] = Tok("=", 0) /\ Words(ws, 0)[6] = Tok("(", 0)
      BY <2>1, <2>2, <2>3
    <2>5. a = Words(ws, 0)
      BY DEF ws
    <2> HIDE DEF a
    <2> QED BY <2>4, <2>5
  <1>3. c \in Seq(AToken) /\ Len(c) = 2 /\ c[1] = Tok("SELECT", 1) /\ c[2] = Tok("name", 1)
    BY <1>1, Words2
  <1>4. /\ z \in Seq(AToken) /\ Len(z) = 5 /\ z[1] = Tok(")", 0) /\ z[2] = Tok("OUTPUT", 0)
        /\ z[3] = Tok("name", 0)
        /\ z[4] = Tok("INTO", 0) /\ z[5] = Tok("name", 0)
    BY <1>1, Words5, SMTT(60)
  <1> HIDE DEF a, c, z, u, s
  <1>5. /\ u \in Seq(AToken) /\ Len(u) = 8 /\ (\A j \in 1..6 : u[j] = a[j]) /\ \A j \in 1..2 : u[6 + j] = c[j]
    <2>1. /\ u \in Seq(AToken) /\ Len(u) = Len(a) + Len(c) /\ (\A j \in 1..Len(a) : u[j] = a[j])
          /\ \A j \in 1..Len(c) : u[Len(a) + j] = c[j]
      <3>1. a \in Seq(AToken) /\ c \in Seq(AToken) /\ u = a \o c
        BY <1>0, <1>2, <1>3
      <3> QED BY <3>1, TokensJoined
    <2>2. 6 + 2 = 8
      OBVIOUS
    <2> QED BY <1>2, <1>3, <2>1, <2>2
  <1>6. /\ s \in Seq(AToken) /\ Len(s) = 13 /\ (\A j \in 1..8 : s[j] = u[j]) /\ \A j \in 1..5 : s[8 + j] = z[j]
    <2>0. u \in Seq(AToken)
      BY <1>5
    <2>1. /\ s \in Seq(AToken) /\ Len(s) = Len(u) + Len(z) /\ (\A j \in 1..Len(u) : s[j] = u[j])
          /\ \A j \in 1..Len(z) : s[Len(u) + j] = z[j]
      <3>1. u \in Seq(AToken) /\ z \in Seq(AToken) /\ s = u \o z
        BY <1>0, <1>4, <2>0
      <3> QED BY <3>1, TokensJoined
    <2>2. 8 + 5 = 13
      OBVIOUS
    <2> QED BY <1>4, <1>5, <2>1, <2>2
  <1>7. /\ u[7] = c[1] /\ u[8] = c[2] /\ s[9] = z[1] /\ s[10] = z[2] /\ s[11] = z[3] /\ s[12] = z[4]
        /\ s[13] = z[5]
    <2>1. 6 + 1 = 7 /\ 6 + 2 = 8 /\ 8 + 1 = 9 /\ 8 + 2 = 10 /\ 8 + 3 = 11 /\ 8 + 4 = 12 /\ 8 + 5 = 13
      OBVIOUS
    <2>2. u[6 + 1] = c[1] /\ u[6 + 2] = c[2]
      BY <1>5
    <2>3. s[8 + 1] = z[1] /\ s[8 + 2] = z[2] /\ s[8 + 3] = z[3] /\ s[8 + 4] = z[4] /\ s[8 + 5] = z[5]
      BY <1>6
    <2> QED BY <2>1, <2>2, <2>3
  <1>8. /\ s[1] = a[1] /\ s[2] = a[2] /\ s[3] = a[3] /\ s[4] = a[4] /\ s[5] = a[5] /\ s[6] = a[6]
        /\ s[7] = c[1] /\ s[8] = c[2]
    BY <1>5, <1>6, <1>7
  <1> QED BY <1>2, <1>3, <1>4, <1>6, <1>7, <1>8 DEF s

\* It is let through wherever it stands.
LEMMA OutputVerdict ==
    ASSUME NEW t \in Seq(AToken), NEW b, Stands(t, b, Text("output"))
    PROVE  ~Refused(t, b, 13)
  <1> DEFINE s == Text("output")
  <1>1. /\ Len(s) = 13 /\ s[1] = Tok("UPDATE", 0) /\ s[2] = Tok("name", 0) /\ s[3] = Tok("SET", 0)
        /\ s[4] = Tok("name", 0) /\ s[5] = Tok("=", 0) /\ s[6] = Tok("(", 0) /\ s[7] = Tok("SELECT", 1)
        /\ s[8] = Tok("name", 1) /\ s[9] = Tok(")", 0) /\ s[10] = Tok("OUTPUT", 0)
        /\ s[11] = Tok("name", 0) /\ s[12] = Tok("INTO", 0) /\ s[13] = Tok("name", 0)
    BY OutputText
  <1> HIDE DEF s
  <1>2. b \in Nat /\ b + Len(s) <= Len(t) /\ \A j \in 1..Len(s) : t[b + j] = s[j]
    BY DEF Stands, s
  <1>3. b \in Nat /\ b + 13 <= Len(t) /\ \A j \in 1..13 : t[b + j] = s[j]
    BY <1>1, <1>2
  <1>4. /\ t[b + 1] = Tok("UPDATE", 0) /\ t[b + 2] = Tok("name", 0) /\ t[b + 3] = Tok("SET", 0)
        /\ t[b + 4] = Tok("name", 0) /\ t[b + 5] = Tok("=", 0) /\ t[b + 6] = Tok("(", 0)
        /\ t[b + 7] = Tok("SELECT", 1) /\ t[b + 8] = Tok("name", 1) /\ t[b + 9] = Tok(")", 0)
        /\ t[b + 10] = Tok("OUTPUT", 0) /\ t[b + 11] = Tok("name", 0) /\ t[b + 12] = Tok("INTO", 0)
        /\ t[b + 13] = Tok("name", 0)
    <2>1. /\ 1 \in 1..13 /\ 2 \in 1..13 /\ 3 \in 1..13 /\ 4 \in 1..13 /\ 5 \in 1..13 /\ 6 \in 1..13
          /\ 7 \in 1..13 /\ 8 \in 1..13 /\ 9 \in 1..13 /\ 10 \in 1..13 /\ 11 \in 1..13 /\ 12 \in 1..13
          /\ 13 \in 1..13
      OBVIOUS
    <2>2. /\ t[b + 1] = s[1] /\ t[b + 2] = s[2] /\ t[b + 3] = s[3] /\ t[b + 4] = s[4] /\ t[b + 5] = s[5]
          /\ t[b + 6] = s[6] /\ t[b + 7] = s[7] /\ t[b + 8] = s[8] /\ t[b + 9] = s[9]
          /\ t[b + 10] = s[10] /\ t[b + 11] = s[11] /\ t[b + 12] = s[12] /\ t[b + 13] = s[13]
      BY <1>3, <2>1
    <2> QED BY <1>1, <2>2
  <1>5. LastVerb(t, b + 12) = "OUTPUT"
    <2>0. Len(t) \in Nat
      OBVIOUS
    <2>1. b \in Nat /\ b + 13 <= Len(t)
      BY <1>3
    <2>2. b + 12 <= Len(t)
      BY <2>0, <2>1
    <2> QED BY <1>4, <2>0, <2>1, <2>2, IntoOutput
  <1>6. t[b + 12].w = "INTO"
    BY <1>4 DEF Tok
  <1>7. ~TsqlAt(t, b + 12)
    BY <1>5, <1>6 DEF TsqlAt, TsqlSchemaWords
  <1>8. \A j \in 1..13 : j # 12 => t[b + j].w \in Dull
    <2>1. /\ t[b + 1].w = "UPDATE" /\ t[b + 2].w = "name" /\ t[b + 3].w = "SET" /\ t[b + 4].w = "name"
          /\ t[b + 5].w = "=" /\ t[b + 6].w = "(" /\ t[b + 7].w = "SELECT" /\ t[b + 8].w = "name"
          /\ t[b + 9].w = ")" /\ t[b + 10].w = "OUTPUT" /\ t[b + 11].w = "name" /\ t[b + 13].w = "name"
      BY <1>4 DEF Tok
    <2>2. \A j \in 1..13 : j = 1 \/ j = 2 \/ j = 3 \/ j = 4 \/ j = 5 \/ j = 6 \/ j = 7 \/ j = 8 \/ j = 9
            \/ j = 10 \/ j = 11 \/ j = 12 \/ j = 13
      OBVIOUS
    <2> QED BY <2>1, <2>2 DEF Dull
  <1>9. \A j \in 1..13 : j # 12 => ~TsqlAt(t, b + j)
    BY <1>8, DullPasses
  <1> QED BY <1>7, <1>9 DEF Refused

\* "vacuum", word by word.
LEMMA VacuumText ==
    /\ Len(Text("vacuum")) = 2 /\ Text("vacuum") \in Seq(AToken)
    /\ Text("vacuum")[1] = Tok("VACUUM", 0) /\ Text("vacuum")[2] = Tok("name", 0)
  <1>1. Text("vacuum") = Words(<<"VACUUM", "name">>, 0)
    BY DEF Text, Spelled
  <1>2. "VACUUM" \in AWord /\ "name" \in AWord /\ 0 \in Nat
    BY WordsHas
  <1> QED BY <1>1, <1>2, Words2

\* "vacuumFull", word by word.
LEMMA VacuumFullText ==
    /\ Len(Text("vacuumFull")) = 3 /\ Text("vacuumFull") \in Seq(AToken)
    /\ Text("vacuumFull")[1] = Tok("VACUUM", 0) /\ Text("vacuumFull")[2] = Tok("FULL", 0)
    /\ Text("vacuumFull")[3] = Tok("name", 0)
  <1>1. Text("vacuumFull") = Words(<<"VACUUM", "FULL", "name">>, 0)
    BY DEF Text, Spelled
  <1>2. "VACUUM" \in AWord /\ "FULL" \in AWord /\ "name" \in AWord /\ 0 \in Nat
    BY WordsHas
  <1> QED BY <1>1, <1>2, Words3

\* "prepared", word by word.
LEMMA PreparedText ==
    /\ Len(Text("prepared")) = 5 /\ Text("prepared") \in Seq(AToken)
    /\ Text("prepared")[1] = Tok("PREPARE", 0) /\ Text("prepared")[2] = Tok("name", 0)
    /\ Text("prepared")[3] = Tok("AS", 0) /\ Text("prepared")[4] = Tok("SELECT", 0)
    /\ Text("prepared")[5] = Tok("name", 0)
  <1>1. Text("prepared") = Words(<<"PREPARE", "name", "AS", "SELECT", "name">>, 0)
    BY DEF Text, Spelled
  <1>2. "PREPARE" \in AWord /\ "name" \in AWord /\ "AS" \in AWord /\ "SELECT" \in AWord /\ 0 \in Nat
    BY WordsHas
  <1> QED BY <1>1, <1>2, Words5

\* The words of the statements, none of which parts them.
StatementWords == {"SELECT", "name", "FROM", "INTO", "#temp", "INSERT", "CREATE", "TABLE", "DROP", Comma,
    "ALTER", "COLUMN", "EXEC", "@var", "sp_rename", "literal", "VACUUM", "FULL", "PREPARE", "AS", "UPDATE",
    "SET", "=", "(", ")", "OUTPUT", "EXPLAIN", "ANALYZE"}
FirstWords == {"SELECT", "INSERT", "CREATE", "DROP", "ALTER", "EXEC", "VACUUM", "PREPARE", "UPDATE"}

\* None of them is a semicolon.
LEMMA SemicolonApart == Semicolon \notin StatementWords
  BY DEF Semicolon, StatementWords, Comma

\* What every statement's text has.
Sound(s) ==
    /\ s \in Seq(AToken) /\ Len(s) \in Nat /\ Len(s) >= 2 /\ Only(s, StatementWords)
    /\ s[1].w \in FirstWords /\ s[1].d = 0
    /\ s[1].w \in {"CREATE", "ALTER", "DROP"} => s[2].w = "TABLE"

\* "select" is sound.
LEMMA SelectSound == Sound(Text("select"))
  <1> DEFINE s == Text("select")
  <1>1. /\ Len(s) = 4 /\ s \in Seq(AToken) /\ s[1] = Tok("SELECT", 0) /\ s[2] = Tok("name", 0)
        /\ s[3] = Tok("FROM", 0) /\ s[4] = Tok("name", 0)
    BY SelectText
  <1> HIDE DEF s
  <1>2. s[1].d = 0 /\ s[1].w = "SELECT" /\ s[2].w = "name" /\ s[3].w = "FROM" /\ s[4].w = "name"
    BY <1>1 DEF Tok
  <1>3. "SELECT" \in StatementWords /\ "name" \in StatementWords /\ "FROM" \in StatementWords
    BY DEF StatementWords
  <1>4. \A j \in 1..4 : j = 1 \/ j = 2 \/ j = 3 \/ j = 4
    OBVIOUS
  <1>5. Only(s, StatementWords)
    BY <1>1, <1>2, <1>3, <1>4 DEF Only
  <1>6. s[1].w \in FirstWords
    BY <1>2 DEF FirstWords
  <1>7. Len(s) \in Nat /\ Len(s) >= 2 /\ (s[1].w \in {"CREATE", "ALTER", "DROP"} => s[2].w = "TABLE")
    BY <1>1, <1>2
  <1> QED BY <1>1, <1>2, <1>5, <1>6, <1>7 DEF Sound, s

\* "intoNew" is sound.
LEMMA IntoNewSound == Sound(Text("intoNew"))
  <1> DEFINE s == Text("intoNew")
  <1>1. /\ Len(s) = 4 /\ s \in Seq(AToken) /\ s[1] = Tok("SELECT", 0) /\ s[2] = Tok("name", 0)
        /\ s[3] = Tok("INTO", 0) /\ s[4] = Tok("name", 0)
    BY IntoNewText
  <1> HIDE DEF s
  <1>2. s[1].d = 0 /\ s[1].w = "SELECT" /\ s[2].w = "name" /\ s[3].w = "INTO" /\ s[4].w = "name"
    BY <1>1 DEF Tok
  <1>3. "SELECT" \in StatementWords /\ "name" \in StatementWords /\ "INTO" \in StatementWords
    BY DEF StatementWords
  <1>4. \A j \in 1..4 : j = 1 \/ j = 2 \/ j = 3 \/ j = 4
    OBVIOUS
  <1>5. Only(s, StatementWords)
    BY <1>1, <1>2, <1>3, <1>4 DEF Only
  <1>6. s[1].w \in FirstWords
    BY <1>2 DEF FirstWords
  <1>7. Len(s) \in Nat /\ Len(s) >= 2 /\ (s[1].w \in {"CREATE", "ALTER", "DROP"} => s[2].w = "TABLE")
    BY <1>1, <1>2
  <1> QED BY <1>1, <1>2, <1>5, <1>6, <1>7 DEF Sound, s

\* "intoTemp" is sound.
LEMMA IntoTempSound == Sound(Text("intoTemp"))
  <1> DEFINE s == Text("intoTemp")
  <1>1. /\ Len(s) = 4 /\ s \in Seq(AToken) /\ s[1] = Tok("SELECT", 0) /\ s[2] = Tok("name", 0)
        /\ s[3] = Tok("INTO", 0) /\ s[4] = Tok("#temp", 0)
    BY IntoTempText
  <1> HIDE DEF s
  <1>2. s[1].d = 0 /\ s[1].w = "SELECT" /\ s[2].w = "name" /\ s[3].w = "INTO" /\ s[4].w = "#temp"
    BY <1>1 DEF Tok
  <1>3. /\ "SELECT" \in StatementWords /\ "name" \in StatementWords /\ "INTO" \in StatementWords
        /\ "#temp" \in StatementWords
    BY DEF StatementWords
  <1>4. \A j \in 1..4 : j = 1 \/ j = 2 \/ j = 3 \/ j = 4
    OBVIOUS
  <1>5. Only(s, StatementWords)
    BY <1>1, <1>2, <1>3, <1>4 DEF Only
  <1>6. s[1].w \in FirstWords
    BY <1>2 DEF FirstWords
  <1>7. Len(s) \in Nat /\ Len(s) >= 2 /\ (s[1].w \in {"CREATE", "ALTER", "DROP"} => s[2].w = "TABLE")
    BY <1>1, <1>2
  <1> QED BY <1>1, <1>2, <1>5, <1>6, <1>7 DEF Sound, s

\* "insert" is sound.
LEMMA InsertSound == Sound(Text("insert"))
  <1> DEFINE s == Text("insert")
  <1>1. /\ Len(s) = 5 /\ s \in Seq(AToken) /\ s[1] = Tok("INSERT", 0) /\ s[2] = Tok("INTO", 0)
        /\ s[3] = Tok("name", 0) /\ s[4] = Tok("SELECT", 0) /\ s[5] = Tok("name", 0)
    BY InsertText
  <1> HIDE DEF s
  <1>2. /\ s[1].d = 0 /\ s[1].w = "INSERT" /\ s[2].w = "INTO" /\ s[3].w = "name" /\ s[4].w = "SELECT"
        /\ s[5].w = "name"
    BY <1>1 DEF Tok
  <1>3. /\ "INSERT" \in StatementWords /\ "INTO" \in StatementWords /\ "name" \in StatementWords
        /\ "SELECT" \in StatementWords
    BY DEF StatementWords
  <1>4. \A j \in 1..5 : j = 1 \/ j = 2 \/ j = 3 \/ j = 4 \/ j = 5
    OBVIOUS
  <1>5. Only(s, StatementWords)
    BY <1>1, <1>2, <1>3, <1>4 DEF Only
  <1>6. s[1].w \in FirstWords
    BY <1>2 DEF FirstWords
  <1>7. Len(s) \in Nat /\ Len(s) >= 2 /\ (s[1].w \in {"CREATE", "ALTER", "DROP"} => s[2].w = "TABLE")
    BY <1>1, <1>2
  <1> QED BY <1>1, <1>2, <1>5, <1>6, <1>7 DEF Sound, s

\* "create" is sound.
LEMMA CreateSound == Sound(Text("create"))
  <1> DEFINE s == Text("create")
  <1>1. /\ Len(s) = 3 /\ s \in Seq(AToken) /\ s[1] = Tok("CREATE", 0) /\ s[2] = Tok("TABLE", 0)
        /\ s[3] = Tok("name", 0)
    BY CreateText
  <1> HIDE DEF s
  <1>2. s[1].d = 0 /\ s[1].w = "CREATE" /\ s[2].w = "TABLE" /\ s[3].w = "name"
    BY <1>1 DEF Tok
  <1>3. "CREATE" \in StatementWords /\ "TABLE" \in StatementWords /\ "name" \in StatementWords
    BY DEF StatementWords
  <1>4. \A j \in 1..3 : j = 1 \/ j = 2 \/ j = 3
    OBVIOUS
  <1>5. Only(s, StatementWords)
    BY <1>1, <1>2, <1>3, <1>4 DEF Only
  <1>6. s[1].w \in FirstWords
    BY <1>2 DEF FirstWords
  <1>7. Len(s) \in Nat /\ Len(s) >= 2 /\ (s[1].w \in {"CREATE", "ALTER", "DROP"} => s[2].w = "TABLE")
    BY <1>1, <1>2
  <1> QED BY <1>1, <1>2, <1>5, <1>6, <1>7 DEF Sound, s

\* "createTemp" is sound.
LEMMA CreateTempSound == Sound(Text("createTemp"))
  <1> DEFINE s == Text("createTemp")
  <1>1. /\ Len(s) = 3 /\ s \in Seq(AToken) /\ s[1] = Tok("CREATE", 0) /\ s[2] = Tok("TABLE", 0)
        /\ s[3] = Tok("#temp", 0)
    BY CreateTempText
  <1> HIDE DEF s
  <1>2. s[1].d = 0 /\ s[1].w = "CREATE" /\ s[2].w = "TABLE" /\ s[3].w = "#temp"
    BY <1>1 DEF Tok
  <1>3. "CREATE" \in StatementWords /\ "TABLE" \in StatementWords /\ "#temp" \in StatementWords
    BY DEF StatementWords
  <1>4. \A j \in 1..3 : j = 1 \/ j = 2 \/ j = 3
    OBVIOUS
  <1>5. Only(s, StatementWords)
    BY <1>1, <1>2, <1>3, <1>4 DEF Only
  <1>6. s[1].w \in FirstWords
    BY <1>2 DEF FirstWords
  <1>7. Len(s) \in Nat /\ Len(s) >= 2 /\ (s[1].w \in {"CREATE", "ALTER", "DROP"} => s[2].w = "TABLE")
    BY <1>1, <1>2
  <1> QED BY <1>1, <1>2, <1>5, <1>6, <1>7 DEF Sound, s

\* "dropTemp" is sound.
LEMMA DropTempSound == Sound(Text("dropTemp"))
  <1> DEFINE s == Text("dropTemp")
  <1>1. /\ Len(s) = 5 /\ s \in Seq(AToken) /\ s[1] = Tok("DROP", 0) /\ s[2] = Tok("TABLE", 0)
        /\ s[3] = Tok("#temp", 0) /\ s[4] = Tok(Comma, 0) /\ s[5] = Tok("#temp", 0)
    BY DropTempText
  <1> HIDE DEF s
  <1>2. /\ s[1].d = 0 /\ s[1].w = "DROP" /\ s[2].w = "TABLE" /\ s[3].w = "#temp" /\ s[4].w = Comma
        /\ s[5].w = "#temp"
    BY <1>1 DEF Tok
  <1>3. /\ "DROP" \in StatementWords /\ "TABLE" \in StatementWords /\ "#temp" \in StatementWords
        /\ Comma \in StatementWords
    BY DEF StatementWords
  <1>4. \A j \in 1..5 : j = 1 \/ j = 2 \/ j = 3 \/ j = 4 \/ j = 5
    OBVIOUS
  <1>5. Only(s, StatementWords)
    BY <1>1, <1>2, <1>3, <1>4 DEF Only
  <1>6. s[1].w \in FirstWords
    BY <1>2 DEF FirstWords
  <1>7. Len(s) \in Nat /\ Len(s) >= 2 /\ (s[1].w \in {"CREATE", "ALTER", "DROP"} => s[2].w = "TABLE")
    BY <1>1, <1>2
  <1> QED BY <1>1, <1>2, <1>5, <1>6, <1>7 DEF Sound, s

\* "dropBoth" is sound.
LEMMA DropBothSound == Sound(Text("dropBoth"))
  <1> DEFINE s == Text("dropBoth")
  <1>1. /\ Len(s) = 5 /\ s \in Seq(AToken) /\ s[1] = Tok("DROP", 0) /\ s[2] = Tok("TABLE", 0)
        /\ s[3] = Tok("#temp", 0) /\ s[4] = Tok(Comma, 0) /\ s[5] = Tok("name", 0)
    BY DropBothText
  <1> HIDE DEF s
  <1>2. /\ s[1].d = 0 /\ s[1].w = "DROP" /\ s[2].w = "TABLE" /\ s[3].w = "#temp" /\ s[4].w = Comma
        /\ s[5].w = "name"
    BY <1>1 DEF Tok
  <1>3. /\ "DROP" \in StatementWords /\ "TABLE" \in StatementWords /\ "#temp" \in StatementWords
        /\ Comma \in StatementWords /\ "name" \in StatementWords
    BY DEF StatementWords
  <1>4. \A j \in 1..5 : j = 1 \/ j = 2 \/ j = 3 \/ j = 4 \/ j = 5
    OBVIOUS
  <1>5. Only(s, StatementWords)
    BY <1>1, <1>2, <1>3, <1>4 DEF Only
  <1>6. s[1].w \in FirstWords
    BY <1>2 DEF FirstWords
  <1>7. Len(s) \in Nat /\ Len(s) >= 2 /\ (s[1].w \in {"CREATE", "ALTER", "DROP"} => s[2].w = "TABLE")
    BY <1>1, <1>2
  <1> QED BY <1>1, <1>2, <1>5, <1>6, <1>7 DEF Sound, s

\* "alterTemp" is sound.
LEMMA AlterTempSound == Sound(Text("alterTemp"))
  <1> DEFINE s == Text("alterTemp")
  <1>1. /\ Len(s) = 6 /\ s \in Seq(AToken) /\ s[1] = Tok("ALTER", 0) /\ s[2] = Tok("TABLE", 0)
        /\ s[3] = Tok("#temp", 0) /\ s[4] = Tok("DROP", 0) /\ s[5] = Tok("COLUMN", 0)
        /\ s[6] = Tok("name", 0)
    BY AlterTempText
  <1> HIDE DEF s
  <1>2. /\ s[1].d = 0 /\ s[1].w = "ALTER" /\ s[2].w = "TABLE" /\ s[3].w = "#temp" /\ s[4].w = "DROP"
        /\ s[5].w = "COLUMN" /\ s[6].w = "name"
    BY <1>1 DEF Tok
  <1>3. /\ "ALTER" \in StatementWords /\ "TABLE" \in StatementWords /\ "#temp" \in StatementWords
        /\ "DROP" \in StatementWords /\ "COLUMN" \in StatementWords /\ "name" \in StatementWords
    BY DEF StatementWords
  <1>4. \A j \in 1..6 : j = 1 \/ j = 2 \/ j = 3 \/ j = 4 \/ j = 5 \/ j = 6
    OBVIOUS
  <1>5. Only(s, StatementWords)
    BY <1>1, <1>2, <1>3, <1>4 DEF Only
  <1>6. s[1].w \in FirstWords
    BY <1>2 DEF FirstWords
  <1>7. Len(s) \in Nat /\ Len(s) >= 2 /\ (s[1].w \in {"CREATE", "ALTER", "DROP"} => s[2].w = "TABLE")
    BY <1>1, <1>2
  <1> QED BY <1>1, <1>2, <1>5, <1>6, <1>7 DEF Sound, s

\* "call" is sound.
LEMMA CallSound == Sound(Text("call"))
  <1> DEFINE s == Text("call")
  <1>1. Len(s) = 2 /\ s \in Seq(AToken) /\ s[1] = Tok("EXEC", 0) /\ s[2] = Tok("name", 0)
    BY CallText
  <1> HIDE DEF s
  <1>2. s[1].d = 0 /\ s[1].w = "EXEC" /\ s[2].w = "name"
    BY <1>1 DEF Tok
  <1>3. "EXEC" \in StatementWords /\ "name" \in StatementWords
    BY DEF StatementWords
  <1>4. \A j \in 1..2 : j = 1 \/ j = 2
    OBVIOUS
  <1>5. Only(s, StatementWords)
    BY <1>1, <1>2, <1>3, <1>4 DEF Only
  <1>6. s[1].w \in FirstWords
    BY <1>2 DEF FirstWords
  <1>7. Len(s) \in Nat /\ Len(s) >= 2 /\ (s[1].w \in {"CREATE", "ALTER", "DROP"} => s[2].w = "TABLE")
    BY <1>1, <1>2
  <1> QED BY <1>1, <1>2, <1>5, <1>6, <1>7 DEF Sound, s

\* "dynamic" is sound.
LEMMA DynamicSound == Sound(Text("dynamic"))
  <1> DEFINE s == Text("dynamic")
  <1>1. Len(s) = 2 /\ s \in Seq(AToken) /\ s[1] = Tok("EXEC", 0) /\ s[2] = Tok("@var", 0)
    BY DynamicText
  <1> HIDE DEF s
  <1>2. s[1].d = 0 /\ s[1].w = "EXEC" /\ s[2].w = "@var"
    BY <1>1 DEF Tok
  <1>3. "EXEC" \in StatementWords /\ "@var" \in StatementWords
    BY DEF StatementWords
  <1>4. \A j \in 1..2 : j = 1 \/ j = 2
    OBVIOUS
  <1>5. Only(s, StatementWords)
    BY <1>1, <1>2, <1>3, <1>4 DEF Only
  <1>6. s[1].w \in FirstWords
    BY <1>2 DEF FirstWords
  <1>7. Len(s) \in Nat /\ Len(s) >= 2 /\ (s[1].w \in {"CREATE", "ALTER", "DROP"} => s[2].w = "TABLE")
    BY <1>1, <1>2
  <1> QED BY <1>1, <1>2, <1>5, <1>6, <1>7 DEF Sound, s

\* "rename" is sound.
LEMMA RenameSound == Sound(Text("rename"))
  <1> DEFINE s == Text("rename")
  <1>1. /\ Len(s) = 3 /\ s \in Seq(AToken) /\ s[1] = Tok("EXEC", 0) /\ s[2] = Tok("sp_rename", 0)
        /\ s[3] = Tok("literal", 0)
    BY RenameText
  <1> HIDE DEF s
  <1>2. s[1].d = 0 /\ s[1].w = "EXEC" /\ s[2].w = "sp_rename" /\ s[3].w = "literal"
    BY <1>1 DEF Tok
  <1>3. "EXEC" \in StatementWords /\ "sp_rename" \in StatementWords /\ "literal" \in StatementWords
    BY DEF StatementWords
  <1>4. \A j \in 1..3 : j = 1 \/ j = 2 \/ j = 3
    OBVIOUS
  <1>5. Only(s, StatementWords)
    BY <1>1, <1>2, <1>3, <1>4 DEF Only
  <1>6. s[1].w \in FirstWords
    BY <1>2 DEF FirstWords
  <1>7. Len(s) \in Nat /\ Len(s) >= 2 /\ (s[1].w \in {"CREATE", "ALTER", "DROP"} => s[2].w = "TABLE")
    BY <1>1, <1>2
  <1> QED BY <1>1, <1>2, <1>5, <1>6, <1>7 DEF Sound, s

\* "vacuum" is sound.
LEMMA VacuumSound == Sound(Text("vacuum"))
  <1> DEFINE s == Text("vacuum")
  <1>1. Len(s) = 2 /\ s \in Seq(AToken) /\ s[1] = Tok("VACUUM", 0) /\ s[2] = Tok("name", 0)
    BY VacuumText
  <1> HIDE DEF s
  <1>2. s[1].d = 0 /\ s[1].w = "VACUUM" /\ s[2].w = "name"
    BY <1>1 DEF Tok
  <1>3. "VACUUM" \in StatementWords /\ "name" \in StatementWords
    BY DEF StatementWords
  <1>4. \A j \in 1..2 : j = 1 \/ j = 2
    OBVIOUS
  <1>5. Only(s, StatementWords)
    BY <1>1, <1>2, <1>3, <1>4 DEF Only
  <1>6. s[1].w \in FirstWords
    BY <1>2 DEF FirstWords
  <1>7. Len(s) \in Nat /\ Len(s) >= 2 /\ (s[1].w \in {"CREATE", "ALTER", "DROP"} => s[2].w = "TABLE")
    BY <1>1, <1>2
  <1> QED BY <1>1, <1>2, <1>5, <1>6, <1>7 DEF Sound, s

\* "vacuumFull" is sound.
LEMMA VacuumFullSound == Sound(Text("vacuumFull"))
  <1> DEFINE s == Text("vacuumFull")
  <1>1. /\ Len(s) = 3 /\ s \in Seq(AToken) /\ s[1] = Tok("VACUUM", 0) /\ s[2] = Tok("FULL", 0)
        /\ s[3] = Tok("name", 0)
    BY VacuumFullText
  <1> HIDE DEF s
  <1>2. s[1].d = 0 /\ s[1].w = "VACUUM" /\ s[2].w = "FULL" /\ s[3].w = "name"
    BY <1>1 DEF Tok
  <1>3. "VACUUM" \in StatementWords /\ "FULL" \in StatementWords /\ "name" \in StatementWords
    BY DEF StatementWords
  <1>4. \A j \in 1..3 : j = 1 \/ j = 2 \/ j = 3
    OBVIOUS
  <1>5. Only(s, StatementWords)
    BY <1>1, <1>2, <1>3, <1>4 DEF Only
  <1>6. s[1].w \in FirstWords
    BY <1>2 DEF FirstWords
  <1>7. Len(s) \in Nat /\ Len(s) >= 2 /\ (s[1].w \in {"CREATE", "ALTER", "DROP"} => s[2].w = "TABLE")
    BY <1>1, <1>2
  <1> QED BY <1>1, <1>2, <1>5, <1>6, <1>7 DEF Sound, s

\* "prepared" is sound.
LEMMA PreparedSound == Sound(Text("prepared"))
  <1> DEFINE s == Text("prepared")
  <1>1. /\ Len(s) = 5 /\ s \in Seq(AToken) /\ s[1] = Tok("PREPARE", 0) /\ s[2] = Tok("name", 0)
        /\ s[3] = Tok("AS", 0) /\ s[4] = Tok("SELECT", 0) /\ s[5] = Tok("name", 0)
    BY PreparedText
  <1> HIDE DEF s
  <1>2. /\ s[1].d = 0 /\ s[1].w = "PREPARE" /\ s[2].w = "name" /\ s[3].w = "AS" /\ s[4].w = "SELECT"
        /\ s[5].w = "name"
    BY <1>1 DEF Tok
  <1>3. /\ "PREPARE" \in StatementWords /\ "name" \in StatementWords /\ "AS" \in StatementWords
        /\ "SELECT" \in StatementWords
    BY DEF StatementWords
  <1>4. \A j \in 1..5 : j = 1 \/ j = 2 \/ j = 3 \/ j = 4 \/ j = 5
    OBVIOUS
  <1>5. Only(s, StatementWords)
    BY <1>1, <1>2, <1>3, <1>4 DEF Only
  <1>6. s[1].w \in FirstWords
    BY <1>2 DEF FirstWords
  <1>7. Len(s) \in Nat /\ Len(s) >= 2 /\ (s[1].w \in {"CREATE", "ALTER", "DROP"} => s[2].w = "TABLE")
    BY <1>1, <1>2
  <1> QED BY <1>1, <1>2, <1>5, <1>6, <1>7 DEF Sound, s

\* "output" is sound.
LEMMA OutputSound == Sound(Text("output"))
  <1> DEFINE s == Text("output")
  <1>1. /\ Len(s) = 13 /\ s \in Seq(AToken) /\ s[1] = Tok("UPDATE", 0) /\ s[2] = Tok("name", 0)
        /\ s[3] = Tok("SET", 0) /\ s[4] = Tok("name", 0) /\ s[5] = Tok("=", 0) /\ s[6] = Tok("(", 0)
        /\ s[7] = Tok("SELECT", 1) /\ s[8] = Tok("name", 1) /\ s[9] = Tok(")", 0)
        /\ s[10] = Tok("OUTPUT", 0) /\ s[11] = Tok("name", 0) /\ s[12] = Tok("INTO", 0)
        /\ s[13] = Tok("name", 0)
    BY OutputText
  <1> HIDE DEF s
  <1>2. /\ s[1].d = 0 /\ s[1].w = "UPDATE" /\ s[2].w = "name" /\ s[3].w = "SET" /\ s[4].w = "name"
        /\ s[5].w = "=" /\ s[6].w = "(" /\ s[7].w = "SELECT" /\ s[8].w = "name" /\ s[9].w = ")"
        /\ s[10].w = "OUTPUT" /\ s[11].w = "name" /\ s[12].w = "INTO" /\ s[13].w = "name"
    BY <1>1 DEF Tok
  <1>3. /\ "UPDATE" \in StatementWords /\ "name" \in StatementWords /\ "SET" \in StatementWords
        /\ "=" \in StatementWords /\ "(" \in StatementWords /\ "SELECT" \in StatementWords
        /\ ")" \in StatementWords /\ "OUTPUT" \in StatementWords /\ "INTO" \in StatementWords
    BY DEF StatementWords
  <1>4. \A j \in 1..13 : j = 1 \/ j = 2 \/ j = 3 \/ j = 4 \/ j = 5 \/ j = 6 \/ j = 7 \/ j = 8 \/ j = 9
          \/ j = 10 \/ j = 11 \/ j = 12 \/ j = 13
    OBVIOUS
  <1>5. Only(s, StatementWords)
    BY <1>1, <1>2, <1>3, <1>4 DEF Only
  <1>6. s[1].w \in FirstWords
    BY <1>2 DEF FirstWords
  <1>7. Len(s) \in Nat /\ Len(s) >= 2 /\ (s[1].w \in {"CREATE", "ALTER", "DROP"} => s[2].w = "TABLE")
    BY <1>1, <1>2
  <1> QED BY <1>1, <1>2, <1>5, <1>6, <1>7 DEF Sound, s

\* The statements for SQL Server, one by one.
LEMMA TsqlKindsAre ==
    TsqlKinds = {"select", "intoNew", "intoTemp", "insert", "create", "createTemp", "dropTemp", "dropBoth",
      "alterTemp", "call", "dynamic", "rename", "output"}
  BY DEF TsqlKinds, Spelled

\* Every statement is sound.
LEMMA KindSound == ASSUME NEW kind \in TsqlKinds \cup OtherKinds PROVE Sound(Text(kind))
  <1>1. kind \in {"select", "intoNew", "intoTemp", "insert", "create", "createTemp", "dropTemp", "dropBoth",
          "alterTemp", "call", "dynamic", "rename", "vacuum", "vacuumFull", "prepared", "output"}
    BY TsqlKindsAre DEF OtherKinds
  <1>2. CASE kind \in {"select", "intoNew", "intoTemp", "insert", "create", "createTemp"}
    BY <1>2, SelectSound, IntoNewSound, IntoTempSound, InsertSound, CreateSound, CreateTempSound
  <1>3. CASE kind \in {"dropTemp", "dropBoth", "alterTemp", "call", "dynamic"}
    BY <1>3, DropTempSound, DropBothSound, AlterTempSound, CallSound, DynamicSound
  <1>4. CASE kind \in {"rename", "vacuum", "vacuumFull", "prepared", "output"}
    BY <1>4, RenameSound, VacuumSound, VacuumFullSound, PreparedSound, OutputSound
  <1> QED BY <1>1, <1>2, <1>3, <1>4

\* A statement that follows others, or stands alone, is refused by what it is.
LEMMA KindVerdict ==
    ASSUME NEW kind \in TsqlKinds, NEW t \in Seq(AToken), NEW b, NEW n, Stands(t, b, Text(kind)),
           n = Len(Text(kind)),
           W(t, (b + n) + 1) # Comma
    PROVE  Refused(t, b, n) <=> kind \in Changing
  <1>1. b \in Nat
    BY DEF Stands
  <1>2. CASE kind = "select"
    <2>1. n = 4
      BY <1>2, SelectText
    <2>3. ~Refused(t, b, 4)
      BY <1>2, SelectVerdict
    <2> QED BY <1>2, <2>1, <2>3 DEF Changing
  <1>3. CASE kind = "intoNew"
    <2>1. n = 4
      BY <1>3, IntoNewText
    <2>3. Refused(t, b, 4)
      BY <1>3, IntoNewVerdict
    <2> QED BY <1>3, <2>1, <2>3 DEF Changing
  <1>4. CASE kind = "intoTemp"
    <2>1. n = 4
      BY <1>4, IntoTempText
    <2>3. ~Refused(t, b, 4)
      BY <1>4, IntoTempVerdict
    <2> QED BY <1>4, <2>1, <2>3 DEF Changing
  <1>5. CASE kind = "insert"
    <2>1. n = 5
      BY <1>5, InsertText
    <2>3. ~Refused(t, b, 5)
      BY <1>5, InsertVerdict
    <2> QED BY <1>5, <2>1, <2>3 DEF Changing
  <1>6. CASE kind = "create"
    <2>1. n = 3
      BY <1>6, CreateText
    <2>3. Refused(t, b, 3)
      BY <1>6, CreateVerdict
    <2> QED BY <1>6, <2>1, <2>3 DEF Changing
  <1>7. CASE kind = "createTemp"
    <2>1. n = 3
      BY <1>7, CreateTempText
    <2>3. ~Refused(t, b, 3)
      BY <1>7, CreateTempVerdict
    <2> QED BY <1>7, <2>1, <2>3 DEF Changing
  <1>8. CASE kind = "dropTemp"
    <2>1. n = 5
      BY <1>8, DropTempText
    <2>2. W(t, b + 6) # Comma
      <3>1. (b + 5) + 1 = b + 6
        BY <1>1
      <3> QED BY <2>1, <3>1
    <2>3. ~Refused(t, b, 5)
      BY <1>8, <2>2, DropTempVerdict
    <2> QED BY <1>8, <2>1, <2>3 DEF Changing
  <1>9. CASE kind = "dropBoth"
    <2>1. n = 5
      BY <1>9, DropBothText
    <2>2. W(t, b + 6) # Comma
      <3>1. (b + 5) + 1 = b + 6
        BY <1>1
      <3> QED BY <2>1, <3>1
    <2>3. Refused(t, b, 5)
      BY <1>9, <2>2, DropBothVerdict
    <2> QED BY <1>9, <2>1, <2>3 DEF Changing
  <1>10. CASE kind = "alterTemp"
    <2>1. n = 6
      BY <1>10, AlterTempText
    <2>3. ~Refused(t, b, 6)
      BY <1>10, AlterTempVerdict
    <2> QED BY <1>10, <2>1, <2>3 DEF Changing
  <1>11. CASE kind = "call"
    <2>1. n = 2
      BY <1>11, CallText
    <2>3. ~Refused(t, b, 2)
      BY <1>11, CallVerdict
    <2> QED BY <1>11, <2>1, <2>3 DEF Changing
  <1>12. CASE kind = "dynamic"
    <2>1. n = 2
      BY <1>12, DynamicText
    <2>3. Refused(t, b, 2)
      BY <1>12, DynamicVerdict
    <2> QED BY <1>12, <2>1, <2>3 DEF Changing
  <1>13. CASE kind = "rename"
    <2>1. n = 3
      BY <1>13, RenameText
    <2>3. Refused(t, b, 3)
      BY <1>13, RenameVerdict
    <2> QED BY <1>13, <2>1, <2>3 DEF Changing
  <1>14. CASE kind = "output"
    <2>1. n = 13
      BY <1>14, OutputText
    <2>3. ~Refused(t, b, 13)
      BY <1>14, OutputVerdict
    <2> QED BY <1>14, <2>1, <2>3 DEF Changing
  <1> QED BY TsqlKindsAre, <1>2, <1>3, <1>4, <1>5, <1>6, <1>7, <1>8, <1>9, <1>10, <1>11, <1>12, <1>13, <1>14

\* What a statement for SQL Server begins with.
LEMMA KindFirst ==
    ASSUME NEW kind \in TsqlKinds
    PROVE  Text(kind)[1].w \in {"SELECT", "INSERT", "CREATE", "DROP", "ALTER", "EXEC", "UPDATE"}
  <1>1. Text("select")[1].w = "SELECT"
    BY SelectText DEF Tok
  <1>2. Text("intoNew")[1].w = "SELECT"
    BY IntoNewText DEF Tok
  <1>3. Text("intoTemp")[1].w = "SELECT"
    BY IntoTempText DEF Tok
  <1>4. Text("insert")[1].w = "INSERT"
    BY InsertText DEF Tok
  <1>5. Text("create")[1].w = "CREATE"
    BY CreateText DEF Tok
  <1>6. Text("createTemp")[1].w = "CREATE"
    BY CreateTempText DEF Tok
  <1>7. Text("dropTemp")[1].w = "DROP"
    BY DropTempText DEF Tok
  <1>8. Text("dropBoth")[1].w = "DROP"
    BY DropBothText DEF Tok
  <1>9. Text("alterTemp")[1].w = "ALTER"
    BY AlterTempText DEF Tok
  <1>10. Text("call")[1].w = "EXEC"
    BY CallText DEF Tok
  <1>11. Text("dynamic")[1].w = "EXEC"
    BY DynamicText DEF Tok
  <1>12. Text("rename")[1].w = "EXEC"
    BY RenameText DEF Tok
  <1>13. Text("output")[1].w = "UPDATE"
    BY OutputText DEF Tok
  <1> QED BY TsqlKindsAre, <1>1, <1>2, <1>3, <1>4, <1>5, <1>6, <1>7, <1>8, <1>9, <1>10, <1>11, <1>12, <1>13

---------------------------------------------------------------------------
(* A batch for SQL Server as one statement, which nothing parts.            *)

Written1(ks) == [k \in 1..Len(ks) |-> Text(ks[k])]

\* No statement at all is not refused.
LEMMA NothingPasses == ASSUME NEW engine PROVE ~OneRefused(<<>>, engine)
  BY DEF OneRefused

\* A statement that is no EXPLAIN explains nothing.
LEMMA NotExplained == ASSUME NEW t, W(t, 1) # "EXPLAIN" PROVE Explained(t) = <<>>
  BY DEF Explained

\* It is refused where a place of it is.
LEMMA TsqlOne ==
    ASSUME NEW t \in Seq(AToken), Len(t) >= 2, t[1].d = 0, t[1].w \in {"SELECT", "INSERT", "CREATE", "DROP",
           "ALTER", "EXEC", "UPDATE"},
           t[1].w \in {"CREATE", "ALTER", "DROP"} => t[2].w = "TABLE"
    PROVE  OneRefused(t, "tsql") <=> \E i \in 1..Len(t) : TsqlAt(t, i)
  <1>1. Len(t) \in Nat /\ DOMAIN t = 1..Len(t) /\ t # <<>>
    OBVIOUS
  <1>2. 1 \in 1..Len(t) /\ 2 \in 1..Len(t) /\ 1 + 1 = 2
    BY <1>1
  <1>3. W(t, 1) = t[1].w /\ W(t, 1 + 1) = t[2].w
    BY <1>1, <1>2 DEF W
  <1>4. t[1].w \notin {"VACUUM", "SET", "PREPARE", "DO", "sp_rename", "sp_executesql"}
    OBVIOUS
  <1>5. CreatesInto(t, "tsql") <=> \E i \in 1..Len(t) : t[i].w = "INTO" /\ LastVerb(t, i) = "SELECT" /\ W(t,
          i + 1) # "#temp"
    BY <1>1 DEF CreatesInto
  <1>6. ASSUME NEW i \in 1..Len(t), TsqlAt(t, i) PROVE OneRefused(t, "tsql")
    <2>1. CASE t[i].w = "INTO" /\ LastVerb(t, i) = "SELECT" /\ W(t, i + 1) # "#temp"
      BY <1>1, <1>5, <2>1 DEF OneRefused
    <2>2. CASE /\ i = 1 /\ t[i].w \in TsqlSchemaWords /\ ~Temporary(t, i)
      <3>1. t[1].w \in SchemaWords
        BY <2>2 DEF SchemaWords, TsqlSchemaWords
      <3> QED BY <1>1, <2>2, <3>1 DEF OneRefused
    <2>3. CASE \/ t[i].w = "EXEC" /\ Dynamic(t, i + 1)
               \/ t[i].w = "OPENQUERY"
               \/ /\ i > 1 /\ t[i].d = 0 /\ t[i].w \in TsqlSchemaWords
                  /\ W(t, i + 1) # "COLUMN" /\ ~Temporary(t, i)
               \/ t[i].d = 0 /\ t[i].w = "DISABLE" /\ W(t, i + 1) = "TRIGGER"
               \/ t[i].d = 0 /\ t[i].w = "DBCC"
      <3>1. TsqlRefused(t)
        BY <1>1, <2>3 DEF TsqlRefused
      <3> QED BY <1>1, <3>1 DEF OneRefused
    <2>4. i = 1 \/ i > 1
      BY <1>1
    <2> QED BY <1>6, <2>1, <2>2, <2>3, <2>4 DEF TsqlAt
  <1>7. ASSUME OneRefused(t, "tsql") PROVE \E i \in 1..Len(t) : TsqlAt(t, i)
    <2>1. \/ t[1].w \in SchemaWords /\ ~Temporary(t, 1)
          \/ TsqlRefused(t)
          \/ CreatesInto(t, "tsql")
      BY <1>4, <1>7 DEF OneRefused
    <2>2. CASE CreatesInto(t, "tsql")
      BY <1>5, <2>2 DEF TsqlAt
    <2>3. CASE t[1].w \in SchemaWords /\ ~Temporary(t, 1)
      <3>1. t[1].w \in {"CREATE", "ALTER", "DROP"}
        BY <2>3 DEF SchemaWords
      <3>2. t[1].w \in TsqlSchemaWords /\ W(t, 1 + 1) # "COLUMN"
        BY <1>3, <3>1 DEF TsqlSchemaWords
      <3>3. TsqlAt(t, 1)
        BY <2>3, <3>2 DEF TsqlAt
      <3> QED BY <1>2, <3>3
    <2>4. CASE TsqlRefused(t)
      <3>1. W(t, 1) \notin SchemaProcedures
        BY <1>3, <1>4 DEF SchemaProcedures
      <3> QED BY <1>1, <2>4, <3>1 DEF TsqlRefused, TsqlAt
    <2> QED BY <2>1, <2>2, <2>3, <2>4
  <1> QED BY <1>6, <1>7

\* However many follow one another, it is refused exactly when one of them changes the schema.
LEMMA TsqlVerdict ==
    ASSUME NEW ks \in Seq(TsqlKinds), Len(ks) > 0, NEW t \in Seq(AToken), NEW o, Laid(Written1(ks), t, o)
    PROVE  StatementRefused(t, "tsql") <=> \E k \in 1..Len(ks) : ks[k] \in Changing
  <1> DEFINE n == Len(ks)
             p == Written1(ks)
  <1>1. n \in Nat /\ n > 0 /\ \A k \in 1..n : ks[k] \in TsqlKinds
    OBVIOUS
  <1>2. Len(p) = n /\ \A k \in 1..n : p[k] = Text(ks[k])
    BY <1>1 DEF Written1
  <1>3. \A k \in 1..n : Sound(p[k])
    BY <1>1, <1>2, KindSound
  <1>4. \A k \in 1..n : p[k] \in Seq(AToken) /\ Len(p[k]) \in Nat /\ Len(p[k]) >= 2 /\ p[k][1].w \in FirstWords
    BY <1>3 DEF Sound
  <1> HIDE DEF n, p
  <1>5. /\ o \in [0..n -> Nat] /\ o[0] = 0 /\ Len(t) = o[n]
        /\ \A k \in 1..n : o[k] = o[k - 1] + Len(p[k]) /\ o[k] <= Len(t)
             /\ \A j \in 1..Len(p[k]) : t[o[k - 1] + j] = p[k][j]
    BY <1>2 DEF Laid, p
  <1>6. Len(t) \in Nat /\ DOMAIN t = 1..Len(t)
    OBVIOUS
  <1>7. \A k \in 1..n : Stands(t, o[k - 1], p[k]) /\ o[k - 1] \in Nat
    <2> SUFFICES ASSUME NEW k \in 1..n PROVE Stands(t, o[k - 1], p[k]) /\ o[k - 1] \in Nat
      OBVIOUS
    <2>1. k - 1 \in 0..n
      BY <1>1
    <2>2. o[k - 1] \in Nat
      BY <1>5, <2>1
    <2>3. o[k - 1] + Len(p[k]) <= Len(t) /\ \A j \in 1..Len(p[k]) : t[o[k - 1] + j] = p[k][j]
      BY <1>5
    <2> QED BY <2>2, <2>3 DEF Stands
  <1>8. \A k \in 1..n : W(t, o[k] + 1) # Comma
    <2> SUFFICES ASSUME NEW k \in 1..n PROVE W(t, o[k] + 1) # Comma
      OBVIOUS
    <2>1. CASE k = n
      <3>1. o[k] + 1 \notin DOMAIN t
        BY <1>5, <1>6, <2>1
      <3> QED BY <3>1, CommaOther DEF W
    <2>2. CASE k # n
      <3>1. k + 1 \in 1..n /\ (k + 1) - 1 = k /\ o[k] \in Nat
        BY <1>1, <1>5, <2>2
      <3>2. 1 \in 1..Len(p[k + 1])
        BY <1>4, <3>1
      <3>3. t[o[k] + 1] = p[k + 1][1]
        BY <1>5, <3>1, <3>2
      <3>4. /\ o[k + 1] = o[k] + Len(p[k + 1]) /\ o[k + 1] <= Len(t) /\ Len(p[k + 1]) \in Nat
            /\ Len(p[k + 1]) >= 2
        BY <1>4, <1>5, <3>1
      <3>5. o[k] + 1 \in 1..Len(t)
        <4>1. o[k + 1] \in Nat
          BY <3>1, <3>4
        <4>2. Len(t) \in Nat
          BY <1>6
        <4>3. o[k] \in Nat /\ o[k] + Len(p[k + 1]) <= Len(t) /\ Len(p[k + 1]) \in Nat /\ Len(p[k + 1]) >= 2
          BY <3>1, <3>4
        <4> QED BY <4>2, <4>3, SMTT(60)
      <3>6. W(t, o[k] + 1) \in FirstWords
        BY <1>4, <1>6, <3>1, <3>3, <3>5 DEF W
      <3>7. Comma \notin FirstWords
        BY DEF Comma, FirstWords
      <3> QED BY <3>6, <3>7
    <2> QED BY <2>1, <2>2
  <1>9. \A k \in 1..n : Refused(t, o[k - 1], Len(p[k])) <=> ks[k] \in Changing
    <2> SUFFICES ASSUME NEW k \in 1..n PROVE Refused(t, o[k - 1], Len(p[k])) <=> ks[k] \in Changing
      OBVIOUS
    <2> DEFINE b == o[k - 1]
               m == Len(p[k])
    <2>1. Stands(t, b, Text(ks[k])) /\ m = Len(Text(ks[k])) /\ ks[k] \in TsqlKinds
      BY <1>1, <1>2, <1>7
    <2>2. W(t, (b + m) + 1) # Comma
      BY <1>5, <1>8
    <2> HIDE DEF b, m
    <2>3. Refused(t, b, m) <=> ks[k] \in Changing
      BY <2>1, <2>2, KindVerdict
    <2> QED BY <2>3 DEF b, m
  <1>10. (\E i \in 1..Len(t) : TsqlAt(t, i)) <=> \E k \in 1..n : Refused(t, o[k - 1], Len(p[k]))
    <2>1. ASSUME NEW i \in 1..Len(t), TsqlAt(t, i) PROVE \E k \in 1..n : Refused(t, o[k - 1], Len(p[k]))
      <3>1. PICK k \in 1..Len(p) : \E j \in 1..Len(p[k]) : i = o[k - 1] + j
        <4>1. Laid(p, t, o)
          BY DEF p
        <4>2. Len(p) \in Nat
          BY <1>1, <1>2
        <4>3. \A k \in 1..Len(p) : Len(p[k]) \in Nat
          BY <1>2, <1>4
        <4> QED BY <4>1, <4>2, <4>3, LaidSomewhere, SMTT(60)
      <3> QED BY <1>2, <2>1, <3>1 DEF Refused
    <2>2. ASSUME NEW k \in 1..n, Refused(t, o[k - 1], Len(p[k])) PROVE \E i \in 1..Len(t) : TsqlAt(t, i)
      <3>1. PICK j \in 1..Len(p[k]) : TsqlAt(t, o[k - 1] + j)
        BY <2>2 DEF Refused
      <3>2. o[k - 1] \in Nat /\ o[k - 1] + Len(p[k]) <= Len(t) /\ Len(p[k]) \in Nat
        BY <1>4, <1>7 DEF Stands
      <3>3. o[k - 1] + j \in 1..Len(t)
        BY <1>6, <3>2
      <3> QED BY <3>1, <3>3
    <2> QED BY <2>1, <2>2
  <1>11. OneRefused(t, "tsql") <=> \E i \in 1..Len(t) : TsqlAt(t, i)
    <2>1. 1 \in 1..n /\ 1 - 1 = 0 /\ Len(p[1]) \in Nat /\ Len(p[1]) >= 2
      BY <1>1, <1>4
    <2>2. 1 \in 1..Len(p[1]) /\ 2 \in 1..Len(p[1])
      BY <2>1
    <2>3. t[0 + 1] = p[1][1] /\ t[0 + 2] = p[1][2] /\ o[1] = 0 + Len(p[1]) /\ o[1] <= Len(t)
      BY <1>5, <2>1, <2>2
    <2>4. t[1] = p[1][1] /\ t[2] = p[1][2] /\ Len(t) >= 2
      BY <1>6, <2>1, <2>3
    <2>5. p[1][1].d = 0 /\ (p[1][1].w \in {"CREATE", "ALTER", "DROP"} => p[1][2].w = "TABLE")
      BY <1>3, <2>1 DEF Sound
    <2>6. p[1][1].w \in {"SELECT", "INSERT", "CREATE", "DROP", "ALTER", "EXEC", "UPDATE"}
      BY <1>1, <1>2, <2>1, KindFirst
    <2> QED BY <2>4, <2>5, <2>6, TsqlOne
  <1>12. ~OneRefused(Explained(t), "tsql")
    <2>1. W(t, 1) # "EXPLAIN"
      <3>1. 1 \in 1..n /\ 1 - 1 = 0 /\ Len(p[1]) \in Nat /\ Len(p[1]) >= 2
        BY <1>1, <1>4
      <3>2. 1 \in 1..Len(p[1]) /\ 0 + 1 = 1
        BY <3>1
      <3>3. t[0 + 1] = p[1][1] /\ o[1] = 0 + Len(p[1]) /\ o[1] <= Len(t)
        BY <1>5, <3>1, <3>2
      <3>4. t[1] = p[1][1] /\ 1 \in 1..Len(t)
        BY <1>6, <3>1, <3>2, <3>3
      <3>5. W(t, 1) \in FirstWords
        BY <1>4, <1>6, <3>1, <3>4 DEF W
      <3>6. "EXPLAIN" \notin FirstWords
        BY DEF FirstWords
      <3> QED BY <3>5, <3>6
    <2> QED BY <2>1, NotExplained, NothingPasses
  <1> QED BY <1>9, <1>10, <1>11, <1>12 DEF StatementRefused, n

---------------------------------------------------------------------------
(* A statement for another engine, alone or behind an EXPLAIN.              *)

Kept == {"select", "insert", "vacuum", "prepared"}

\* The statements for another engine change no schema, or are one of three.
LEMMA OtherKindsAre == \A kind \in OtherKinds : kind \in Kept \/ kind \in {"intoNew", "create", "vacuumFull"}
  BY DEF OtherKinds, Kept

\* An INTO of what changes no schema is an INSERT's.
LEMMA KeptInto ==
    ASSUME NEW kind \in Kept, NEW t \in Seq(AToken), NEW b, Stands(t, b, Text(kind)), Len(t) = b + Len(Text(kind)),
           \A j \in 1..b : t[j].w # "INTO", NEW engine
    PROVE  ~CreatesInto(t, engine)
  <1> DEFINE s == Text(kind)
  <1>1. b \in Nat /\ \A j \in 1..Len(s) : t[b + j] = s[j]
    BY DEF Stands
  <1>2. Len(t) = b + Len(s) /\ Len(t) \in Nat /\ DOMAIN t = 1..Len(t)
    OBVIOUS
  <1>3. CASE kind # "insert"
    <2>1. Len(s) \in Nat /\ \A j \in 1..Len(s) : s[j].w # "INTO"
      <3>1. CASE kind = "select"
        <4>1. Len(s) = 4 /\ s[1].w = "SELECT" /\ s[2].w = "name" /\ s[3].w = "FROM" /\ s[4].w = "name"
          BY <3>1, SelectText DEF Tok
        <4>2. \A j \in 1..4 : j = 1 \/ j = 2 \/ j = 3 \/ j = 4
          OBVIOUS
        <4> QED BY <4>1, <4>2
      <3>2. CASE kind = "vacuum"
        <4>1. Len(s) = 2 /\ s[1].w = "VACUUM" /\ s[2].w = "name"
          BY <3>2, VacuumText DEF Tok
        <4>2. \A j \in 1..2 : j = 1 \/ j = 2
          OBVIOUS
        <4> QED BY <4>1, <4>2
      <3>3. CASE kind = "prepared"
        <4>1. /\ Len(s) = 5 /\ s[1].w = "PREPARE" /\ s[2].w = "name" /\ s[3].w = "AS"
              /\ s[4].w = "SELECT" /\ s[5].w = "name"
          BY <3>3, PreparedText DEF Tok
        <4>2. \A j \in 1..5 : j = 1 \/ j = 2 \/ j = 3 \/ j = 4 \/ j = 5
          OBVIOUS
        <4> QED BY <4>1, <4>2
      <3> QED BY <1>3, <3>1, <3>2, <3>3 DEF Kept
    <2> HIDE DEF s
    <2>2. ASSUME NEW i \in 1..Len(t) PROVE t[i].w # "INTO"
      <3>1. CASE i <= b
        BY <1>1, <3>1
      <3>2. CASE i > b
        <4>1. i - b \in 1..Len(s) /\ b + (i - b) = i
          <5>1. b \in Nat /\ Len(t) = b + Len(s) /\ Len(t) \in Nat /\ Len(s) \in Nat
            BY <1>1, <1>2, <2>1
          <5> QED BY <3>2, <5>1
        <4> QED BY <1>1, <2>1, <4>1
      <3> QED BY <1>1, <3>1, <3>2
    <2> QED BY <1>2, <2>2 DEF CreatesInto
  <1>4. CASE kind = "insert"
    <2>1. /\ Len(s) = 5 /\ s[1] = Tok("INSERT", 0) /\ s[2] = Tok("INTO", 0) /\ s[3] = Tok("name", 0)
          /\ s[4] = Tok("SELECT", 0) /\ s[5] = Tok("name", 0)
      BY <1>4, InsertText
    <2> HIDE DEF s
    <2>2. \A j \in 1..5 : j = 1 \/ j = 2 \/ j = 3 \/ j = 4 \/ j = 5
      OBVIOUS
    <2>3. s[1].w # "INTO" /\ s[3].w # "INTO" /\ s[4].w # "INTO" /\ s[5].w # "INTO"
      BY <2>1 DEF Tok
    <2>4. \A j \in 1..Len(s) : s[j].w = "INTO" => j = 2
      BY <2>1, <2>2, <2>3
    <2>5. ASSUME NEW i \in 1..Len(t), t[i].w = "INTO" PROVE i = b + 2
      <3>1. CASE i <= b
        BY <1>1, <2>5, <3>1
      <3>2. CASE i > b
        <4>1. i - b \in 1..Len(s) /\ b + (i - b) = i
          <5>1. b \in Nat /\ Len(t) = b + Len(s) /\ Len(t) \in Nat /\ Len(s) \in Nat
            BY <1>1, <1>2, <2>1
          <5> QED BY <3>2, <5>1
        <4> QED BY <1>1, <2>4, <2>5, <4>1
      <3> QED BY <1>1, <3>1, <3>2
    <2>6. LastVerb(t, b + 2) = "INSERT"
      <3>1. 1 \in 1..Len(s) /\ 2 \in 1..Len(s)
        BY <2>1
      <3>2. t[b + 1] = Tok("INSERT", 0) /\ t[b + 2] = Tok("INTO", 0)
        BY <1>1, <2>1, <3>1
      <3>3. b + 2 <= Len(t)
        BY <1>1, <1>2, <2>1
      <3> QED BY <1>1, <1>2, <3>2, <3>3, IntoInsert
    <2> QED BY <1>2, <2>5, <2>6 DEF CreatesInto
  <1> QED BY <1>3, <1>4

\* Each of them alone is refused exactly when it changes the schema.
LEMMA OtherOne ==
    ASSUME NEW kind \in OtherKinds, NEW engine, engine # "tsql"
    PROVE  OneRefused(Text(kind), engine) <=> kind \in Changing
  <1> DEFINE t == Text(kind)
  <1>1. t \in Seq(AToken) /\ Len(t) \in Nat /\ Len(t) >= 2
    BY KindSound DEF Sound
  <1>2. DOMAIN t = 1..Len(t) /\ t # <<>>
    <2> HIDE DEF t
    <2> QED BY <1>1
  <1>3. CASE kind \in Kept
    <2>1. ~CreatesInto(t, engine)
      <3>1. Stands(t, 0, t) /\ Len(t) = 0 + Len(t) /\ \A j \in 1..0 : t[j].w # "INTO"
        <4> HIDE DEF t
        <4>1. Len(t) = 0 + Len(t) /\ (\A j \in 1..0 : t[j].w # "INTO") /\ \A j \in 1..Len(t) : 0 + j = j
          BY <1>1
        <4> QED BY <1>1, <4>1 DEF Stands
      <3> QED BY <1>1, <1>3, <3>1, KeptInto
    <2>2. /\ t[1].w \in {"SELECT", "INSERT", "VACUUM", "PREPARE"}
          /\ t[1].w = "VACUUM" => t[2].w = "name"
          /\ t[1].w = "PREPARE" => Len(t) = 5 /\ t[2].w = "name" /\ t[3].w = "AS"
      <3>1. CASE kind = "select"
        BY <3>1, SelectText DEF Tok
      <3>2. CASE kind = "insert"
        BY <3>2, InsertText DEF Tok
      <3>3. CASE kind = "vacuum"
        BY <3>3, VacuumText DEF Tok
      <3>4. CASE kind = "prepared"
        BY <3>4, PreparedText DEF Tok
      <3> QED BY <1>3, <3>1, <3>2, <3>3, <3>4 DEF Kept
    <2> HIDE DEF t
    <2>3. W(t, 2) = t[2].w /\ (Len(t) = 5 => W(t, 3) = t[3].w)
      BY <1>1, <1>2 DEF W
    <2>4. t[1].w \notin SchemaWords /\ "name" \in Names
      BY <2>2 DEF SchemaWords, Names
    <2>5. ~OneRefused(t, engine)
      BY <2>1, <2>2, <2>3, <2>4 DEF OneRefused, IsName
    <2>6. kind \notin Changing
      BY <1>3 DEF Kept, Changing
    <2> QED BY <2>5, <2>6 DEF t
  <1>4. CASE kind = "create"
    <2>1. Len(t) = 3 /\ t[1].w = "CREATE" /\ t[1].d = 0 /\ t[2].w = "TABLE" /\ t[3].w = "name"
      BY <1>4, CreateText DEF Tok
    <2> HIDE DEF t
    <2>2. W(t, 1 + 2) = "name"
      BY <1>2, <2>1 DEF W
    <2>3. ~Temporary(t, 1) /\ t[1].w \in SchemaWords
      BY <2>1, <2>2 DEF Temporary, SchemaWords
    <2>4. OneRefused(t, engine)
      BY <1>2, <2>3 DEF OneRefused
    <2> QED BY <1>4, <2>4 DEF Changing, t
  <1>5. CASE kind = "vacuumFull"
    <2>1. Len(t) = 3 /\ t[1].w = "VACUUM" /\ t[2].w = "FULL"
      BY <1>5, VacuumFullText DEF Tok
    <2> HIDE DEF t
    <2>2. W(t, 2) = "FULL"
      BY <1>2, <2>1 DEF W
    <2>4. OneRefused(t, engine)
      BY <1>2, <2>1, <2>2 DEF OneRefused
    <2> QED BY <1>5, <2>4 DEF Changing, t
  <1>6. CASE kind = "intoNew"
    <2>1. /\ Len(t) = 4 /\ t[1] = Tok("SELECT", 0) /\ t[2] = Tok("name", 0) /\ t[3] = Tok("INTO", 0)
          /\ t[4] = Tok("name", 0)
      BY <1>6, IntoNewText
    <2> HIDE DEF t
    <2>2. LastVerb(t, 3) = "SELECT"
      <3>1. 0 \in Nat /\ 0 + 1 = 1 /\ 0 + 2 = 2 /\ 0 + 3 = 3 /\ 0 + 3 <= Len(t)
        BY <2>1
      <3>2. t[0 + 1] = Tok("SELECT", 0) /\ t[0 + 2] = Tok("name", 0) /\ t[0 + 3] = Tok("INTO", 0)
        BY <2>1, <3>1
      <3>3. LastVerb(t, 0 + 3) = "SELECT"
        BY <1>1, <3>1, <3>2, IntoNew
      <3> QED BY <3>1, <3>3
    <2>3. 3 \in DOMAIN t /\ t[3].w = "INTO" /\ W(t, 3 + 1) = "name"
      <3>1. 3 + 1 = 4 /\ 4 \in DOMAIN t /\ 3 \in DOMAIN t
        BY <1>2, <2>1
      <3> QED BY <2>1, <3>1 DEF W, Tok
    <2>4. CreatesInto(t, engine)
      BY <2>2, <2>3 DEF CreatesInto
    <2>5. OneRefused(t, engine)
      BY <1>2, <2>4 DEF OneRefused
    <2> QED BY <1>6, <2>5 DEF Changing, t
  <1> QED BY <1>3, <1>4, <1>5, <1>6, OtherKindsAre

\* What an EXPLAIN explains is found behind its options.
LEMMA ExplainedText ==
    ASSUME NEW s \in Seq(AToken), Len(s) > 0, s[1].w \in FirstWords, NEW a, a = Words(<<"EXPLAIN", "ANALYZE">>,
           0), NEW t, t = a \o s
    PROVE  /\ t \in Seq(AToken) /\ Len(t) = 2 + Len(s) /\ t[1].w = "EXPLAIN" /\ t[2].w = "ANALYZE"
           /\ Stands(t, 2, s)
           /\ Explained(t) = s
  <1>1. a \in Seq(AToken) /\ Len(a) = 2 /\ a[1] = Tok("EXPLAIN", 0) /\ a[2] = Tok("ANALYZE", 0)
    <2>1. "EXPLAIN" \in AWord /\ "ANALYZE" \in AWord /\ 0 \in Nat
      BY WordsHas
    <2> QED BY <2>1, Words2
  <1>3. /\ t \in Seq(AToken) /\ Len(t) = Len(a) + Len(s) /\ (\A j \in 1..Len(a) : t[j] = a[j])
        /\ \A j \in 1..Len(s) : t[Len(a) + j] = s[j]
    <2>1. a \in Seq(AToken) /\ t = a \o s
      BY <1>1
    <2> QED BY <2>1, TokensJoined
  <1>4. Len(t) \in Nat /\ DOMAIN t = 1..Len(t) /\ Len(s) \in Nat /\ DOMAIN s = 1..Len(s)
    BY <1>3
  <1>5. Len(t) = 2 + Len(s) /\ t[1] = a[1] /\ t[2] = a[2] /\ \A j \in 1..Len(s) : t[2 + j] = s[j]
    <2>1. 1 \in 1..2 /\ 2 \in 1..2
      OBVIOUS
    <2> QED BY <1>1, <1>3, <2>1
  <1>6. t[1].w = "EXPLAIN" /\ t[2].w = "ANALYZE" /\ t[3] = s[1]
    <2>1. 1 \in 1..Len(s) /\ 2 + 1 = 3
      BY <1>4
    <2> QED BY <1>1, <1>5, <2>1 DEF Tok
  <1>7. W(t, 1) = "EXPLAIN" /\ W(t, 2) = "ANALYZE"
    BY <1>4, <1>5, <1>6 DEF W
  <1> DEFINE rest == {i \in 2..Len(t) : t[i].w \notin {"ANALYZE", "VERBOSE"}}
  <1>8. Explained(t) = IF rest = {} THEN <<>> ELSE SubSeq(t, CHOOSE i \in rest : \A j \in rest : i <= j, Len(t))
    <2> DEFINE from == IF W(t, 2) = "(" THEN Closing(t, 2) + 1 ELSE 2
               R(f) == {i \in f..Len(t) : t[i].w \notin {"ANALYZE", "VERBOSE"}}
               X(S) == IF W(t, 1) # "EXPLAIN" \/ S = {} THEN <<>> ELSE SubSeq(t,
                 CHOOSE i \in S : \A j \in S : i <= j, Len(t))
    <2>1. Explained(t) = X(R(from))
      BY DEF Explained
    <2>2. from = 2
      BY <1>7
    <2>3. X(R(2)) = X(R(from))
      <3> HIDE DEF from, X, R
      <3> QED BY <2>2
    <2> QED BY <1>7, <2>1, <2>3
  <1>9. 3 \in rest /\ \A j \in rest : 3 <= j
    <2>1. "ANALYZE" \notin FirstWords /\ "VERBOSE" \notin FirstWords
      BY DEF FirstWords
    <2>2. \A j \in 2..Len(t) : j # 2 => 3 <= j
      BY <1>4
    <2>3. 3 \in 2..Len(t)
      BY <1>4, <1>5
    <2> QED BY <1>6, <2>1, <2>2, <2>3
  <1>10. (CHOOSE i \in rest : \A j \in rest : i <= j) = 3
    <2>1. \A i \in rest : i \in Int
      BY <1>4
    <2>2. \A i \in rest : (\A j \in rest : i <= j) => i = 3
      BY <1>9, <2>1
    <2> HIDE DEF rest
    <2> QED BY <1>9, <2>2
  <1>11. SubSeq(t, 3, Len(t)) = s
    <2>1. SubSeq(t, 3, Len(t)) = [j \in 1..Len(s) |-> t[2 + j]]
      BY <1>3, <1>4, <1>5
    <2>2. s = [j \in 1..Len(s) |-> s[j]]
      OBVIOUS
    <2> QED BY <1>5, <2>1, <2>2
  <1>12. Explained(t) = s
    <2> HIDE DEF rest
    <2> QED BY <1>8, <1>9, <1>10, <1>11
  <1>13. Stands(t, 2, s)
    BY <1>4, <1>5 DEF Stands
  <1> QED BY <1>3, <1>5, <1>6, <1>12, <1>13

\* It is refused exactly when it changes the schema, or explains what does.
LEMMA OtherVerdict ==
    ASSUME NEW kind \in OtherKinds, NEW engine, engine # "tsql", NEW t,
           t = Text(kind) \/ t = Words(<<"EXPLAIN", "ANALYZE">>, 0) \o Text(kind)
    PROVE  StatementRefused(t, engine) <=> kind \in Changing
  <1> DEFINE s == Text(kind)
  <1>1. s \in Seq(AToken) /\ Len(s) \in Nat /\ Len(s) >= 2 /\ s[1].w \in FirstWords
    BY KindSound DEF Sound
  <1>2. OneRefused(s, engine) <=> kind \in Changing
    BY OtherOne
  <1>3. CASE t = s
    <2>1. W(t, 1) # "EXPLAIN"
      <3> HIDE DEF s
      <3>1. DOMAIN s = 1..Len(s) /\ 1 \in 1..Len(s)
        BY <1>1
      <3>2. W(s, 1) \in FirstWords
        BY <1>1, <3>1 DEF W
      <3>3. "EXPLAIN" \notin FirstWords
        BY DEF FirstWords
      <3> QED BY <1>3, <3>2, <3>3
    <2> QED BY <1>2, <1>3, <2>1, NotExplained, NothingPasses DEF StatementRefused
  <1>4. CASE t = Words(<<"EXPLAIN", "ANALYZE">>, 0) \o s
    <2> HIDE DEF s
    <2>1. /\ t \in Seq(AToken) /\ Len(t) = 2 + Len(s) /\ t[1].w = "EXPLAIN" /\ t[2].w = "ANALYZE"
          /\ Stands(t, 2, s)
          /\ Explained(t) = s
      <3>1. s \in Seq(AToken) /\ Len(s) > 0 /\ s[1].w \in FirstWords
        BY <1>1
      <3> DEFINE a == Words(<<"EXPLAIN", "ANALYZE">>, 0)
      <3>2. a = Words(<<"EXPLAIN", "ANALYZE">>, 0) /\ t = a \o s
        BY <1>4
      <3> HIDE DEF a
      <3> QED BY <3>1, <3>2, ExplainedText
    <2>2. ASSUME kind \in Kept PROVE ~OneRefused(t, engine)
      <3>1. ~CreatesInto(t, engine)
        <4>1. \A j \in 1..2 : t[j].w # "INTO"
          <5>1. \A j \in 1..2 : j = 1 \/ j = 2
            OBVIOUS
          <5> QED BY <2>1, <5>1
        <4>2. Stands(t, 2, Text(kind)) /\ Len(t) = 2 + Len(Text(kind))
          BY <2>1 DEF s
        <4> QED BY <2>1, <2>2, <4>1, <4>2, KeptInto
      <3>2. t[1].w \notin SchemaWords
        BY <2>1 DEF SchemaWords
      <3> QED BY <2>1, <3>1, <3>2 DEF OneRefused
    <2>3. kind \in Kept \/ kind \in Changing
      BY OtherKindsAre DEF Changing
    <2> QED BY <1>2, <2>1, <2>2, <2>3 DEF StatementRefused
  <1> QED BY <1>3, <1>4

---------------------------------------------------------------------------
(* A batch, statement by statement.                                         *)

\* Where each statement ends: before the first and behind the last, and at each ";".
Parted(t, n, e) ==
    /\ e[0] = 0 /\ e[n] = Len(t) + 1 /\ \A k \in 0..n : e[k] \in Int
    /\ \A k \in 1..n : e[k - 1] < e[k]
    /\ \A i \in DOMAIN t : t[i].w = Semicolon <=> \E k \in 1..n - 1 : i = e[k]
    /\ \A k \in 1..n - 1 : e[k] \in DOMAIN t

\* Ends that grow from one to the next grow altogether.
LEMMA Increasing ==
    ASSUME NEW n \in Nat, NEW e, \A k \in 0..n : e[k] \in Int, \A k \in 1..n : e[k - 1] < e[k]
    PROVE  \A i, j \in 0..n : i < j => e[i] < e[j]
  <1> SUFFICES ASSUME NEW i \in 0..n PROVE \A j \in 0..n : i < j => e[i] < e[j]
    OBVIOUS
  <1> DEFINE S == {j \in 0..n : i < j => e[i] < e[j]}
  <1>1. 0 \in S
    OBVIOUS
  <1>2. ASSUME NEW k \in 1..n, k - 1 \in S PROVE k \in S
    <2>1. k \in 0..n /\ k - 1 \in 0..n /\ e[k] \in Int /\ e[k - 1] \in Int /\ e[i] \in Int /\ e[k - 1] < e[k]
      OBVIOUS
    <2>2. CASE i < k - 1
      BY <1>2, <2>1, <2>2
    <2>3. CASE i = k - 1
      BY <2>1, <2>3
    <2>4. CASE i > k - 1
      BY <2>1, <2>4
    <2> QED BY <2>1, <2>2, <2>3, <2>4
  <1> HIDE DEF S
  <1>3. 0..n \subseteq S
    BY <1>1, <1>2, ScanUp
  <1> QED BY <1>3 DEF S

\* A batch is refused exactly when a statement of it is.
LEMMA PartVerdict ==
    ASSUME NEW t, Len(t) \in Nat, DOMAIN t = 1..Len(t), NEW n \in Nat, n > 0, NEW e, Parted(t, n, e), NEW engine
    PROVE  SchemaRefused(t, engine) <=> \E k \in 1..n : StatementRefused(SubSeq(t, e[k - 1] + 1, e[k] - 1), engine)
  <1> DEFINE ends == {0, Len(t) + 1} \cup {i \in DOMAIN t : t[i].w = Semicolon}
             Next2(a, b) == a < b /\ \A c \in ends : c <= a \/ b <= c
             In(a, b) == StatementRefused(SubSeq(t, a + 1, b - 1), engine)
  <1>1. SchemaRefused(t, engine) <=> \E a, b \in ends : Next2(a, b) /\ In(a, b)
    BY DEF SchemaRefused
  <1>2. /\ e[0] = 0 /\ e[n] = Len(t) + 1 /\ (\A k \in 0..n : e[k] \in Int)
        /\ \A k \in 1..n : e[k - 1] < e[k]
    BY DEF Parted
  <1>3. \A i, j \in 0..n : i < j => e[i] < e[j]
    BY <1>2, Increasing
  <1>4. ASSUME NEW c \in ends PROVE \E k \in 0..n : c = e[k]
    <2>1. CASE c = 0
      BY <1>2, <2>1
    <2>2. CASE c = Len(t) + 1
      BY <1>2, <2>2
    <2>3. CASE c \in DOMAIN t /\ t[c].w = Semicolon
      <3>1. \E k \in 1..n - 1 : c = e[k]
        BY <2>3 DEF Parted
      <3> QED BY <3>1
    <2> QED BY <1>4, <2>1, <2>2, <2>3
  <1>5. ASSUME NEW k \in 0..n PROVE e[k] \in ends
    <2>1. CASE k \in 1..n - 1
      BY <2>1 DEF Parted
    <2>2. CASE k = 0 \/ k = n
      BY <1>2, <2>2
    <2>3. k \in 1..n - 1 \/ k = 0 \/ k = n
      OBVIOUS
    <2> QED BY <2>1, <2>2, <2>3
  <1> HIDE DEF ends, In
  <1>6. ASSUME NEW a \in ends, NEW b \in ends, Next2(a, b) PROVE \E k \in 1..n : a = e[k - 1] /\ b = e[k]
    <2>1. PICK i \in 0..n : a = e[i]
      BY <1>4
    <2>2. PICK j \in 0..n : b = e[j]
      BY <1>4
    <2>3. i < j
      <3>1. CASE i = j
        BY <1>2, <1>6, <2>1, <2>2, <3>1
      <3>2. CASE j < i
        BY <1>2, <1>3, <1>6, <2>1, <2>2, <3>2
      <3> QED BY <3>1, <3>2
    <2>4. j = i + 1
      <3> SUFFICES ASSUME j # i + 1 PROVE FALSE
        OBVIOUS
      <3>1. i + 1 \in 0..n /\ i < i + 1 /\ i + 1 < j
        BY <2>3
      <3>2. e[i] < e[i + 1] /\ e[i + 1] < e[j] /\ e[i] \in Int /\ e[i + 1] \in Int /\ e[j] \in Int
        BY <1>2, <1>3, <3>1
      <3>3. e[i + 1] \in ends
        BY <1>5, <3>1
      <3>4. e[i + 1] <= a \/ b <= e[i + 1]
        BY <1>6, <3>3
      <3> QED BY <2>1, <2>2, <3>2, <3>4
    <2>5. j \in 1..n /\ j - 1 = i
      BY <2>4
    <2> QED BY <2>1, <2>2, <2>5
  <1>7. ASSUME NEW k \in 1..n PROVE e[k - 1] \in ends /\ e[k] \in ends /\ Next2(e[k - 1], e[k])
    <2>1. k - 1 \in 0..n /\ k \in 0..n
      OBVIOUS
    <2>2. ASSUME NEW c \in ends PROVE c <= e[k - 1] \/ e[k] <= c
      <3>1. PICK m \in 0..n : c = e[m]
        BY <1>4
      <3>2. m < k - 1 \/ m = k - 1 \/ m = k \/ k < m
        OBVIOUS
      <3> QED BY <1>2, <1>3, <2>1, <3>1, <3>2
    <2>3. e[k - 1] < e[k]
      BY <1>2
    <2> QED BY <1>5, <2>1, <2>2, <2>3
  <1> HIDE DEF Next2
  <1>8. (\E a, b \in ends : Next2(a, b) /\ In(a, b)) <=> \E k \in 1..n : In(e[k - 1], e[k])
    <2>1. ASSUME NEW a \in ends, NEW b \in ends, Next2(a, b), In(a, b) PROVE \E k \in 1..n : In(e[k - 1], e[k])
      BY <1>6, <2>1
    <2>2. ASSUME NEW k \in 1..n, In(e[k - 1], e[k]) PROVE \E a, b \in ends : Next2(a, b) /\ In(a, b)
      BY <1>7, <2>2
    <2> QED BY <2>1, <2>2
  <1> QED BY <1>1, <1>8 DEF In

\* One that nothing parts is one statement.
LEMMA WholeVerdict ==
    ASSUME NEW t \in Seq(AToken), \A i \in 1..Len(t) : t[i].w # Semicolon, NEW engine
    PROVE  SchemaRefused(t, engine) <=> StatementRefused(t, engine)
  <1>1. Len(t) \in Nat /\ DOMAIN t = 1..Len(t)
    OBVIOUS
  <1> DEFINE e == [k \in 0..1 |-> IF k = 0 THEN 0 ELSE Len(t) + 1]
  <1>2. e[0] = 0 /\ e[1] = Len(t) + 1
    OBVIOUS
  <1> HIDE DEF e
  <1>3. Parted(t, 1, e)
    <2>1. \A k \in 0..1 : k = 0 \/ k = 1
      OBVIOUS
    <2>2. \A k \in 1..1 : k = 1 /\ k - 1 = 0
      OBVIOUS
    <2>3. 1..1 - 1 = {}
      OBVIOUS
    <2> QED BY <1>1, <1>2, <2>1, <2>2, <2>3 DEF Parted
  <1>4. SchemaRefused(t, engine) <=> \E k \in 1..1 : StatementRefused(SubSeq(t, e[k - 1] + 1, e[k] - 1), engine)
    BY <1>1, <1>3, PartVerdict
  <1>5. SubSeq(t, e[1 - 1] + 1, e[1] - 1) = t
    <2>1. 1 - 1 = 0 /\ e[0] + 1 = 1 /\ e[1] - 1 = Len(t)
      BY <1>1, <1>2
    <2>2. SubSeq(t, 1, Len(t)) = t
      OBVIOUS
    <2> QED BY <2>1, <2>2
  <1>6. \A k \in 1..1 : k = 1
    OBVIOUS
  <1> DEFINE In(k) == StatementRefused(SubSeq(t, e[k - 1] + 1, e[k] - 1), engine)
  <1>7. (\E k \in 1..1 : In(k)) <=> In(1)
    <2> HIDE DEF In
    <2>1. 1 \in 1..1
      OBVIOUS
    <2> QED BY <1>6, <2>1
  <1> QED BY <1>4, <1>5, <1>7

\* The words of the statements part none of them.
LEMMA TextWhole == ASSUME NEW t, Only(t, StatementWords) PROVE \A i \in 1..Len(t) : t[i].w # Semicolon
  BY SemicolonApart DEF Only

\* A statement, written down.
IsWritten(t) == t \in Seq(AToken) /\ Len(t) \in Nat /\ Len(t) > 0 /\ Only(t, StatementWords)

\* A statement is what it says, or an EXPLAIN of it.
LEMMA WrittenText ==
    ASSUME NEW s, s.kind \in TsqlKinds \cup OtherKinds, s.explain \in BOOLEAN
    PROVE  /\ IsWritten(Written(s))
           /\ Written(s) = Text(s.kind) \/ Written(s) = Words(<<"EXPLAIN", "ANALYZE">>, 0) \o Text(s.kind)
           /\ s.explain = FALSE => Written(s) = Text(s.kind)
  <1> DEFINE x == Text(s.kind)
             a == Words(<<"EXPLAIN", "ANALYZE">>, 0)
             t == Written(s)
  <1>1. x \in Seq(AToken) /\ Len(x) \in Nat /\ Len(x) >= 2 /\ Only(x, StatementWords) /\ x[1].w \in FirstWords
    BY KindSound DEF Sound
  <1>2. t = (IF s.explain THEN a ELSE <<>>) \o x
    BY DEF Written, Text
  <1> HIDE DEF x, t
  <1>3. CASE s.explain = FALSE
    <2>1. t = <<>> \o x
      BY <1>2, <1>3
    <2>2. t = x
      BY <1>1, <2>1
    <2>3. Len(x) > 0
      BY <1>1
    <2> QED BY <1>1, <2>2, <2>3 DEF IsWritten, x, t
  <1>4. CASE s.explain = TRUE
    <2>1. t = a \o x
      BY <1>2, <1>4
    <2> HIDE DEF a
    <2>2. a = Words(<<"EXPLAIN", "ANALYZE">>, 0) /\ Len(x) > 0
      BY <1>1 DEF a
    <2>3. /\ t \in Seq(AToken) /\ Len(t) = 2 + Len(x) /\ t[1].w = "EXPLAIN" /\ t[2].w = "ANALYZE"
          /\ Stands(t, 2, x)
      BY <1>1, <2>1, <2>2, ExplainedText
    <2>4. Only(t, StatementWords)
      <3>1. \A j \in 1..Len(x) : t[2 + j] = x[j]
        BY <2>3 DEF Stands
      <3>2. "EXPLAIN" \in StatementWords /\ "ANALYZE" \in StatementWords
        BY DEF StatementWords
      <3> SUFFICES ASSUME NEW j \in 1..Len(t) PROVE t[j].w \in StatementWords
        BY DEF Only
      <3>3. j = 1 \/ j = 2 \/ (j - 2 \in 1..Len(x) /\ 2 + (j - 2) = j)
        BY <1>1, <2>3
      <3> QED BY <1>1, <2>3, <3>1, <3>2, <3>3 DEF Only
    <2>5. Len(t) \in Nat /\ Len(t) > 0
      BY <1>1, <2>3
    <2>6. IsWritten(t)
      BY <2>3, <2>4, <2>5 DEF IsWritten
    <2> QED BY <1>4, <2>1, <2>2, <2>6 DEF x, t
  <1> QED BY <1>3, <1>4

\* The statements of a batch, apart and in a row.
Piece(ss, k) == IF k > 1 THEN Words(<<Semicolon>>, 0) \o Written(ss[k]) ELSE Written(ss[k])
Apart(ss) == [k \in 1..Len(ss) |-> Piece(ss, k)]
InARow(ss) == [k \in 1..Len(ss) |-> Written(ss[k])]

\* A batch is its statements apart, or in a row.
LEMMA BatchText ==
    ASSUME NEW ss, DOMAIN ss = 1..Len(ss), NEW separated
    PROVE  /\ separated => Batch(ss, separated) = FlattenSeq(Apart(ss))
           /\ ~separated => Batch(ss, separated) = FlattenSeq(InARow(ss))
  <1>1. ASSUME separated PROVE Batch(ss, separated) = FlattenSeq(Apart(ss))
    BY <1>1 DEF Batch, Apart, Piece
  <1>2. ASSUME ~separated PROVE Batch(ss, separated) = FlattenSeq(InARow(ss))
    BY <1>2 DEF Batch, InARow
  <1> QED BY <1>1, <1>2

\* One without statements changes nothing.
LEMMA EmptyKept == ASSUME NEW engine PROVE ~SchemaRefused(<<>>, engine)
  <1> DEFINE t == <<>>
  <1>1. t \in Seq(AToken) /\ Len(t) = 0
    OBVIOUS
  <1>2. W(t, 1) # "EXPLAIN"
    BY DEF W
  <1>3. ~StatementRefused(t, engine)
    BY <1>2, NotExplained, NothingPasses DEF StatementRefused
  <1> HIDE DEF t
  <1>4. \A i \in 1..Len(t) : t[i].w # Semicolon
    BY <1>1
  <1>5. ~SchemaRefused(t, engine)
    BY <1>1, <1>3, <1>4, WholeVerdict
  <1> QED BY <1>5 DEF t

\* A text is cut out of another where it stands.
LEMMA StandsCut ==
    ASSUME NEW t \in Seq(AToken), NEW s \in Seq(AToken), NEW b, Stands(t, b, s)
    PROVE  SubSeq(t, b + 1, b + Len(s)) = s
  <1>1. b \in Nat /\ Len(s) \in Nat /\ Len(t) \in Nat /\ b + Len(s) <= Len(t)
          /\ \A j \in 1..Len(s) : t[b + j] = s[j]
    BY DEF Stands
  <1>2. SubSeq(t, b + 1, b + Len(s)) = [j \in 1..Len(s) |-> t[b + j]]
    <2>1. SubSeq(t, b + 1, b + Len(s)) = [j \in 1..(b + Len(s)) - (b + 1) + 1 |-> t[(b + 1) + j - 1]]
      BY <1>1
    <2>2. (b + Len(s)) - (b + 1) + 1 = Len(s) /\ \A j \in 1..Len(s) : (b + 1) + j - 1 = b + j
      BY <1>1
    <2> QED BY <2>1, <2>2
  <1>3. s = [j \in 1..Len(s) |-> s[j]]
    OBVIOUS
  <1> QED BY <1>1, <1>2, <1>3

\* A statement behind its ";".
LEMMA PieceBehind ==
    ASSUME NEW w, IsWritten(w), NEW a, a = Words(<<Semicolon>>, 0), NEW p, p = a \o w
    PROVE  p \in Seq(AToken) /\ Len(p) = 1 + Len(w) /\ p[1].w = Semicolon /\ Stands(p, 1, w)
  <1>1. a \in Seq(AToken) /\ Len(a) = 1 /\ a[1] = Tok(Semicolon, 0)
    <2>1. Semicolon \in AWord /\ 0 \in Nat
      BY WordsHas
    <2> QED BY <2>1, Words1
  <1>3. /\ p \in Seq(AToken) /\ Len(p) = Len(a) + Len(w) /\ (\A j \in 1..Len(a) : p[j] = a[j])
        /\ \A j \in 1..Len(w) : p[Len(a) + j] = w[j]
    <2>1. a \in Seq(AToken) /\ w \in Seq(AToken) /\ p = a \o w
      BY <1>1 DEF IsWritten
    <2> QED BY <2>1, TokensJoined
  <1>4. 1 \in 1..Len(a)
    BY <1>1
  <1>5. p[1].w = Semicolon
    BY <1>1, <1>3, <1>4 DEF Tok
  <1>6. Stands(p, 1, w)
    <2>1. Len(w) \in Nat
      BY DEF IsWritten
    <2>2. Len(p) = 1 + Len(w) /\ \A j \in 1..Len(w) : p[1 + j] = w[j]
      BY <1>1, <1>3
    <2>3. 1 \in Nat /\ 1 + Len(w) <= Len(p)
      BY <2>1, <2>2
    <2> QED BY <2>2, <2>3 DEF Stands
  <1> QED BY <1>1, <1>3, <1>5, <1>6

\* Written apart, a batch is refused exactly when a statement of it is.
LEMMA ApartVerdict ==
    ASSUME NEW ss, Len(ss) \in Nat, Len(ss) > 0, \A k \in 1..Len(ss) : IsWritten(Written(ss[k])), NEW engine
    PROVE  SchemaRefused(FlattenSeq(Apart(ss)), engine)
             <=> \E k \in 1..Len(ss) : StatementRefused(Written(ss[k]), engine)
  <1> DEFINE n == Len(ss)
             p == Apart(ss)
             t == FlattenSeq(p)
             w(k) == Written(ss[k])
  <1>1. n \in Nat /\ n > 0 /\ \A k \in 1..n : IsWritten(w(k))
    OBVIOUS
  <1>2. Len(p) = n /\ (\A k \in 1..n : p[k] = Piece(ss, k)) /\ DOMAIN p = 1..n
    BY <1>1 DEF Apart
  <1>3. \A k \in 1..n : w(k) \in Seq(AToken) /\ Len(w(k)) \in Nat /\ Len(w(k)) > 0
          /\ \A j \in 1..Len(w(k)) : w(k)[j].w # Semicolon
    BY <1>1, TextWhole DEF IsWritten
  <1>4. p[1] = w(1)
    <2>1. 1 \in 1..n
      BY <1>1
    <2> QED BY <1>2, <2>1 DEF Piece
  <1>5. \A k \in 1..n : k > 1 => p[k] \in Seq(AToken) /\ Len(p[k]) = 1 + Len(w(k)) /\ p[k][1].w = Semicolon
          /\ Stands(p[k], 1, w(k))
    <2> SUFFICES ASSUME NEW k \in 1..n, k > 1
                 PROVE  /\ p[k] \in Seq(AToken) /\ Len(p[k]) = 1 + Len(w(k)) /\ p[k][1].w = Semicolon
                        /\ Stands(p[k], 1, w(k))
      OBVIOUS
    <2>1. IsWritten(w(k)) /\ p[k] = Words(<<Semicolon>>, 0) \o w(k)
      BY <1>1, <1>2 DEF Piece
    <2> DEFINE a == Words(<<Semicolon>>, 0)
    <2>2. a = Words(<<Semicolon>>, 0) /\ p[k] = a \o w(k)
      BY <2>1
    <2> HIDE DEF p, w, a
    <2> QED BY <2>1, <2>2, PieceBehind
  <1> HIDE DEF n, p, t, w
  <1>6. \A k \in 1..n : p[k] \in Seq(AToken) /\ Len(p[k]) \in Nat /\ Len(p[k]) > 0
    <2> SUFFICES ASSUME NEW k \in 1..n PROVE p[k] \in Seq(AToken) /\ Len(p[k]) \in Nat /\ Len(p[k]) > 0
      OBVIOUS
    <2>1. CASE k = 1
      BY <1>3, <1>4, <2>1
    <2>2. CASE k > 1
      BY <1>3, <1>5, <2>2
    <2> QED BY <2>1, <2>2
  <1>7. p \in Seq(Seq(AToken))
    BY <1>2, <1>6 DEF p, Apart, n
  <1>8. t \in Seq(AToken) /\ \E o : Laid(p, t, o)
    BY <1>7, Flattens DEF t
  <1>9. PICK o : Laid(p, t, o)
    BY <1>8
  <1>22. ASSUME NEW i \in 1..Len(t) PROVE \E k \in 1..Len(p) : \E j \in 1..Len(p[k]) : i = o[k - 1] + j
    <2>1. Len(p) \in Nat
      BY <1>1, <1>2
    <2>2. \A k \in 1..Len(p) : Len(p[k]) \in Nat
      BY <1>2, <1>6
    <2>3. PICK k \in 1..Len(p) : \E j \in 1..Len(p[k]) : i = o[k - 1] + j
      BY <1>9, <2>1, <2>2, LaidSomewhere, SMTT(60)
    <2> QED BY <2>3
  <1>10. Len(t) \in Nat /\ DOMAIN t = 1..Len(t)
    BY <1>8
  <1>11. /\ o \in [0..n -> Nat] /\ o[0] = 0 /\ Len(t) = o[n]
         /\ \A k \in 1..n : o[k] = o[k - 1] + Len(p[k]) /\ o[k] <= Len(t)
              /\ \A j \in 1..Len(p[k]) : t[o[k - 1] + j] = p[k][j]
    BY <1>2, <1>9 DEF Laid
  <1>12. \A k \in 0..n : o[k] \in Nat
    BY <1>11
  <1> DEFINE e == [k \in 0..n |-> IF k = 0 THEN 0 ELSE o[k] + 1]
  <1>13. e[0] = 0 /\ \A k \in 1..n : e[k] = o[k] + 1
    BY <1>1
  <1> HIDE DEF e
  <1>14. \A k \in 1..n : k > 1 => e[k - 1] = o[k - 1] + 1 /\ k - 1 \in 1..n /\ k - 1 \in 0..n
    <2> SUFFICES ASSUME NEW k \in 1..n, k > 1 PROVE e[k - 1] = o[k - 1] + 1 /\ k - 1 \in 1..n /\ k - 1 \in 0..n
      OBVIOUS
    <2>1. k - 1 \in 1..n /\ k - 1 \in 0..n
      BY <1>1
    <2> QED BY <1>13, <2>1
  <1>15. \A k \in 1..n : Stands(t, e[k - 1], w(k)) /\ e[k] - 1 = e[k - 1] + Len(w(k)) /\ e[k - 1] < e[k]
    <2> SUFFICES ASSUME NEW k \in 1..n PROVE Stands(t, e[k - 1], w(k)) /\ e[k] - 1 = e[k - 1] + Len(w(k))
      /\ e[k - 1] < e[k]
      OBVIOUS
    <2>1. e[k] = o[k] + 1 /\ o[k] = o[k - 1] + Len(p[k]) /\ o[k] <= Len(t)
      BY <1>11, <1>13
    <2>2. k - 1 \in 0..n /\ o[k - 1] \in Nat
      <3>1. k - 1 \in 0..n
        BY <1>1
      <3> QED BY <1>12, <3>1
    <2>3. Stands(t, o[k - 1], p[k])
      BY <1>11, <2>1, <2>2 DEF Stands
    <2>4. CASE k = 1
      <3>1. o[k - 1] = 0 /\ e[k - 1] = 0 /\ p[k] = w(k)
        BY <1>4, <1>11, <1>13, <2>4
      <3> QED BY <1>3, <2>1, <2>3, <2>4, <3>1
    <2>5. CASE k > 1
      <3>1. /\ e[k - 1] = o[k - 1] + 1 /\ Len(p[k]) = 1 + Len(w(k)) /\ Stands(p[k], 1, w(k))
            /\ Len(w(k)) \in Nat /\ Len(w(k)) > 0
        BY <1>3, <1>5, <1>14, <2>5
      <3>2. Stands(t, o[k - 1] + 1, w(k))
        BY <1>6, <1>10, <2>3, <3>1, StandsIn
      <3>3. e[k] - 1 = e[k - 1] + Len(w(k)) /\ e[k - 1] < e[k]
        <4>1. e[k] = o[k] + 1 /\ o[k] = o[k - 1] + (1 + Len(w(k))) /\ e[k - 1] = o[k - 1] + 1
          BY <2>1, <3>1
        <4>2. o[k - 1] \in Nat /\ Len(w(k)) \in Nat
          BY <2>2, <3>1
        <4>3. e[k] = o[k - 1] + (1 + Len(w(k))) + 1 /\ e[k - 1] = o[k - 1] + 1
          BY <4>1
        <4>4. e[k] - 1 = e[k - 1] + Len(w(k))
          BY <4>2, <4>3, SMTT(60)
        <4>5. e[k - 1] < e[k]
          BY <4>2, <4>3, SMTT(60)
        <4> QED BY <4>4, <4>5
      <3> QED BY <3>1, <3>2, <3>3
    <2> QED BY <2>4, <2>5
  <1>16. \A k \in 1..n : SubSeq(t, e[k - 1] + 1, e[k] - 1) = w(k)
    <2> SUFFICES ASSUME NEW k \in 1..n PROVE SubSeq(t, e[k - 1] + 1, e[k] - 1) = w(k)
      OBVIOUS
    <2>1. w(k) \in Seq(AToken) /\ Stands(t, e[k - 1], w(k)) /\ e[k] - 1 = e[k - 1] + Len(w(k))
      BY <1>3, <1>15
    <2>2. SubSeq(t, e[k - 1] + 1, e[k - 1] + Len(w(k))) = w(k)
      BY <1>8, <2>1, StandsCut
    <2> QED BY <2>1, <2>2
  <1>17. \A k \in 1..n - 1 : e[k] \in DOMAIN t /\ t[e[k]].w = Semicolon
    <2> SUFFICES ASSUME NEW k \in 1..n - 1 PROVE e[k] \in DOMAIN t /\ t[e[k]].w = Semicolon
      OBVIOUS
    <2>1. k \in 1..n /\ k + 1 \in 1..n /\ k + 1 > 1 /\ (k + 1) - 1 = k /\ k \in 0..n
      BY <1>1
    <2>2. e[k] = o[k] + 1 /\ o[k] \in Nat
      BY <1>12, <1>13, <2>1
    <2>3. /\ o[k + 1] = o[k] + Len(p[k + 1]) /\ o[k + 1] <= Len(t)
               /\ \A j \in 1..Len(p[k + 1]) : t[o[k] + j] = p[k + 1][j]
      BY <1>11, <2>1
    <2>4. p[k + 1][1].w = Semicolon /\ Len(p[k + 1]) \in Nat /\ Len(p[k + 1]) > 0
      BY <1>5, <1>6, <2>1
    <2>5. 1 \in 1..Len(p[k + 1])
      BY <2>4
    <2>6. t[o[k] + 1].w = Semicolon
      BY <2>3, <2>4, <2>5
    <2>7. o[k] + 1 \in 1..Len(t)
      BY <1>10, <2>2, <2>3, <2>4
    <2> QED BY <1>10, <2>2, <2>6, <2>7
  <1>18. ASSUME NEW i \in DOMAIN t, t[i].w = Semicolon PROVE \E k \in 1..n - 1 : i = e[k]
    <2>1. PICK k \in 1..Len(p) : \E j \in 1..Len(p[k]) : i = o[k - 1] + j
      BY <1>10, <1>22
    <2>2. PICK j \in 1..Len(p[k]) : i = o[k - 1] + j
      BY <2>1
    <2>3. k \in 1..n /\ p[k][j].w = Semicolon
      BY <1>2, <1>11, <1>18, <2>2
    <2>4. k > 1
      <3> SUFFICES ASSUME k = 1 PROVE FALSE
        BY <1>1, <2>3
      <3> QED BY <1>3, <1>4, <2>2, <2>3
    <2>5. Len(p[k]) = 1 + Len(w(k)) /\ Stands(p[k], 1, w(k)) /\ Len(w(k)) \in Nat
      BY <1>3, <1>5, <2>3, <2>4
    <2>6. j = 1
      <3> SUFFICES ASSUME j # 1 PROVE FALSE
        OBVIOUS
      <3>1. j - 1 \in 1..Len(w(k)) /\ 1 + (j - 1) = j
        BY <2>5
      <3>2. p[k][1 + (j - 1)] = w(k)[j - 1]
        BY <2>5, <3>1 DEF Stands
      <3> QED BY <1>3, <2>3, <3>1, <3>2
    <2>7. k - 1 \in 1..n - 1
      BY <1>1, <2>3, <2>4
    <2>8. i = e[k - 1]
      BY <1>14, <2>2, <2>3, <2>4, <2>6
    <2> QED BY <2>7, <2>8
  <1>19. Parted(t, n, e)
    <2>1. e[n] = Len(t) + 1
      <3>1. n \in 1..n
        BY <1>1
      <3> QED BY <1>11, <1>13, <3>1
    <2>2. \A k \in 0..n : e[k] \in Int
      <3> SUFFICES ASSUME NEW k \in 0..n PROVE e[k] \in Int
        OBVIOUS
      <3>1. k = 0 \/ k \in 1..n
        BY <1>1
      <3> QED BY <1>12, <1>13, <3>1
    <2> QED BY <1>13, <1>15, <1>17, <1>18, <2>1, <2>2 DEF Parted
  <1>20. SchemaRefused(t, engine) <=> \E k \in 1..n : StatementRefused(SubSeq(t, e[k - 1] + 1, e[k] - 1), engine)
    BY <1>1, <1>10, <1>19, PartVerdict
  <1>21. SchemaRefused(t, engine) <=> \E k \in 1..n : StatementRefused(w(k), engine)
    BY <1>16, <1>20
  <1> QED BY <1>21 DEF t, p, n, w

\* Written in a row, a batch for SQL Server is refused exactly when a statement of it changes
\* the schema.
LEMMA RowVerdict ==
    ASSUME NEW ks \in Seq(TsqlKinds), Len(ks) > 0
    PROVE  SchemaRefused(FlattenSeq(Written1(ks)), "tsql") <=> \E k \in 1..Len(ks) : ks[k] \in Changing
  <1> DEFINE n == Len(ks)
             p == Written1(ks)
             t == FlattenSeq(p)
  <1>1. n \in Nat /\ n > 0 /\ \A k \in 1..n : ks[k] \in TsqlKinds
    OBVIOUS
  <1>2. Len(p) = n /\ (\A k \in 1..n : p[k] = Text(ks[k])) /\ DOMAIN p = 1..n
    BY <1>1 DEF Written1
  <1>3. \A k \in 1..n : p[k] \in Seq(AToken) /\ Len(p[k]) \in Nat /\ Only(p[k], StatementWords)
    BY <1>1, <1>2, KindSound DEF Sound
  <1> HIDE DEF n, p, t
  <1>4. p \in Seq(Seq(AToken))
    BY <1>2, <1>3 DEF p, Written1, n
  <1>5. t \in Seq(AToken) /\ \E o : Laid(p, t, o)
    BY <1>4, Flattens DEF t
  <1>6. PICK o : Laid(p, t, o)
    BY <1>5
  <1>7. ASSUME NEW i \in 1..Len(t) PROVE t[i].w # Semicolon
    <2>1. Len(p) \in Nat
      BY <1>1, <1>2
    <2>2. \A k \in 1..Len(p) : Len(p[k]) \in Nat
      BY <1>2, <1>3
    <2>3. PICK k \in 1..Len(p) : \E j \in 1..Len(p[k]) : i = o[k - 1] + j
      BY <1>6, <2>1, <2>2, LaidSomewhere, SMTT(60)
    <2>4. PICK j \in 1..Len(p[k]) : i = o[k - 1] + j
      BY <2>3
    <2>5. t[o[k - 1] + j] = p[k][j]
      BY <1>6 DEF Laid
    <2>6. p[k][j].w # Semicolon
      BY <1>2, <1>3, TextWhole
    <2> QED BY <2>4, <2>5, <2>6
  <1>8. SchemaRefused(t, "tsql") <=> StatementRefused(t, "tsql")
    BY <1>5, <1>7, WholeVerdict
  <1>9. StatementRefused(t, "tsql") <=> \E k \in 1..Len(ks) : ks[k] \in Changing
    <2>1. Laid(Written1(ks), t, o)
      BY <1>6 DEF p
    <2> QED BY <1>5, <2>1, TsqlVerdict
  <1> QED BY <1>8, <1>9 DEF t, p

\* The same of one statement.
LEMMA AloneVerdict ==
    ASSUME NEW kind \in TsqlKinds
    PROVE  StatementRefused(Text(kind), "tsql") <=> kind \in Changing
  <1> DEFINE t == Text(kind)
             ks == <<kind>>
             o == [k \in 0..1 |-> IF k = 0 THEN 0 ELSE Len(t)]
  <1>1. ks \in Seq(TsqlKinds) /\ Len(ks) = 1 /\ ks[1] = kind
    OBVIOUS
  <1>2. t \in Seq(AToken) /\ Len(t) \in Nat
    BY KindSound DEF Sound
  <1>3. Len(Written1(ks)) = 1 /\ Written1(ks)[1] = t
    BY <1>1 DEF Written1
  <1> HIDE DEF t, ks
  <1>4. o[0] = 0 /\ o[1] = Len(t) /\ o \in [0..1 -> Nat]
    BY <1>2
  <1> HIDE DEF o
  <1>5. Laid(Written1(ks), t, o)
    <2>1. \A k \in 1..1 : k = 1 /\ k - 1 = 0
      OBVIOUS
    <2>2. \A j \in 1..Len(t) : 0 + j = j
      BY <1>2
    <2> QED BY <1>2, <1>3, <1>4, <2>1, <2>2 DEF Laid
  <1>6. StatementRefused(t, "tsql") <=> \E k \in 1..Len(ks) : ks[k] \in Changing
    BY <1>1, <1>2, <1>5, TsqlVerdict
  <1>7. \A k \in 1..1 : k = 1
    OBVIOUS
  <1> QED BY <1>1, <1>6, <1>7 DEF t

\* Whatever a batch says, in whatever order and however it is put together, the guard of an
\* external_schema datasource refuses it exactly when a statement of it changes the schema:
\* SchemaKept of SqlPolicy, for batches of any length.
LEMMA BatchVerdict ==
    ASSUME NEW b \in Batches
    PROVE  (\E k \in DOMAIN b.statements : b.statements[k].kind \in Changing)
               <=> SchemaRefused(Batch(b.statements, b.separated), b.engine)
  <1> DEFINE ss == b.statements
             n == Len(ss)
             changes == \E k \in 1..n : ss[k].kind \in Changing
  <1>1. /\ b.engine = "tsql" => ss \in Seq([kind : TsqlKinds, explain : {FALSE}])
        /\ b.engine # "tsql" => b.separated /\ ss \in Seq([kind : OtherKinds, explain : BOOLEAN])
    BY BatchesAssumption
  <1>2. n \in Nat /\ DOMAIN ss = 1..n
    BY <1>1
  <1>3. \A k \in 1..n : /\ b.engine = "tsql" => ss[k].kind \in TsqlKinds /\ ss[k].explain = FALSE
                        /\ b.engine # "tsql" => ss[k].kind \in OtherKinds /\ ss[k].explain \in BOOLEAN
    <2>1. ASSUME b.engine = "tsql", NEW k \in 1..n PROVE ss[k].kind \in TsqlKinds /\ ss[k].explain = FALSE
      <3> DEFINE S == [kind : TsqlKinds, explain : {FALSE}]
      <3>1. ss \in Seq(S) /\ k \in 1..Len(ss)
        BY <1>1, <2>1
      <3> HIDE DEF S, ss
      <3>2. ss[k] \in S
        BY <3>1
      <3> QED BY <3>2 DEF S
    <2>2. ASSUME b.engine # "tsql", NEW k \in 1..n PROVE ss[k].kind \in OtherKinds /\ ss[k].explain \in BOOLEAN
      <3> DEFINE S == [kind : OtherKinds, explain : BOOLEAN]
      <3>1. ss \in Seq(S) /\ k \in 1..Len(ss)
        BY <1>1, <2>2
      <3> HIDE DEF S, ss
      <3>2. ss[k] \in S
        BY <3>1
      <3> QED BY <3>2 DEF S
    <2> QED BY <2>1, <2>2
  <1> HIDE DEF ss, n
  <1>4. \A k \in 1..n : /\ IsWritten(Written(ss[k]))
                        /\ Written(ss[k]) = Text(ss[k].kind) \/ Written(ss[k]) = Words(<<"EXPLAIN",
                             "ANALYZE">>, 0) \o Text(ss[k].kind)
                        /\ b.engine = "tsql" => Written(ss[k]) = Text(ss[k].kind)
    <2> SUFFICES ASSUME NEW k \in 1..n
                 PROVE  /\ IsWritten(Written(ss[k]))
                        /\ Written(ss[k]) = Text(ss[k].kind) \/ Written(ss[k]) = Words(<<"EXPLAIN",
                             "ANALYZE">>, 0) \o Text(ss[k].kind)
                        /\ b.engine = "tsql" => Written(ss[k]) = Text(ss[k].kind)
      OBVIOUS
    <2> DEFINE s == ss[k]
    <2>1. s.kind \in TsqlKinds \cup OtherKinds /\ s.explain \in BOOLEAN /\ (b.engine = "tsql" => s.explain = FALSE)
      BY <1>3
    <2> HIDE DEF s
    <2>2. /\ IsWritten(Written(s))
          /\ Written(s) = Text(s.kind) \/ Written(s) = Words(<<"EXPLAIN", "ANALYZE">>, 0) \o Text(s.kind)
          /\ s.explain = FALSE => Written(s) = Text(s.kind)
      BY <2>1, WrittenText
    <2> QED BY <2>1, <2>2 DEF s
  <1>5. \A k \in 1..n : StatementRefused(Written(ss[k]), b.engine) <=> ss[k].kind \in Changing
    <2> SUFFICES ASSUME NEW k \in 1..n PROVE StatementRefused(Written(ss[k]), b.engine) <=> ss[k].kind \in Changing
      OBVIOUS
    <2>1. CASE b.engine = "tsql"
      BY <1>3, <1>4, <2>1, AloneVerdict
    <2>2. CASE b.engine # "tsql"
      <3> DEFINE kind == ss[k].kind
                 t == Written(ss[k])
                 engine == b.engine
      <3>1. kind \in OtherKinds /\ engine # "tsql" /\ (t = Text(kind) \/ t = Words(<<"EXPLAIN", "ANALYZE">>,
              0) \o Text(kind))
        BY <1>3, <1>4, <2>2
      <3> HIDE DEF kind, t, engine
      <3>2. StatementRefused(t, engine) <=> kind \in Changing
        BY <3>1, OtherVerdict
      <3> QED BY <3>2 DEF kind, t, engine
    <2> QED BY <2>1, <2>2
  <1>6. changes <=> SchemaRefused(Batch(ss, b.separated), b.engine)
    <2>1. CASE n = 0
      <3>1. Batch(ss, b.separated) = <<>>
        <4>1. Apart(ss) = <<>> /\ InARow(ss) = <<>>
          BY <1>2, <2>1 DEF Apart, InARow, n
        <4>2. FlattenSeq(<<>>) = <<>>
          BY DEF FlattenSeq
        <4>3. DOMAIN ss = 1..Len(ss)
          BY <1>2 DEF n
        <4> QED BY <4>1, <4>2, <4>3, BatchText
      <3>2. ~changes
        BY <2>1
      <3> QED BY <3>1, <3>2, EmptyKept
    <2>2. CASE n > 0 /\ b.separated
      <3>1. Batch(ss, b.separated) = FlattenSeq(Apart(ss))
        BY <1>2, <2>2, BatchText DEF n
      <3>2. SchemaRefused(FlattenSeq(Apart(ss)), b.engine) <=> \E k \in 1..n : StatementRefused(Written(ss[k]),
              b.engine)
        BY <1>2, <1>4, <2>2, ApartVerdict DEF n
      <3> QED BY <1>5, <3>1, <3>2
    <2>3. CASE n > 0 /\ ~b.separated
      <3>1. b.engine = "tsql"
        BY <1>1, <2>3
      <3>2. Batch(ss, b.separated) = FlattenSeq(InARow(ss))
        BY <1>2, <2>3, BatchText DEF n
      <3> DEFINE ks == [k \in 1..n |-> ss[k].kind]
      <3>3. ks \in Seq(TsqlKinds) /\ Len(ks) = n /\ \A k \in 1..n : ks[k] = ss[k].kind
        BY <1>2, <1>3, <3>1
      <3> HIDE DEF ks
      <3>4. InARow(ss) = Written1(ks)
        BY <1>4, <3>1, <3>3 DEF InARow, Written1, n
      <3>5. SchemaRefused(FlattenSeq(Written1(ks)), "tsql") <=> \E k \in 1..Len(ks) : ks[k] \in Changing
        BY <2>3, <3>3, RowVerdict
      <3> QED BY <3>1, <3>2, <3>3, <3>4, <3>5
    <2> QED BY <1>2, <2>1, <2>2, <2>3
  <1> QED BY <1>2, <1>6 DEF ss

\* A batch of an external_schema datasource is refused exactly when a statement of it changes the
\* schema or runs what cannot be read: a guard may be asked about any of them.
THEOREM SchemaKeptHolds == PolicySpec => []SchemaKept
  <1>1. PolicyInit => SchemaKept
    BY BatchVerdict DEF PolicyInit, SchemaKept
  <1>2. SchemaKept /\ [PolicyNext]_<<queries, batches>> => SchemaKept'
    BY DEF PolicyNext, SchemaKept
  <1> QED BY <1>1, <1>2, PTL DEF PolicySpec

\* The two policies together, PoliciesHold of SqlPolicy: for every query of any list of common
\* table expressions and every batch of any length.
THEOREM PoliciesAreKept == PolicySpec => []PoliciesHold
  <1>1. ReadsOnly /\ SchemaKept => PoliciesHold
    BY DEF PoliciesHold
  <1> QED BY <1>1, ReadsOnlyHolds, SchemaKeptHolds, PTL
=============================================================================
