---------------------------- MODULE MigrateProofs ----------------------------
(***************************************************************************)
(* For any number of runs, migrations and statements, and any number of    *)
(* failures and crashes: on an engine that rolls DDL back, the table       *)
(* `migrations` and the schema agree.                                      *)
(*                                                                         *)
(* The unique name is the lock: of the transactions that have written the  *)
(* row of a migration only one can be open, and an up has found no row     *)
(* there.  So a COMMIT of an up adds its statements where they were not in *)
(* effect.  A COMMIT of a down takes them away where they were: the row    *)
(* was there when the down read it, and while a down runs nobody else      *)
(* commits.                                                                *)
(*                                                                         *)
(* Elsewhere every statement is for good at once: a migration and the      *)
(* table disagree only while a run is between the two, or where one ended  *)
(* there (TornInv).  And a down takes back the row dated last because      *)
(* nothing is dated ahead of a row that is there: ups that overlap work    *)
(* from one list, the clock only goes on, and a row is written later than  *)
(* all that is recorded (OrderInv).                                        *)
(***************************************************************************)
EXTENDS Migrate, TLAPS

\* Transactions are open only where there are any, and while a run works.
Transactions ==
    /\ ~rollsBack => open = {}
    /\ \A r \in open : pc[r] \in {"run", "record", "commit", "dead"}
    /\ \A r \in Runs :
          rollsBack /\ pc[r] \in {"run", "record", "commit"} => r \in open
    /\ \A r \in Runs : r \notin open => written[r] = 0
    /\ \A r \in open : pc[r] \in {"run", "record"} => written[r] = 0
    /\ \A r \in open : pc[r] = "commit" => written[r] # 0
    /\ \A r \in Runs :
          pc[r] \in {"check", "begin", "run", "record", "commit"} => at[r] \in Names
    /\ \A r \in open : at[r] \in Names
    /\ \A r \in Runs : pc[r] = "check" => cmd[r] = "up"
    /\ \A r \in Runs : pc[r] = "list" => cmd[r] = "down"

\* Whoever has written a row has it for himself; an up has found none.
Exclusive ==
    /\ \A r, o \in open :
          written[r] # 0 /\ written[o] # 0 /\ at[r] = at[o] => r = o
    /\ \A r \in open :
          written[r] # 0 /\ cmd[r] = "up" => at[r] \notin Recorded

\* A down works alone, on rows that are there.
DownAlone ==
    /\ \A r \in Runs : pc[r] = "new" => todo[r] = {}
    /\ \A r \in Running : cmd[r] = "down" =>
          /\ Running = {r}
          /\ todo[r] \subseteq Recorded
          /\ pc[r] \in {"begin", "run", "record", "commit"}
             => at[r] \notin todo[r]
          /\ rollsBack /\ pc[r] \in {"begin", "run", "record", "commit"}
             => at[r] \in Recorded

IInv ==
    /\ TypeOK
    /\ Transactions
    /\ Exclusive
    /\ DownAlone
    /\ BooksMatchSchema

-----------------------------------------------------------------------------
USE DEF Goto, Close, Ended, PCs, database, session, program

\* The ranges of the counters.
LEMMA Ranges ==
    /\ Names \subseteq 0 .. Last /\ Names \subseteq Nat /\ 0 \in 0 .. Last
    /\ 0 \in 0 .. Parts /\ \A n \in 0 .. Parts : n < Parts => n + 1 \in 0 .. Parts
    /\ 1 \in 1 .. MaxSteps /\ 0 \in 0 .. MaxFaults
BY LastAssumption, PartsAssumption, StepsAssumption, FaultsAssumption DEF Names

LEMMA FaultCounted ==
    ASSUME TypeOK, Fault \/ UNCHANGED faults
    PROVE  faults' \in 0 .. MaxFaults
BY FaultsAssumption DEF TypeOK, Fault

\* A run that goes on is still running, one that ends is not.
LEMMA Goes ==
    ASSUME TypeOK, NEW r \in Runs, r \in Running, NEW w \in PCs, Goto(r, w)
    PROVE  /\ w \notin Ended \cup {"new"} => Running' = Running
           /\ w \in Ended => Running' = Running \ {r}
BY DEF TypeOK, Running

\* What a step leaves alone, so that the invariant's parts about it remain.
LEMMA BooksKept ==
    ASSUME BooksMatchSchema, UNCHANGED <<rollsBack, effect, date>>
    PROVE  BooksMatchSchema'
BY DEF BooksMatchSchema, InEffect, Recorded

\* A row that is locked by nobody is written by nobody else.
LEMMA Unlocked ==
    ASSUME NEW r \in Runs, ~RowLocked(r, at[r])
    PROVE  \A o \in open : o # r /\ at[o] = at[r] => written[o] = 0
BY DEF RowLocked

LEMMA InitIInv == Init => IInv
<1> SUFFICES ASSUME Init PROVE IInv
  OBVIOUS
<1>1. TypeOK
  BY Ranges DEF Init, TypeOK
<1>2. Recorded = {} /\ Running = {}
  BY DEF Init, Recorded, Running
<1>3. Transactions /\ Exclusive /\ DownAlone
  BY <1>2 DEF Init, Transactions, Exclusive, DownAlone
<1>4. BooksMatchSchema
  BY <1>2 DEF Init, BooksMatchSchema, InEffect, Names, Part
<1> QED
  BY <1>1, <1>3, <1>4 DEF IInv

LEMMA StartKeeps ==
    ASSUME IInv, NEW r \in Runs,
           NEW command \in {"up", "down"}, NEW list \in SUBSET Names,
           NEW n \in 1 .. MaxSteps, Start(r, command, list, n)
    PROVE  IInv'
<1> USE DEF Start
<1>1. TypeOK'
  BY Ranges, FaultCounted DEF IInv, TypeOK
<1>2. Transactions'
  BY DEF IInv, TypeOK, Transactions, Names
<1>3. Exclusive'
  BY DEF IInv, TypeOK, Transactions, Exclusive, Recorded
<1>4. DownAlone'
  BY DEF IInv, TypeOK, DownAlone, Running, Recorded
<1>5. BooksMatchSchema'
  BY BooksKept DEF IInv
<1> QED
  BY <1>1, <1>2, <1>3, <1>4, <1>5 DEF IInv

LEMMA PrepareUpKeeps ==
    ASSUME IInv, NEW r \in Runs, PrepareUp(r)
    PROVE  IInv'
<1> USE DEF PrepareUp
<1>1. TypeOK'
  BY Ranges, FaultCounted DEF IInv, TypeOK
<1>2. Transactions'
  BY DEF IInv, TypeOK, Transactions, Names
<1>3. Exclusive'
  BY DEF IInv, TypeOK, Transactions, Exclusive, Recorded
<1>4. DownAlone'
  BY DEF IInv, TypeOK, Transactions, DownAlone, Running, Recorded
<1>5. BooksMatchSchema'
  BY BooksKept DEF IInv
<1> QED
  BY <1>1, <1>2, <1>3, <1>4, <1>5 DEF IInv

LEMMA PrepareDownKeeps ==
    ASSUME IInv, NEW r \in Runs, PrepareDown(r)
    PROVE  IInv'
<1> USE DEF PrepareDown
<1>1. TypeOK'
  BY Ranges, FaultCounted DEF IInv, TypeOK
<1>2. Transactions'
  BY DEF IInv, TypeOK, Transactions, Names
<1>3. Exclusive'
  BY DEF IInv, TypeOK, Transactions, Exclusive, Recorded
<1>4. DownAlone'
  BY DEF IInv, TypeOK, Transactions, DownAlone, Running, Recorded
<1>5. BooksMatchSchema'
  BY BooksKept DEF IInv
<1> QED
  BY <1>1, <1>2, <1>3, <1>4, <1>5 DEF IInv

LEMMA ListKeeps ==
    ASSUME IInv, NEW r \in Runs, List(r)
    PROVE  IInv'
<1> USE DEF List, Newest
<1>1. TypeOK'
  BY Ranges, FaultCounted DEF IInv, TypeOK
<1>2. Transactions'
  BY DEF IInv, TypeOK, Transactions, Names
<1>3. Exclusive'
  BY DEF IInv, TypeOK, Transactions, Exclusive, Recorded
<1>4. DownAlone'
  BY DEF IInv, TypeOK, Transactions, DownAlone, Running, Recorded
<1>5. BooksMatchSchema'
  BY BooksKept DEF IInv
<1> QED
  BY <1>1, <1>2, <1>3, <1>4, <1>5 DEF IInv

LEMMA NextUpKeeps ==
    ASSUME IInv, NEW r \in Runs, NextUp(r)
    PROVE  IInv'
<1> USE DEF NextUp, Behind
<1>1. TypeOK'
  BY Ranges, FaultCounted DEF IInv, TypeOK
<1>2. Transactions'
  BY DEF IInv, TypeOK, Transactions, Names
<1>3. Exclusive'
  BY DEF IInv, TypeOK, Transactions, Exclusive, Recorded
<1>4. DownAlone'
  BY DEF IInv, TypeOK, Transactions, DownAlone, Running, Recorded
<1>5. BooksMatchSchema'
  BY BooksKept DEF IInv
<1> QED
  BY <1>1, <1>2, <1>3, <1>4, <1>5 DEF IInv

LEMMA NextDownKeeps ==
    ASSUME IInv, NEW r \in Runs, NextDown(r)
    PROVE  IInv'
<1> USE DEF NextDown
<1>1. TypeOK'
  BY Ranges, FaultCounted DEF IInv, TypeOK
<1>2. Transactions'
  BY DEF IInv, TypeOK, Transactions, Names
<1>3. Exclusive'
  BY DEF IInv, TypeOK, Transactions, Exclusive, Recorded
<1>4. DownAlone'
  BY DEF IInv, TypeOK, Transactions, DownAlone, Running, Recorded
<1>5. BooksMatchSchema'
  BY BooksKept DEF IInv
<1> QED
  BY <1>1, <1>2, <1>3, <1>4, <1>5 DEF IInv

LEMMA FinishKeeps ==
    ASSUME IInv, NEW r \in Runs, Finish(r)
    PROVE  IInv'
<1> USE DEF Finish
<1>1. TypeOK'
  BY Ranges, FaultCounted DEF IInv, TypeOK
<1>2. Transactions'
  BY DEF IInv, TypeOK, Transactions, Names
<1>3. Exclusive'
  BY DEF IInv, TypeOK, Transactions, Exclusive, Recorded
<1>4. DownAlone'
  BY DEF IInv, TypeOK, Transactions, DownAlone, Running, Recorded
<1>5. BooksMatchSchema'
  BY BooksKept DEF IInv
<1> QED
  BY <1>1, <1>2, <1>3, <1>4, <1>5 DEF IInv

LEMMA CheckKeeps ==
    ASSUME IInv, NEW r \in Runs, Check(r)
    PROVE  IInv'
<1> USE DEF Check
<1>1. TypeOK'
  BY Ranges, FaultCounted DEF IInv, TypeOK
<1>2. Transactions'
  BY DEF IInv, TypeOK, Transactions, Names
<1>3. Exclusive'
  BY DEF IInv, TypeOK, Transactions, Exclusive, Recorded
<1>4. DownAlone'
  BY SMTT(30) DEF IInv, TypeOK, Transactions, DownAlone, Running, Recorded
<1>5. BooksMatchSchema'
  BY BooksKept DEF IInv
<1> QED
  BY <1>1, <1>2, <1>3, <1>4, <1>5 DEF IInv

LEMMA BeginKeeps ==
    ASSUME IInv, NEW r \in Runs, Begin(r)
    PROVE  IInv'
<1> USE DEF Begin
<1>1. TypeOK'
  BY Ranges, FaultCounted DEF IInv, TypeOK
<1>2. Transactions'
  BY DEF IInv, TypeOK, Transactions, Names
<1>3. Exclusive'
  BY DEF IInv, TypeOK, Transactions, Exclusive, Recorded
<1>4. DownAlone'
  BY DEF IInv, TypeOK, Transactions, DownAlone, Running, Recorded
<1>5. BooksMatchSchema'
  BY BooksKept DEF IInv
<1> QED
  BY <1>1, <1>2, <1>3, <1>4, <1>5 DEF IInv

LEMMA StatementKeeps ==
    ASSUME IInv, NEW r \in Runs, Statement(r)
    PROVE  IInv'
<1> USE DEF Statement, Following
<1>1. TypeOK'
  BY Ranges, FaultCounted DEF IInv, TypeOK
<1>2. Transactions'
  BY DEF IInv, TypeOK, Transactions, Names
<1>3. Exclusive'
  BY DEF IInv, TypeOK, Transactions, Exclusive, Recorded
<1>4. DownAlone'
  <2>1. Running' = Running /\ Recorded' = Recorded
    BY Goes DEF IInv, TypeOK, Running, Recorded
  <2> QED
    BY <2>1 DEF IInv, TypeOK, DownAlone
<1>5. BooksMatchSchema'
  BY DEF IInv, BooksMatchSchema, InEffect, Recorded
<1> QED
  BY <1>1, <1>2, <1>3, <1>4, <1>5 DEF IInv

LEMMA FailKeeps ==
    ASSUME IInv, NEW r \in Runs, Fail(r)
    PROVE  IInv'
<1> USE DEF Fail
<1>1. TypeOK'
  BY Ranges, FaultCounted DEF IInv, TypeOK
<1>2. Transactions'
  BY DEF IInv, TypeOK, Transactions, Names
<1>3. Exclusive'
  BY DEF IInv, TypeOK, Transactions, Exclusive, Recorded
<1>4. DownAlone'
  BY DEF IInv, TypeOK, Transactions, DownAlone, Running, Recorded
<1>5. BooksMatchSchema'
  BY BooksKept DEF IInv
<1> QED
  BY <1>1, <1>2, <1>3, <1>4, <1>5 DEF IInv

LEMMA CrashKeeps ==
    ASSUME IInv, NEW r \in Runs, Crash(r)
    PROVE  IInv'
<1> USE DEF Crash
<1>1. TypeOK'
  BY Ranges, FaultCounted DEF IInv, TypeOK
<1>2. Transactions'
  BY DEF IInv, TypeOK, Transactions, Names
<1>3. Exclusive'
  BY DEF IInv, TypeOK, Transactions, Exclusive, Recorded
<1>4. DownAlone'
  BY DEF IInv, TypeOK, Transactions, DownAlone, Running, Recorded
<1>5. BooksMatchSchema'
  BY BooksKept DEF IInv
<1> QED
  BY <1>1, <1>2, <1>3, <1>4, <1>5 DEF IInv

LEMMA ServerRollsBackKeeps ==
    ASSUME IInv, NEW r \in Runs, ServerRollsBack(r)
    PROVE  IInv'
<1> USE DEF ServerRollsBack
<1>1. TypeOK'
  BY Ranges, FaultCounted DEF IInv, TypeOK
<1>2. Transactions'
  BY DEF IInv, TypeOK, Transactions, Names
<1>3. Exclusive'
  BY DEF IInv, TypeOK, Transactions, Exclusive, Recorded
<1>4. DownAlone'
  BY DEF IInv, TypeOK, Transactions, DownAlone, Running, Recorded
<1>5. BooksMatchSchema'
  BY BooksKept DEF IInv
<1> QED
  BY <1>1, <1>2, <1>3, <1>4, <1>5 DEF IInv

\* Writing the row: in the transaction, or for good where DDL commits.
LEMMA RecordKeeps ==
    ASSUME IInv, NEW r \in Runs, Record(r)
    PROVE  IInv'
<1> USE DEF Record, Enter, Remove
<1>0. at[r] \in Names /\ r \in Running
  BY DEF IInv, Transactions, Running, TypeOK
<1>1. TypeOK'
  <2>1. clock' \in Nat /\ written' \in [Runs -> Nat]
    BY DEF IInv, TypeOK
  <2>2. date' \in [Names -> Nat] /\ commits' \in Nat /\ applied' \in [Names -> Nat]
    <3>1. date \in [Names -> Nat] /\ commits \in Nat /\ applied \in [Names -> Nat]
      BY DEF IInv, TypeOK
    <3>2. CASE rollsBack
      BY <3>1, <3>2
    <3>3. CASE ~rollsBack /\ cmd[r] = "up"
      <4>1. /\ date' = [date EXCEPT ![at[r]] = clock']
            /\ commits' = commits + 1
            /\ applied' = [applied EXCEPT ![at[r]] = commits + 1]
        BY <3>3
      <4> QED
        BY <1>0, <2>1, <3>1, <4>1
    <3>4. CASE ~rollsBack /\ cmd[r] # "up"
      <4>1. date' = [date EXCEPT ![at[r]] = 0] /\ UNCHANGED <<commits, applied>>
        BY <3>4
      <4> QED
        BY <1>0, <3>1, <4>1
    <3> QED
      BY <3>2, <3>3, <3>4
  <2>3. pc' \in [Runs -> PCs]
    BY DEF IInv, TypeOK
  <2> QED
    BY <2>1, <2>2, <2>3 DEF IInv, TypeOK
<1>2. Transactions'
  BY DEF IInv, TypeOK, Transactions
<1>3. Exclusive'
  <2>1. CASE rollsBack
    <3>1. \A o \in open : o # r /\ at[o] = at[r] => written[o] = 0
      BY Unlocked
    <3>2. Recorded' = Recorded
      BY <2>1 DEF Recorded
    <3> QED
      BY <2>1, <3>1, <3>2 DEF IInv, TypeOK, Transactions, Exclusive
  <2>2. CASE ~rollsBack
    BY <2>2 DEF IInv, Transactions, Exclusive
  <2> QED
    BY <2>1, <2>2
<1>4. DownAlone'
  <2>1. Running' = Running
    BY <1>0, Goes DEF IInv
  <2>2. ASSUME cmd[r] = "down" PROVE Recorded \ {at[r]} \subseteq Recorded'
    BY <2>2 DEF IInv, TypeOK, Recorded
  <2>3. rollsBack => Recorded' = Recorded
    BY DEF Recorded
  <2>4. ASSUME cmd[r] = "up" PROVE DownAlone'
    BY <2>1, <2>4, <1>0 DEF IInv, TypeOK, DownAlone
  <2>5. ASSUME cmd[r] = "down" PROVE DownAlone'
    BY <2>1, <2>2, <2>3, <2>5, <1>0 DEF IInv, TypeOK, DownAlone
  <2> QED
    BY <2>4, <2>5 DEF IInv, TypeOK
<1>5. BooksMatchSchema'
  BY BooksKept DEF IInv, BooksMatchSchema
<1> QED
  BY <1>1, <1>2, <1>3, <1>4, <1>5 DEF IInv

\* The COMMIT, whatever becomes of the process: its statements come into
\* effect where they were not, or go where they were.
LEMMA CommitKeeps ==
    ASSUME IInv, NEW r \in Runs, pc[r] = "commit", TakeEffect(r),
           NEW where \in {"next", "failed", "dead"}, Goto(r, where),
           Fault \/ UNCHANGED faults,
           UNCHANGED <<rollsBack, table, clock, cmd, build, steps, todo, at, done>>
    PROVE  IInv'
<1> USE DEF TakeEffect, Enter, Remove
<1>0. /\ at[r] \in Names /\ r \in Running
      /\ rollsBack <=> r \in open
      /\ r \in open => written[r] # 0 /\ written[r] \in Nat
      /\ cmd[r] \in {"up", "down"}
      /\ effect[at[r]] \in [Part -> Nat]
  BY DEF IInv, Transactions, Running, TypeOK
<1>1. r \in open /\ cmd[r] = "up" =>
        /\ at[r] \notin Recorded /\ Recorded' = Recorded \cup {at[r]}
        /\ \A k \in Part : effect[at[r]][k] = 0 /\ effect'[at[r]][k] = 1
  BY <1>0 DEF IInv, TypeOK, Exclusive, Recorded, BooksMatchSchema, InEffect
<1>2. r \in open /\ cmd[r] = "down" =>
        /\ at[r] \in Recorded /\ Recorded' = Recorded \ {at[r]}
        /\ \A k \in Part : effect[at[r]][k] = 1 /\ effect'[at[r]][k] = 0
        /\ Running = {r} /\ at[r] \notin todo[r]
  <2> SUFFICES ASSUME r \in open, cmd[r] = "down"
               PROVE  /\ at[r] \in Recorded /\ Recorded' = Recorded \ {at[r]}
                      /\ \A k \in Part : effect[at[r]][k] = 1 /\ effect'[at[r]][k] = 0
                      /\ Running = {r} /\ at[r] \notin todo[r]
    OBVIOUS
  <2>1. at[r] \in Recorded /\ Running = {r} /\ at[r] \notin todo[r]
    BY <1>0 DEF IInv, DownAlone
  <2>2. \A k \in Part : effect[at[r]][k] = 1
    BY <1>0, <2>1 DEF IInv, BooksMatchSchema, InEffect
  <2>3. \A k \in Part : effect'[at[r]][k] = 0
    BY <1>0, <2>2 DEF IInv, TypeOK
  <2>4. Recorded' = Recorded \ {at[r]}
    BY <1>0 DEF IInv, TypeOK, Recorded
  <2> QED
    BY <2>1, <2>2, <2>3, <2>4
<1>3. r \notin open => UNCHANGED <<effect, date, open, written>> /\ Recorded' = Recorded
  BY DEF Recorded
<1>4. r \in open => open' = open \ {r} /\ written' = [written EXCEPT ![r] = 0]
  OBVIOUS
<1>5. \A m \in Names : m # at[r] =>
        (\A k \in Part : effect'[m][k] = effect[m][k]) /\ (m \in Recorded' <=> m \in Recorded)
  BY <1>0, <1>1, <1>2, <1>3 DEF IInv, TypeOK
<1>6. TypeOK'
  <2>1. effect' \in [Names -> [Part -> Nat]]
    BY <1>0, <1>1, <1>2, <1>3 DEF IInv, TypeOK
  <2>2. date' \in [Names -> Nat] /\ commits' \in Nat /\ applied' \in [Names -> Nat]
    <3>1. CASE r \notin open
      BY <3>1 DEF IInv, TypeOK
    <3>2. CASE r \in open /\ cmd[r] = "up"
      <4>1. /\ date' = [date EXCEPT ![at[r]] = written[r]]
            /\ commits' = commits + 1
            /\ applied' = [applied EXCEPT ![at[r]] = commits + 1]
        BY <3>2
      <4>2. date \in [Names -> Nat] /\ commits \in Nat /\ applied \in [Names -> Nat]
        BY DEF IInv, TypeOK
      <4> QED
        BY <1>0, <3>2, <4>1, <4>2
    <3>3. CASE r \in open /\ cmd[r] # "up"
      BY <1>0, <3>3 DEF IInv, TypeOK
    <3> QED
      BY <3>1, <3>2, <3>3
  <2> QED
    BY <2>1, <2>2, FaultCounted DEF IInv, TypeOK
<1>7. Transactions'
  BY <1>3, <1>4 DEF IInv, TypeOK, Transactions
<1>8. Exclusive'
  BY <1>0, <1>1, <1>2, <1>3, <1>4 DEF IInv, TypeOK, Exclusive
<1>9. DownAlone'
  <2>1. Running' \subseteq Running /\ (where = "next" => Running' = Running)
    BY <1>0, Goes DEF IInv
  <2>2. ASSUME cmd[r] = "up" PROVE DownAlone'
    BY <1>0, <2>1, <2>2 DEF IInv, TypeOK, DownAlone
  <2>3. ASSUME cmd[r] = "down" PROVE DownAlone'
    <3>1. Running = {r} /\ Running' \subseteq {r}
      BY <1>0, <2>1, <2>3 DEF IInv, DownAlone
    <3>2. r \in Running' => Running' = {r} /\ where = "next" /\ pc'[r] = "next"
      BY <3>1, Goes DEF IInv, TypeOK, Running
    <3>3. todo[r] \subseteq Recorded'
      BY <1>0, <1>2, <1>3, <2>3 DEF IInv, DownAlone
    <3>4. \A o \in Runs : pc'[o] = "new" => todo'[o] = {}
      BY DEF IInv, TypeOK, DownAlone
    <3> QED
      BY <3>1, <3>2, <3>3, <3>4 DEF DownAlone
  <2> QED
    BY <1>0, <2>2, <2>3
<1>10. BooksMatchSchema'
  BY <1>0, <1>1, <1>2, <1>5 DEF IInv, BooksMatchSchema, InEffect
<1> QED
  BY <1>6, <1>7, <1>8, <1>9, <1>10 DEF IInv

LEMMA NextIInv == IInv /\ [Next]_vars => IInv'
<1> SUFFICES ASSUME IInv, [Next]_vars PROVE IInv'
  OBVIOUS
<1>1. CASE UNCHANGED vars
  BY <1>1 DEF vars, IInv, TypeOK, Transactions, Exclusive, DownAlone, Running,
     Recorded, BooksMatchSchema, InEffect
<1>2. ASSUME NEW r \in Runs, Step(r) PROVE IInv'
  <2>1. ASSUME NEW list \in SUBSET Names, Start(r, "up", list, 1) PROVE IInv'
    BY <2>1, StartKeeps, Ranges
  <2>2. ASSUME NEW list \in SUBSET Names, NEW n \in 1 .. MaxSteps,
               Start(r, "down", list, n)
        PROVE  IInv'
    BY <2>2, StartKeeps
  <2>3. ASSUME Commit(r) PROVE IInv'
    BY <2>3, CommitKeeps DEF Commit
  <2>4. ASSUME CommitUnheard(r) PROVE IInv'
    BY <2>4, CommitKeeps DEF CommitUnheard
  <2> QED
    BY <1>2, <2>1, <2>2, <2>3, <2>4, PrepareUpKeeps, PrepareDownKeeps, ListKeeps,
       NextUpKeeps, NextDownKeeps, FinishKeeps, CheckKeeps, BeginKeeps,
       StatementKeeps, RecordKeeps, FailKeeps, CrashKeeps, ServerRollsBackKeeps
       DEF Step
<1> QED
  BY <1>1, <1>2 DEF Next

(***************************************************************************)
(* The lock, the rows and the schema stay within the inductive invariant.  *)
(***************************************************************************)
THEOREM Invariant == Spec => []IInv
BY InitIInv, NextIInv, PTL DEF Spec

(***************************************************************************)
(* The state has its type: in particular no statement is undone more often *)
(* than it was done.                                                       *)
(***************************************************************************)
THEOREM TypeCorrect == Spec => []TypeOK
<1>1. IInv => TypeOK
  BY DEF IInv
<1> QED
  BY <1>1, Invariant, PTL

(***************************************************************************)
(* Where the engine rolls DDL back, a migration is recorded exactly when   *)
(* each of its statements is in effect once, whatever fails, dies or       *)
(* overlaps.                                                               *)
(***************************************************************************)
THEOREM BooksMatch == Spec => []BooksMatchSchema
<1>1. IInv => BooksMatchSchema
  BY DEF IInv
<1> QED
  BY <1>1, Invariant, PTL

-----------------------------------------------------------------------------
(***************************************************************************)
(* The order of the list.  Whatever an up has passed is recorded, by it or *)
(* by another run, and stays so for as long as an up is at work.           *)
(***************************************************************************)
PassedBy(r) ==
    /\ pc[r] = "new" => at[r] = 0
    /\ r \in Running /\ cmd[r] = "up" =>
          /\ pc[r] = "prepare" => at[r] = 0
          /\ {k \in build[r] : k < at[r]} \subseteq Recorded
          /\ pc[r] = "next" => {k \in build[r] : k <= at[r]} \subseteq Recorded
          /\ pc[r] = "commit" /\ ~rollsBack => at[r] \in Recorded

Passed == \A r \in Runs : PassedBy(r)

\* Only Record and the COMMIT touch the rows, and only a down takes one out.
Untouched(r) ==
    \/ \E command \in {"up", "down"}, list \in SUBSET Names, n \in 1 .. MaxSteps :
          Start(r, command, list, n)
    \/ PrepareUp(r) \/ PrepareDown(r) \/ List(r)
    \/ NextUp(r) \/ NextDown(r) \/ Finish(r) \/ Check(r)
    \/ Begin(r) \/ Statement(r) \/ Fail(r) \/ Crash(r) \/ ServerRollsBack(r)

LEMMA StepKinds ==
    ASSUME NEW r \in Runs, Step(r)
    PROVE  Untouched(r) \/ Record(r) \/ Commit(r) \/ CommitUnheard(r)
BY Ranges DEF Step, Untouched

LEMMA RowsUntouched ==
    ASSUME NEW r \in Runs, Untouched(r)
    PROVE  UNCHANGED <<date, rollsBack>> /\ Recorded' = Recorded
BY DEF Untouched, Recorded, Start, PrepareUp, PrepareDown, List, NextUp,
       NextDown, Finish, Check, Begin, Statement, Fail, Crash, ServerRollsBack

LEMMA RowsTouched ==
    ASSUME IInv, NEW r \in Runs, Record(r) \/ Commit(r) \/ CommitUnheard(r)
    PROVE  /\ r \in Running /\ at[r] \in Names /\ UNCHANGED rollsBack
           /\ \A m \in Names : m # at[r] => (m \in Recorded' <=> m \in Recorded)
           /\ cmd[r] = "up" => Recorded \subseteq Recorded'
           /\ Recorded' \ Recorded # {} => cmd[r] = "up"
           /\ Record(r) /\ ~rollsBack /\ cmd[r] = "up" => at[r] \in Recorded'
           /\ (Commit(r) \/ CommitUnheard(r)) /\ rollsBack /\ cmd[r] = "up"
              => at[r] \in Recorded'
           /\ (Commit(r) \/ CommitUnheard(r)) /\ ~rollsBack => Recorded' = Recorded
<1>1. /\ r \in Running /\ at[r] \in Names /\ UNCHANGED rollsBack
      /\ cmd[r] \in {"up", "down"} /\ date \in [Names -> Nat]
      /\ clock \in Nat /\ written[r] \in Nat
  BY DEF IInv, TypeOK, Transactions, Running, Record, Commit, CommitUnheard
<1>2. CASE Record(r) /\ rollsBack
  <2>1. Recorded' = Recorded
    BY <1>2 DEF Record, Recorded
  <2> QED
    BY <1>1, <1>2, <2>1 DEF Record, Commit, CommitUnheard
<1>3. CASE Record(r) /\ ~rollsBack
  <2>1. pc[r] = "record"
    BY <1>3 DEF Record
  <2>2. CASE cmd[r] = "up"
    <3>1. date' = [date EXCEPT ![at[r]] = clock + 1]
      BY <1>3, <2>2 DEF Record, Enter
    <3> QED
      BY <1>1, <1>3, <2>1, <2>2, <3>1 DEF Recorded, Commit, CommitUnheard
  <2>3. CASE cmd[r] = "down"
    <3>1. date' = [date EXCEPT ![at[r]] = 0]
      BY <1>3, <2>3 DEF Record, Remove
    <3> QED
      BY <1>1, <1>3, <2>1, <2>3, <3>1 DEF Recorded, Commit, CommitUnheard
  <2> QED
    BY <1>1, <2>2, <2>3
<1>4. CASE Commit(r) \/ CommitUnheard(r)
  <2>1. TakeEffect(r) /\ pc[r] = "commit" /\ ~Record(r)
    BY <1>4 DEF Commit, CommitUnheard, Record
  <2>2. CASE r \notin open
    <3>1. Recorded' = Recorded /\ ~rollsBack
      BY <2>1, <2>2 DEF TakeEffect, Recorded, IInv, Transactions
    <3> QED
      BY <1>1, <2>1, <3>1
  <2>3. CASE r \in open /\ cmd[r] = "up"
    <3>1. date' = [date EXCEPT ![at[r]] = written[r]] /\ written[r] # 0 /\ rollsBack
      BY <2>1, <2>3 DEF TakeEffect, Enter, IInv, Transactions
    <3> QED
      BY <1>1, <2>1, <2>3, <3>1 DEF Recorded
  <2>4. CASE r \in open /\ cmd[r] = "down"
    <3>1. date' = [date EXCEPT ![at[r]] = 0] /\ rollsBack
      BY <2>1, <2>4 DEF TakeEffect, Remove, IInv, Transactions
    <3> QED
      BY <1>1, <2>1, <2>4, <3>1 DEF Recorded
  <2> QED
    BY <1>1, <2>2, <2>3, <2>4
<1> QED
  BY <1>2, <1>3, <1>4

LEMMA InitPassed == Init => Passed
BY DEF Init, Passed, PassedBy, Running

LEMMA UntouchedPassed ==
    ASSUME IInv, Passed, NEW r \in Runs, Untouched(r)
    PROVE  Passed'
<1> USE DEF Running
<1>1. UNCHANGED rollsBack /\ Recorded' = Recorded
  BY RowsUntouched
<1>2. \A o \in Runs \ {r} : /\ pc'[o] = pc[o] /\ cmd'[o] = cmd[o]
                            /\ build'[o] = build[o] /\ at'[o] = at[o]
  BY DEF Untouched, IInv, TypeOK, Start, PrepareUp, PrepareDown, List,
     NextUp, NextDown, Finish, Check, Begin, Statement, Fail, Crash,
     ServerRollsBack
<1>3. \A k \in Names : k \in Nat /\ k > 0
  BY LastAssumption DEF Names
<1>4. PassedBy(r)
  BY DEF Passed
<1>5. ASSUME NEW command \in {"up", "down"}, NEW list \in SUBSET Names,
             NEW n \in 1 .. MaxSteps, Start(r, command, list, n)
      PROVE  PassedBy(r)'
  BY <1>3, <1>4, <1>5 DEF Start, PassedBy, IInv, TypeOK
<1>6. ASSUME PrepareUp(r) PROVE PassedBy(r)'
  BY <1>1, <1>3, <1>4, <1>6 DEF PrepareUp, PassedBy, IInv, TypeOK
<1>7. ASSUME PrepareDown(r) \/ List(r) \/ NextDown(r) PROVE PassedBy(r)'
  BY <1>1, <1>4, <1>7 DEF PrepareDown, List, NextDown, PassedBy, IInv, TypeOK,
     Transactions
<1>8. ASSUME NextUp(r) PROVE PassedBy(r)'
  <2>1. PICK m \in Behind(r) : /\ \A k \in Behind(r) : m <= k
                               /\ at' = [at EXCEPT ![r] = m]
    BY <1>8 DEF NextUp
  <2>2. m \in Names /\ build[r] \subseteq Names /\ at[r] \in 0 .. Last
    BY <2>1 DEF Behind, IInv, TypeOK
  <2>3. \A k \in build[r] : k < m => k <= at[r]
    BY <1>3, <2>1, <2>2 DEF Behind
  <2>4. {k \in build[r] : k <= at[r]} \subseteq Recorded
    BY <1>4, <1>8 DEF NextUp, PassedBy
  <2> QED
    BY <1>1, <1>8, <2>1, <2>3, <2>4 DEF NextUp, PassedBy, IInv, TypeOK
<1>9. ASSUME Check(r) PROVE PassedBy(r)'
  <2>1. build[r] \subseteq Names /\ at[r] \in 0 .. Last
    BY DEF IInv, TypeOK
  <2>2. at[r] \in Recorded => {k \in build[r] : k <= at[r]} \subseteq Recorded
    <3>1. {k \in build[r] : k < at[r]} \subseteq Recorded
      BY <1>4, <1>9 DEF Check, PassedBy, IInv, Transactions, Ended
    <3> QED
      BY <1>3, <2>1, <3>1
  <2> QED
    BY <1>1, <1>4, <1>9, <2>2 DEF Check, PassedBy, IInv, TypeOK
<1>10. ASSUME Finish(r) \/ Begin(r) \/ Statement(r) PROVE PassedBy(r)'
  BY <1>1, <1>4, <1>10 DEF Finish, Begin, Statement, PassedBy, IInv, TypeOK
<1>11. ASSUME Fail(r) \/ Crash(r) \/ ServerRollsBack(r) PROVE PassedBy(r)'
  BY <1>1, <1>4, <1>11 DEF Fail, Crash, ServerRollsBack, PassedBy, IInv, TypeOK
<1>12. PassedBy(r)'
  BY <1>5, <1>6, <1>7, <1>8, <1>9, <1>10, <1>11 DEF Untouched
<1>13. \A o \in Runs \ {r} : PassedBy(o)'
  BY <1>1, <1>2 DEF Passed, PassedBy
<1> QED
  BY <1>12, <1>13 DEF Passed

LEMMA TouchedPassed ==
    ASSUME IInv, Passed, NEW r \in Runs, Record(r) \/ Commit(r) \/ CommitUnheard(r)
    PROVE  Passed'
<1> USE DEF Running
<1>1. /\ UNCHANGED <<rollsBack, cmd, build, at>>
      /\ \A o \in Runs \ {r} : pc'[o] = pc[o]
      /\ pc'[r] # "new" /\ build[r] \subseteq Names /\ at[r] \in Names
  BY RowsTouched DEF Record, Commit, CommitUnheard, IInv, TypeOK
<1>2. \A o \in Runs \ {r} : PassedBy(o)'
  <2>1. CASE cmd[r] = "up"
    BY <1>1, <2>1, RowsTouched DEF Passed, PassedBy
  <2>2. CASE cmd[r] = "down"
    <3>1. Running = {r}
      BY <2>2, RowsTouched DEF IInv, DownAlone
    <3> QED
      BY <1>1, <3>1 DEF Passed, PassedBy
  <2> QED
    BY <2>1, <2>2 DEF IInv, TypeOK
<1>3. ASSUME cmd[r] = "up" PROVE PassedBy(r)'
  <2>1. {k \in build[r] : k < at[r]} \subseteq Recorded'
    BY <1>3, RowsTouched DEF Passed, PassedBy
  <2>2. CASE Record(r)
    <3>1. pc'[r] = "commit" /\ (~rollsBack => at[r] \in Recorded')
      BY <1>3, <2>2, RowsTouched DEF Record, IInv, TypeOK
    <3> QED
      BY <1>1, <2>1, <3>1 DEF PassedBy
  <2>3. CASE Commit(r) \/ CommitUnheard(r)
    <3>1. at[r] \in Recorded'
      BY <1>3, <2>3, RowsTouched DEF Passed, PassedBy, Commit, CommitUnheard
    <3>2. \A k \in build[r] : k <= at[r] => k = at[r] \/ k < at[r]
      BY <1>1 DEF Names
    <3>3. pc'[r] \in {"next"} \cup Ended
      BY <2>3 DEF Commit, CommitUnheard, IInv, TypeOK
    <3> QED
      BY <1>1, <1>3, <2>1, <3>1, <3>2, <3>3 DEF PassedBy
  <2> QED
    BY <2>2, <2>3
<1>4. ASSUME cmd[r] = "down" PROVE PassedBy(r)'
  BY <1>1, <1>4 DEF PassedBy
<1> QED
  BY <1>2, <1>3, <1>4 DEF Passed, IInv, TypeOK

LEMMA NextPassed == IInv /\ Passed /\ [Next]_vars => Passed'
<1>1. ASSUME IInv, Passed, UNCHANGED vars PROVE Passed'
  BY <1>1 DEF vars, Passed, PassedBy, Running, Recorded
<1> QED
  BY <1>1, StepKinds, UntouchedPassed, TouchedPassed DEF Next

(***************************************************************************)
(* Whatever of its list an up has gone past is recorded.                   *)
(***************************************************************************)
THEOREM PassedStays == Spec => []Passed
BY Invariant, InitPassed, NextPassed, PTL DEF Spec

(***************************************************************************)
(* A migration is recorded only when all that the build lists ahead of it  *)
(* are.                                                                    *)
(***************************************************************************)
THEOREM AppliedInListOrder == Spec => InListOrder
<1>1. ASSUME IInv, Passed, [Next]_vars, NEW m \in Recorded' \ Recorded
      PROVE  \E r \in Runs : /\ at[r] = m /\ cmd[r] = "up"
                             /\ {k \in build[r] : k < m} \subseteq Recorded
  <2>1. CASE UNCHANGED vars
    BY <1>1, <2>1 DEF vars, Recorded
  <2>2. ASSUME NEW r \in Runs, Step(r)
        PROVE  \E o \in Runs : /\ at[o] = m /\ cmd[o] = "up"
                               /\ {k \in build[o] : k < m} \subseteq Recorded
    <3>1. Record(r) \/ Commit(r) \/ CommitUnheard(r)
      BY <1>1, <2>2, StepKinds, RowsUntouched
    <3>2. at[r] = m /\ cmd[r] = "up" /\ r \in Running
      BY <1>1, <3>1, RowsTouched DEF Recorded
    <3> QED
      BY <1>1, <3>2 DEF Passed, PassedBy
  <2> QED
    BY <1>1, <2>1, <2>2 DEF Next
<1>2. IInv /\ Passed /\ [Next]_vars
      => [\A m \in Recorded' \ Recorded :
             \E r \in Runs : /\ at[r] = m /\ cmd[r] = "up"
                             /\ {k \in build[r] : k < m} \subseteq Recorded]_vars
  BY <1>1
<1> QED
  BY <1>2, Invariant, PassedStays, PTL DEF Spec, InListOrder

(***************************************************************************)
(* An up that ends with exit code 0 leaves everything its build lists      *)
(* recorded.                                                               *)
(***************************************************************************)
THEOREM OkLeavesAllDone == Spec => OkMeansDone
<1>1. ASSUME IInv, Passed, [Next]_vars, NEW r \in Runs,
             pc[r] # "ok", pc'[r] = "ok", cmd[r] = "up"
      PROVE  build[r] \subseteq Recorded'
  <2>1. Finish(r)
    <3>1. PICK o \in Runs : Step(o)
      BY <1>1 DEF Next, vars
    <3>2. CASE Untouched(o)
      BY <1>1, <3>2 DEF Untouched, IInv, TypeOK, Start, PrepareUp, PrepareDown,
         List, NextUp, NextDown, Finish, Check, Begin, Statement, Fail, Crash,
         ServerRollsBack
    <3>3. CASE Record(o) \/ Commit(o) \/ CommitUnheard(o)
      BY <1>1, <3>3 DEF IInv, TypeOK, Record, Commit, CommitUnheard
    <3> QED
      BY <3>1, <3>2, <3>3, StepKinds
  <2>2. Recorded' = Recorded /\ pc[r] = "next" /\ Behind(r) = {}
    BY <1>1, <2>1 DEF Finish, Recorded
  <2>3. {k \in build[r] : k <= at[r]} \subseteq Recorded
    BY <1>1, <2>2 DEF Passed, PassedBy, Running
  <2>4. \A k \in build[r] : k <= at[r]
    BY <1>1, <2>2 DEF Behind, IInv, TypeOK, Names
  <2> QED
    BY <2>2, <2>3, <2>4
<1>2. IInv /\ Passed /\ [Next]_vars
      => [\A r \in Runs : pc[r] # "ok" /\ pc'[r] = "ok" /\ cmd[r] = "up"
             => build[r] \subseteq Recorded']_vars
  BY <1>1
<1> QED
  BY <1>2, Invariant, PassedStays, PTL DEF Spec, OkMeansDone

-----------------------------------------------------------------------------
(* Where DDL commits by itself: what the run in the middle of a migration   *)
(* has done of it is in effect, so the row comes when all of it is.         *)

Progress ==
    ~rollsBack => \A r \in Running : pc[r] \in {"run", "record"} =>
        /\ pc[r] = "record" => done[r] = Parts
        /\ cmd[r] = "up" => \A k \in Part : k <= done[r] => effect[at[r]][k] = 1
        /\ cmd[r] = "down" => \A k \in Part : k > Parts - done[r] => effect[at[r]][k] = 0

TornInv == Progress /\ TornOnlyByFailure

(* The order of the rows.  Runs that overlap are ups of one list, so no two *)
(* of them write a row at the same time, and the one that does dates it     *)
(* after every row there is: newer is applied later.  A down keeps to that  *)
(* order.                                                                   *)

OneList ==
    /\ \A r \in Running :
          cmd[r] = "up" /\ pc[r] \in {"check", "begin", "run", "record", "commit"}
          => at[r] \in build[r]
    /\ \A r, o \in Running : cmd[r] = "up" /\ cmd[o] = "up" => build[r] = build[o]

Dated ==
    /\ \A m \in Names : date[m] <= clock /\ applied[m] <= commits
    /\ \A m, k \in Recorded : date[k] <= date[m] => applied[k] <= applied[m]

WrittenLast ==
    \A r \in open : pc[r] = "commit" /\ cmd[r] = "up" =>
        written[r] <= clock /\ \A k \in Recorded : date[k] < written[r]

Undoing(r) == pc[r] \in {"begin", "run", "record", "commit"}

TakesBackNewest ==
    \A r \in Running : cmd[r] = "down" =>
        /\ \A m \in todo[r], k \in Recorded \ todo[r] :
              date[k] < date[m] \/ (Undoing(r) /\ k = at[r])
        /\ Undoing(r) /\ at[r] \in Recorded => \A k \in Recorded : date[k] <= date[at[r]]
        /\ ~rollsBack /\ pc[r] = "commit" => at[r] \notin Recorded

OrderInv == OneList /\ Dated /\ WrittenLast /\ TakesBackNewest

LEMMA InitTorn == Init => TornInv
BY DEF Init, TornInv, Progress, TornOnlyByFailure, InEffect, Recorded, Running, Names, Part

\* A step of r that leaves the rows and the schema alone.
LEMMA AsideTorn ==
    ASSUME IInv, IInv', TornInv, NEW r \in Runs,
           UNCHANGED <<rollsBack, effect, date>>,
           \A o \in Runs \ {r} : /\ pc'[o] = pc[o] /\ cmd'[o] = cmd[o]
                                 /\ at'[o] = at[o] /\ done'[o] = done[o],
           pc'[r] \in {"run", "record"} => pc'[r] = "run" /\ done'[r] = 0,
           InTheMiddle(r) => at'[r] = at[r] /\ InTheMiddle(r)'
    PROVE  TornInv'
<1>1. Progress'
  <2>1. \A k \in Part : ~ (k <= 0) /\ ~ (k > Parts - 0)
    BY PartsAssumption DEF Part
  <2> QED
    BY <2>1 DEF TornInv, Progress, Running
<1>2. TornOnlyByFailure'
  <2> SUFFICES ASSUME NEW m \in Names, ~ InEffect(m, IF m \in Recorded THEN 1 ELSE 0)
               PROVE  \E o \in Runs : at'[o] = m /\ InTheMiddle(o)'
    BY DEF TornOnlyByFailure, InEffect, Recorded
  <2>1. PICK o \in Runs : at[o] = m /\ InTheMiddle(o)
    BY DEF TornInv, TornOnlyByFailure
  <2> QED
    BY <2>1 DEF InTheMiddle
<1> QED
  BY <1>1, <1>2 DEF TornInv

LEMMA UntouchedTorn ==
    ASSUME IInv, IInv', TornInv, NEW r \in Runs, Untouched(r), ~ Statement(r)
    PROVE  TornInv'
<1>1. UNCHANGED <<rollsBack, effect, date>>
  BY DEF Untouched, Start, PrepareUp, PrepareDown, List, NextUp, NextDown, Finish, Check,
     Begin, Fail, Crash, ServerRollsBack
<1>2. \A o \in Runs \ {r} : /\ pc'[o] = pc[o] /\ cmd'[o] = cmd[o]
                            /\ at'[o] = at[o] /\ done'[o] = done[o]
  BY DEF Untouched, IInv, TypeOK, Start, PrepareUp, PrepareDown, List, NextUp, NextDown,
     Finish, Check, Begin, Fail, Crash, ServerRollsBack
<1>3. pc'[r] \in {"run", "record"} => pc'[r] = "run" /\ done'[r] = 0
  BY DEF Untouched, IInv, TypeOK, Start, PrepareUp, PrepareDown, List, NextUp, NextDown,
     Finish, Check, Begin, Fail, Crash, ServerRollsBack
<1>4. InTheMiddle(r) => at'[r] = at[r] /\ InTheMiddle(r)'
  BY DEF InTheMiddle, Untouched, IInv, TypeOK, Start, PrepareUp, PrepareDown, List, NextUp,
     NextDown, Finish, Check, Begin, Fail, Crash, ServerRollsBack
<1> QED
  BY <1>1, <1>2, <1>3, <1>4, AsideTorn

\* A statement that is executed where DDL commits makes r the run in the middle.
LEMMA StatementTorn ==
    ASSUME IInv, IInv', TornInv, NEW r \in Runs, Statement(r)
    PROVE  TornInv'
<1> DEFINE v == IF cmd[r] = "up" THEN 1 ELSE 0
           f == Following(r)
<1>1. /\ pc[r] = "run" /\ r \in Running /\ at[r] \in Names /\ done[r] \in 0 .. Parts
      /\ done[r] < Parts /\ cmd[r] \in {"up", "down"}
      /\ effect \in [Names -> [Part -> Nat]] /\ Parts \in Nat
      /\ UNCHANGED <<rollsBack, date, cmd, at>>
  BY PartsAssumption DEF Statement, IInv, TypeOK, Transactions, Running
<1>2. /\ \A o \in Runs \ {r} : pc'[o] = pc[o] /\ done'[o] = done[o]
      /\ done'[r] = done[r] + 1
      /\ pc'[r] = IF done[r] + 1 = Parts THEN "record" ELSE "run"
  BY DEF Statement, IInv, TypeOK
<1>3. InTheMiddle(r)'
  BY <1>1, <1>2 DEF InTheMiddle
<1>4. CASE rollsBack
  <2>1. effect' = effect
    BY <1>4 DEF Statement
  <2>2. Progress'
    BY <1>1, <1>4 DEF Progress
  <2>3. TornOnlyByFailure'
    <3> SUFFICES ASSUME NEW m \in Names PROVE InEffect(m, IF m \in Recorded THEN 1 ELSE 0)'
      BY DEF TornOnlyByFailure
    <3> QED
      BY <1>1, <1>4 DEF IInv, BooksMatchSchema, InEffect, Recorded
  <2> QED
    BY <2>2, <2>3 DEF TornInv
<1>5. CASE ~rollsBack
  <2>1. /\ f \in Part
        /\ \A k \in Part : cmd[r] = "up" /\ k <= done[r] + 1 => k <= done[r] \/ k = f
        /\ \A k \in Part : cmd[r] = "down" /\ k > Parts - (done[r] + 1)
                           => k > Parts - done[r] \/ k = f
    <3>1. CASE cmd[r] = "up"
      <4>1. f = done[r] + 1
        BY <3>1 DEF Following
      <4> QED
        BY <1>1, <3>1, <4>1 DEF Part
    <3>2. CASE cmd[r] = "down"
      <4>1. f = Parts - done[r]
        BY <3>2 DEF Following
      <4> QED
        BY <1>1, <3>2, <4>1 DEF Part
    <3> QED
      BY <1>1, <3>1, <3>2
  <2>2. effect' = [effect EXCEPT ![at[r]] = [effect[at[r]] EXCEPT ![f] = v]]
    BY <1>5 DEF Statement
  <2> HIDE DEF f
  <2>3. /\ \A m \in Names \ {at[r]} : effect'[m] = effect[m]
        /\ \A k \in Part : effect'[at[r]][k] = IF k = f THEN v ELSE effect[at[r]][k]
    BY <1>1, <2>1, <2>2
  <2>4. ASSUME NEW o \in Running', pc'[o] \in {"run", "record"}
        PROVE  /\ pc'[o] = "record" => done'[o] = Parts
               /\ cmd'[o] = "up" => \A k \in Part : k <= done'[o] => effect'[at'[o]][k] = 1
               /\ cmd'[o] = "down"
                  => \A k \in Part : k > Parts - done'[o] => effect'[at'[o]][k] = 0
    <3>1. CASE o = r
      <4>1. /\ cmd[r] = "up" => \A k \in Part : k <= done[r] => effect[at[r]][k] = 1
            /\ cmd[r] = "down" => \A k \in Part : k > Parts - done[r] => effect[at[r]][k] = 0
        BY <1>1, <1>5 DEF TornInv, Progress
      <4> QED
        BY <1>1, <1>2, <2>1, <2>3, <3>1, <4>1
    <3>2. CASE o # r
      <4>1. /\ o \in Running /\ pc'[o] = pc[o] /\ done'[o] = done[o]
            /\ cmd'[o] = cmd[o] /\ at'[o] = at[o] /\ at[o] \in Names
        BY <1>1, <1>2, <2>4, <3>2 DEF Running, IInv, Transactions
      <4>2. cmd[r] = "up" /\ cmd[o] = "up"
        <5>1. \A p \in Running : cmd[p] = "down" => Running = {p}
          BY DEF IInv, DownAlone
        <5>2. \A p \in Running : cmd[p] \in {"up", "down"}
          BY DEF IInv, TypeOK, Running
        <5> QED
          BY <1>1, <3>2, <4>1, <5>1, <5>2
      <4>3. /\ pc[o] = "record" => done[o] = Parts
            /\ \A k \in Part : k <= done[o] => effect[at[o]][k] = 1
        BY <1>5, <2>4, <4>1, <4>2 DEF TornInv, Progress
      <4>4. \A k \in Part : effect[at[o]][k] = 1 => effect'[at[o]][k] = 1
        BY <2>3, <4>1, <4>2
      <4> QED
        BY <4>1, <4>2, <4>3, <4>4
    <3> QED
      BY <3>1, <3>2
  <2>5. Progress'
    BY <2>4 DEF Progress
  <2>6. TornOnlyByFailure'
    <3> SUFFICES ASSUME NEW m \in Names
                 PROVE  \/ InEffect(m, IF m \in Recorded THEN 1 ELSE 0)'
                        \/ \E o \in Runs : at'[o] = m /\ InTheMiddle(o)'
      BY DEF TornOnlyByFailure
    <3>1. CASE m = at[r]
      BY <1>1, <1>3, <3>1
    <3>2. CASE m # at[r]
      <4>1. effect'[m] = effect[m] /\ Recorded' = Recorded
        BY <1>1, <2>3, <3>2 DEF Recorded
      <4>2. \A o \in Runs : at[o] = m /\ InTheMiddle(o) => at'[o] = m /\ InTheMiddle(o)'
        BY <1>1, <1>2, <3>2 DEF InTheMiddle
      <4> QED
        BY <4>1, <4>2 DEF TornInv, TornOnlyByFailure, InEffect
    <3> QED
      BY <3>1, <3>2
  <2> QED
    BY <2>5, <2>6 DEF TornInv
<1> QED
  BY <1>4, <1>5

\* The row comes, or goes, when all of the migration is, or none of it.
LEMMA TouchedTorn ==
    ASSUME IInv, IInv', TornInv, NEW r \in Runs, Record(r) \/ Commit(r) \/ CommitUnheard(r)
    PROVE  TornInv'
<1>0. /\ UNCHANGED <<rollsBack, cmd, at, done>> /\ r \in Running /\ at[r] \in Names
      /\ \A o \in Runs \ {r} : pc'[o] = pc[o]
      /\ pc'[r] \notin {"run", "record"}
  BY RowsTouched DEF Record, Commit, CommitUnheard, IInv, TypeOK
<1>1. CASE rollsBack
  <2>1. \A m \in Names : InEffect(m, IF m \in Recorded THEN 1 ELSE 0)'
    BY <1>0, <1>1 DEF IInv, BooksMatchSchema, InEffect, Recorded
  <2> QED
    BY <1>0, <1>1, <2>1 DEF TornInv, Progress, TornOnlyByFailure
<1>2. CASE ~rollsBack
  <2>1. effect' = effect
    BY <1>2 DEF Record, Commit, CommitUnheard, TakeEffect, IInv, Transactions
  <2>2. Progress'
    BY <1>0, <2>1 DEF TornInv, Progress, Running
  <2>3. ASSUME NEW m \in Names, m # at[r] \/ ~ Record(r)
        PROVE  \/ InEffect(m, IF m \in Recorded THEN 1 ELSE 0)'
               \/ \E o \in Runs : at'[o] = m /\ InTheMiddle(o)'
    <3>1. m \in Recorded' <=> m \in Recorded
      BY <1>2, <2>3, RowsTouched
    <3>2. \A o \in Runs : at[o] = m /\ InTheMiddle(o) => at'[o] = m /\ InTheMiddle(o)'
      BY <1>0, <2>3 DEF InTheMiddle, Record, Commit, CommitUnheard
    <3> QED
      BY <2>1, <3>1, <3>2 DEF TornInv, TornOnlyByFailure, InEffect
  <2>4. ASSUME Record(r), NEW m \in Names, m = at[r]
        PROVE  InEffect(m, IF m \in Recorded THEN 1 ELSE 0)'
    <3>1. pc[r] = "record" /\ done[r] = Parts
      BY <1>0, <1>2, <2>4 DEF Record, TornInv, Progress
    <3>2. \A k \in Part : k <= Parts /\ k > Parts - Parts
      BY PartsAssumption DEF Part
    <3>3. CASE cmd[r] = "up"
      <4>1. at[r] \in Recorded'
        BY <1>2, <2>4, <3>3, RowsTouched
      <4>2. \A k \in Part : effect[at[r]][k] = 1
        BY <1>0, <1>2, <3>1, <3>2, <3>3 DEF TornInv, Progress
      <4> QED
        BY <1>0, <2>1, <2>4, <4>1, <4>2 DEF InEffect
    <3>4. CASE cmd[r] = "down"
      <4>1. at[r] \notin Recorded'
        BY <1>0, <1>2, <2>4, <3>4 DEF Record, Remove, Recorded, IInv, TypeOK
      <4>2. \A k \in Part : effect[at[r]][k] = 0
        BY <1>0, <1>2, <3>1, <3>2, <3>4 DEF TornInv, Progress
      <4> QED
        BY <1>0, <2>1, <2>4, <4>1, <4>2 DEF InEffect
    <3> QED
      BY <3>3, <3>4 DEF IInv, TypeOK
  <2>5. TornOnlyByFailure'
    BY <1>0, <2>3, <2>4 DEF TornOnlyByFailure
  <2> QED
    BY <2>2, <2>5 DEF TornInv
<1> QED
  BY <1>1, <1>2

LEMMA NextTorn == IInv /\ IInv' /\ TornInv /\ [Next]_vars => TornInv'
<1>1. ASSUME TornInv, UNCHANGED vars PROVE TornInv'
  BY <1>1 DEF vars, TornInv, Progress, TornOnlyByFailure, Running, Recorded, InEffect,
     InTheMiddle
<1> QED
  BY <1>1, StepKinds, UntouchedTorn, StatementTorn, TouchedTorn DEF Next

(***************************************************************************)
(* Where DDL commits by itself, the table and the schema disagree about a  *)
(* migration only while a run is in the middle of it or when one has ended *)
(* there.                                                                  *)
(***************************************************************************)
THEOREM TornByFailure == Spec => []TornOnlyByFailure
<1>1. TornInv => TornOnlyByFailure
  BY DEF TornInv
<1> QED
  BY <1>1, Invariant, InitTorn, NextTorn, PTL DEF Spec

-----------------------------------------------------------------------------
LEMMA InitOrder == Init => OrderInv
BY DEF Init, OrderInv, OneList, Dated, WrittenLast, TakesBackNewest, Running, Recorded, Names

\* What a step changes of the run that takes it, and of no other.
LEMMA OthersKept ==
    ASSUME IInv, NEW r \in Runs, Step(r)
    PROVE  \A o \in Runs \ {r} :
              /\ pc'[o] = pc[o] /\ cmd'[o] = cmd[o] /\ build'[o] = build[o]
              /\ at'[o] = at[o] /\ todo'[o] = todo[o] /\ written'[o] = written[o]
              /\ o \in open' <=> o \in open
BY DEF Step, IInv, TypeOK, Start, PrepareUp, PrepareDown, List, NextUp, NextDown, Finish,
   Check, Begin, Statement, Record, Commit, CommitUnheard, TakeEffect, Fail, Crash,
   ServerRollsBack

LEMMA OneListKept ==
    ASSUME IInv, OneList, NEW r \in Runs, Step(r)
    PROVE  OneList'
<1>1. ASSUME NEW list \in SUBSET Names, NEW command \in {"up", "down"}, NEW n,
             Start(r, command, list, n)
      PROVE  OneList'
  <2>1. /\ pc'[r] = "prepare" /\ cmd'[r] = command /\ build'[r] = list /\ at' = at
        /\ \A o \in Running : command = "up" /\ cmd[o] = "up" /\ build[o] = list
        /\ \A o \in Runs \ {r} : pc'[o] = pc[o] /\ cmd'[o] = cmd[o] /\ build'[o] = build[o]
    BY <1>1 DEF Start, IInv, TypeOK
  <2>2. \A o \in Running' : o = r \/ (o \in Running /\ o # r)
    <3>1. \A o \in Runs \ {r} : pc'[o] = pc[o]
      BY <2>1
    <3> QED
      BY <3>1 DEF Running
  <2>3. \A o \in Running' : cmd'[o] = "up" => build'[o] = list
    BY <2>1, <2>2 DEF Running
  <2>4. \A o \in Running' :
           cmd'[o] = "up" /\ pc'[o] \in {"check", "begin", "run", "record", "commit"}
           => at'[o] \in build'[o]
    BY <2>1, <2>2 DEF OneList, Running
  <2> QED
    BY <2>3, <2>4 DEF OneList
<1>2. CASE pc[r] # "new"
  <2>1. /\ UNCHANGED <<cmd, build>>
        /\ pc[r] \in Ended => pc'[r] \in Ended
    BY <1>2 DEF Step, Start, PrepareUp, PrepareDown, List, NextUp, NextDown, Finish, Check,
       Begin, Statement, Record, Commit, CommitUnheard, Fail, Crash, ServerRollsBack,
       Running, IInv, TypeOK
  <2>2. \A o \in Runs : o \in Running' => o \in Running
    BY <1>2, <2>1, OthersKept DEF Running
  <2>3. \A o, p \in Running' : cmd'[o] = "up" /\ cmd'[p] = "up" => build'[o] = build'[p]
    BY <2>1, <2>2 DEF OneList, Running
  <2>4. r \in Running' /\ cmd'[r] = "up"
        /\ pc'[r] \in {"check", "begin", "run", "record", "commit"} => at'[r] \in build'[r]
    <3> SUFFICES ASSUME r \in Running', cmd[r] = "up",
                        pc'[r] \in {"check", "begin", "run", "record", "commit"}
                 PROVE  at'[r] \in build[r]
      BY <2>1
    <3>1. CASE NextUp(r)
      BY <3>1 DEF NextUp, Behind, IInv, TypeOK
    <3>2. CASE ~ NextUp(r)
      <4>1. pc[r] \in {"check", "begin", "run", "record", "commit"} /\ at'[r] = at[r]
        BY <1>2, <3>2 DEF Step, Start, PrepareUp, PrepareDown, List, NextDown, Finish,
           Check, Begin, Statement, Record, Commit, CommitUnheard, Fail, Crash,
           ServerRollsBack, IInv, TypeOK
      <4> QED
        BY <2>2, <4>1 DEF OneList
    <3> QED
      BY <3>1, <3>2
  <2>5. \A o \in Runs \ {r} : o \in Running' /\ cmd'[o] = "up"
        /\ pc'[o] \in {"check", "begin", "run", "record", "commit"} => at'[o] \in build'[o]
    BY <2>2, OthersKept DEF OneList
  <2> QED
    BY <2>3, <2>4, <2>5 DEF OneList, Running
<1> QED
  BY <1>1, <1>2 DEF Step, Start, PrepareUp, PrepareDown, List, NextUp, NextDown, Finish,
     Check, Begin, Statement, Record, Commit, CommitUnheard, Fail, Crash, ServerRollsBack,
     Running

\* Two ups that are about to commit a row have passed each other's.
LEMMA OneWriter ==
    ASSUME IInv, Passed, OneList, NEW r \in open, NEW o \in open,
           pc[r] = "commit", pc[o] = "commit", cmd[r] = "up", cmd[o] = "up"
    PROVE  r = o
<1>1. /\ r \in Running /\ o \in Running /\ written[r] # 0 /\ written[o] # 0
      /\ at[r] \in Nat /\ at[o] \in Nat
      /\ at[r] \notin Recorded /\ at[o] \notin Recorded
  BY DEF IInv, TypeOK, Transactions, Exclusive, Running
<1>2. at[r] \in build[r] /\ at[o] \in build[o] /\ build[r] = build[o]
  BY <1>1 DEF OneList
<1>3. ~ (at[r] < at[o]) /\ ~ (at[o] < at[r])
  BY <1>1, <1>2 DEF Passed, PassedBy, IInv, TypeOK
<1>4. at[r] = at[o]
  BY <1>1, <1>3
<1> QED
  BY <1>1, <1>4 DEF IInv, Exclusive

\* A row that is dated after all others keeps the order.
LEMMA EnterDated ==
    ASSUME TypeOK, Dated, NEW m \in Names, NEW d \in Nat, Enter(m, d),
           clock' \in Nat, clock <= clock', d <= clock', \A k \in Recorded : date[k] < d
    PROVE  Dated'
<1>1. /\ date \in [Names -> Nat] /\ applied \in [Names -> Nat] /\ commits \in Nat
      /\ clock \in Nat
  BY DEF TypeOK
<1>2. /\ date' = [date EXCEPT ![m] = d] /\ applied' = [applied EXCEPT ![m] = commits + 1]
      /\ commits' = commits + 1
  BY DEF Enter
<1>3. \A k \in Names : k # m => /\ date'[k] = date[k] /\ applied'[k] = applied[k]
                                /\ k \in Recorded' <=> k \in Recorded
  BY <1>1, <1>2 DEF Recorded
<1>4. date'[m] = d /\ applied'[m] = commits + 1
  BY <1>1, <1>2
<1>5. \A k \in Names : date'[k] <= clock' /\ applied'[k] <= commits'
  BY <1>1, <1>2, <1>3, <1>4 DEF Dated
<1>6. ASSUME NEW k \in Recorded', NEW l \in Recorded', date'[k] <= date'[l]
      PROVE  applied'[k] <= applied'[l]
  <2>1. k \in Names /\ l \in Names
    BY DEF Recorded
  <2>2. CASE l = m
    BY <1>2, <1>4, <1>5, <2>1, <2>2
  <2>3. CASE l # m /\ k = m
    <3>1. date'[l] < d
      BY <1>3, <2>1, <2>3
    <3> QED
      BY <1>1, <1>3, <1>4, <1>6, <2>1, <2>3, <3>1
  <2>4. CASE l # m /\ k # m
    BY <1>3, <1>6, <2>1, <2>4 DEF Dated
  <2> QED
    BY <2>2, <2>3, <2>4
<1> QED
  BY <1>5, <1>6 DEF Dated

LEMMA DatedKept ==
    ASSUME IInv, OrderInv, NEW r \in Runs, Step(r)
    PROVE  Dated' /\ clock' \in Nat /\ clock <= clock'
<1>0. TypeOK /\ Dated /\ clock \in Nat /\ written[r] \in Nat
  BY DEF IInv, OrderInv, TypeOK
<1>1. CASE Untouched(r)
  <2>1. UNCHANGED <<date, applied, commits, clock>>
    BY <1>1 DEF Untouched, Start, PrepareUp, PrepareDown, List, NextUp, NextDown, Finish,
       Check, Begin, Statement, Fail, Crash, ServerRollsBack
  <2> QED
    BY <1>0, <2>1 DEF Dated, Recorded
<1>2. CASE Record(r)
  <2>1. at[r] \in Names /\ cmd[r] \in {"up", "down"}
    BY <1>2, RowsTouched DEF IInv, TypeOK
  <2>2. clock' \in Nat /\ clock <= clock'
    BY <1>0, <1>2 DEF Record
  <2>3. CASE rollsBack
    <3>1. UNCHANGED <<date, applied, commits>>
      BY <1>2, <2>3 DEF Record
    <3>2. \A m \in Names : date[m] <= clock => date[m] <= clock'
      BY <1>0, <2>2 DEF TypeOK
    <3> QED
      BY <1>0, <2>2, <3>1, <3>2 DEF Dated, Recorded
  <2>4. CASE ~rollsBack /\ cmd[r] = "up"
    <3>1. Enter(at[r], clock + 1) /\ clock' = clock + 1
      BY <1>2, <2>4 DEF Record
    <3>2. \A k \in Recorded : date[k] < clock + 1
      BY <1>0 DEF Dated, Recorded, TypeOK
    <3> QED
      BY <1>0, <2>1, <2>2, <3>1, <3>2, EnterDated
  <2>5. CASE ~rollsBack /\ cmd[r] = "down"
    <3>1. Remove(at[r]) /\ clock' = clock
      BY <1>2, <2>5 DEF Record
    <3> QED
      BY <1>0, <2>1, <3>1 DEF Remove, Dated, Recorded, TypeOK
  <2> QED
    BY <2>1, <2>2, <2>3, <2>4, <2>5
<1>3. CASE Commit(r) \/ CommitUnheard(r)
  <2>1. /\ at[r] \in Names /\ cmd[r] \in {"up", "down"} /\ pc[r] = "commit"
        /\ clock' = clock /\ TakeEffect(r)
    BY <1>3, RowsTouched DEF IInv, TypeOK, Commit, CommitUnheard
  <2>2. CASE r \notin open
    <3>1. UNCHANGED <<date, applied, commits>>
      BY <2>1, <2>2 DEF TakeEffect
    <3> QED
      BY <1>0, <2>1, <3>1 DEF Dated, Recorded
  <2>3. CASE r \in open /\ cmd[r] = "up"
    <3>1. Enter(at[r], written[r])
      BY <2>1, <2>3 DEF TakeEffect
    <3>2. written[r] <= clock /\ \A k \in Recorded : date[k] < written[r]
      BY <2>1, <2>3 DEF OrderInv, WrittenLast
    <3> QED
      BY <1>0, <2>1, <3>1, <3>2, EnterDated
  <2>4. CASE r \in open /\ cmd[r] = "down"
    <3>1. Remove(at[r])
      BY <2>1, <2>4 DEF TakeEffect
    <3> QED
      BY <1>0, <2>1, <3>1 DEF Remove, Dated, Recorded, TypeOK
  <2> QED
    BY <2>1, <2>2, <2>3, <2>4
<1> QED
  BY <1>1, <1>2, <1>3, StepKinds

LEMMA WrittenLastKept ==
    ASSUME IInv, Passed, OrderInv, NEW r \in Runs, Step(r)
    PROVE  WrittenLast'
<1>0. TypeOK /\ Dated /\ clock \in Nat /\ clock' \in Nat /\ clock <= clock'
  BY DatedKept DEF IInv, OrderInv, TypeOK
<1> SUFFICES ASSUME NEW o \in open', pc'[o] = "commit", cmd'[o] = "up"
             PROVE  written'[o] <= clock' /\ \A k \in Recorded' : date'[k] < written'[o]
  BY DEF WrittenLast
<1>1. CASE o = r
  <2>1. Record(r)
    BY <1>1 DEF Step, IInv, TypeOK, Start, PrepareUp, PrepareDown, List, NextUp, NextDown,
       Finish, Check, Begin, Statement, Commit, CommitUnheard, Fail, Crash, ServerRollsBack
  <2>2. rollsBack /\ cmd[r] = "up"
    BY <1>1, <2>1 DEF Record, IInv, Transactions
  <2>3. written'[r] = clock + 1 /\ clock' = clock + 1 /\ date' = date
    BY <2>1, <2>2 DEF Record, IInv, TypeOK
  <2> QED
    BY <1>0, <1>1, <2>3 DEF Dated, Recorded, TypeOK
<1>2. CASE o # r
  <2>1. /\ o \in Runs /\ o \in open /\ pc[o] = "commit" /\ cmd[o] = "up"
        /\ written'[o] = written[o] /\ written[o] \in Nat /\ o \in Running /\ rollsBack
    <3>1. open' \subseteq open \cup {r} /\ open \subseteq Runs
      BY DEF IInv, TypeOK, Step, Start, PrepareUp, PrepareDown, List, NextUp, NextDown,
         Finish, Check, Begin, Statement, Record, Commit, CommitUnheard, TakeEffect, Fail,
         Crash, ServerRollsBack
    <3> QED
      BY <1>2, <3>1, OthersKept DEF IInv, TypeOK, Transactions, Running
  <2>2. written[o] <= clock /\ \A k \in Recorded : date[k] < written[o]
    BY <2>1 DEF OrderInv, WrittenLast
  <2>3. date' = date
    <3>1. CASE Untouched(r)
      BY <3>1, RowsUntouched
    <3>2. CASE Record(r)
      BY <2>1, <3>2 DEF Record
    <3>3. CASE Commit(r) \/ CommitUnheard(r)
      <4>1. r \in Running /\ pc[r] = "commit" /\ cmd[r] \in {"up", "down"} /\ r \in open
        BY <2>1, <3>3, RowsTouched DEF Commit, CommitUnheard, IInv, TypeOK, Transactions
      <4>2. cmd[r] # "down"
        BY <1>2, <2>1, <4>1 DEF IInv, DownAlone
      <4> QED
        BY <1>2, <2>1, <4>1, <4>2, OneWriter DEF OrderInv
    <3> QED
      BY <3>1, <3>2, <3>3, StepKinds
  <2> QED
    BY <1>0, <2>1, <2>2, <2>3 DEF Recorded
<1> QED
  BY <1>1, <1>2

LEMMA TakesBackKept ==
    ASSUME IInv, IInv', OrderInv, NEW r \in Runs, Step(r)
    PROVE  TakesBackNewest'
<1>0. /\ date \in [Names -> Nat] /\ at[r] \in Int /\ Recorded \subseteq Names
      /\ todo \in [Runs -> SUBSET Names] /\ pc \in [Runs -> PCs]
      /\ \A o \in Running : cmd[o] = "down" => Running = {o} /\ todo[o] \subseteq Recorded
  BY DEF IInv, TypeOK, Recorded, DownAlone
<1> DEFINE Backwards(o) ==
             /\ \A m \in todo[o], k \in Recorded \ todo[o] :
                   date[k] < date[m] \/ (Undoing(o) /\ k = at[o])
             /\ Undoing(o) /\ at[o] \in Recorded
                => \A k \in Recorded : date[k] <= date[at[o]]
             /\ ~rollsBack /\ pc[o] = "commit" => at[o] \notin Recorded
<1>1. \A o \in Running : cmd[o] = "down" => Backwards(o)
  BY DEF OrderInv, TakesBackNewest
<1> SUFFICES ASSUME NEW o \in Running', cmd'[o] = "down"
             PROVE  Backwards(o)'
  BY DEF TakesBackNewest
<1>2. CASE o # r
  <2>1. /\ o \in Running /\ cmd[o] = "down" /\ pc'[o] = pc[o] /\ at'[o] = at[o]
        /\ todo'[o] = todo[o]
    BY <1>2, OthersKept DEF Running
  <2>2. r \notin Running
    BY <1>0, <1>2, <2>1
  <2>3. UNCHANGED <<date, rollsBack>>
    BY <2>2, StepKinds, RowsTouched, RowsUntouched
  <2> QED
    BY <1>1, <2>1, <2>3 DEF Undoing, Recorded
<1>3. CASE o = r
  <2>1. CASE \E list \in SUBSET Names, command \in {"up", "down"}, n \in 1 .. MaxSteps :
                Start(r, command, list, n)
    <3>1. pc'[r] = "prepare" /\ todo'[r] = {}
      BY <2>1 DEF Start, IInv, TypeOK, DownAlone
    <3> QED
      BY <1>3, <3>1 DEF Undoing
  <2>2. CASE PrepareDown(r)
    <3>1. /\ pc[r] = "prepare" /\ UNCHANGED <<todo, date, cmd>>
          /\ ~ Undoing(r)' /\ pc'[r] # "commit" /\ r \in Running
      BY <2>2 DEF PrepareDown, IInv, TypeOK, Undoing, Running
    <3> QED
      BY <1>1, <1>3, <3>1 DEF Undoing, Recorded
  <2>3. CASE List(r)
    <3>1. PICK rows \in SUBSET Names : Newest(rows, steps[r]) /\ todo' = [todo EXCEPT ![r] = rows]
      BY <2>3 DEF List
    <3>2. todo'[r] = rows /\ date' = date /\ ~ Undoing(r)' /\ pc'[r] # "commit"
      BY <1>0, <2>3, <3>1 DEF List, Undoing
    <3>3. \A m \in rows, k \in Recorded \ rows : date[k] < date[m]
      BY <1>0, <3>1 DEF Newest
    <3> QED
      BY <1>3, <3>2, <3>3 DEF Recorded
  <2>4. CASE NextDown(r)
    <3>1. PICK m \in todo[r] : /\ \A k \in todo[r] : date[k] <= date[m]
                               /\ at' = [at EXCEPT ![r] = m]
                               /\ todo' = [todo EXCEPT ![r] = todo[r] \ {m}]
                               /\ Goto(r, IF m \in build[r] THEN "begin" ELSE "failed")
      BY <2>4 DEF NextDown
    <3>2. /\ at'[r] = m /\ todo'[r] = todo[r] \ {m} /\ date' = date
          /\ pc[r] = "next" /\ cmd[r] = "down" /\ r \in Running
          /\ pc'[r] # "commit" /\ (pc'[r] = "begin" \/ pc'[r] \in Ended)
      BY <1>0, <2>4, <3>1 DEF NextDown, IInv, TypeOK, Running
    <3>3. Undoing(r)' /\ ~ Undoing(r)
      BY <1>3, <3>2 DEF Undoing, Running
    <3>4. \A n \in todo[r], k \in Recorded \ todo[r] : date[k] < date[n]
      BY <1>1, <3>2, <3>3
    <3>5. todo[r] \subseteq Recorded
      BY <1>0, <3>2
    <3>6. \A k \in Recorded : date[k] <= date[m]
      BY <1>0, <3>1, <3>4, <3>5
    <3> QED
      BY <1>3, <3>2, <3>3, <3>4, <3>6 DEF Recorded
  <2>5. CASE Begin(r) \/ Statement(r)
    <3>1. /\ UNCHANGED <<todo, date, cmd, at>> /\ Undoing(r) /\ Undoing(r)'
          /\ pc'[r] # "commit" /\ r \in Running
      BY <2>5 DEF Begin, Statement, Undoing, Running, IInv, TypeOK
    <3> QED
      BY <1>1, <1>3, <3>1 DEF Recorded
  <2>6. CASE Record(r)
    <3>1. /\ UNCHANGED <<todo, cmd, at, rollsBack>> /\ Undoing(r) /\ Undoing(r)'
          /\ r \in Running /\ cmd[r] = "down" /\ pc[r] # "commit" /\ at[r] \in Names
      BY <1>3, <2>6 DEF Record, Undoing, Running, IInv, TypeOK, Transactions
    <3>2. CASE rollsBack
      <4>1. date' = date
        BY <2>6, <3>2 DEF Record
      <4> QED
        BY <1>1, <1>3, <3>1, <3>2, <4>1 DEF Recorded
    <3>3. CASE ~rollsBack
      <4>1. date' = [date EXCEPT ![at[r]] = 0]
        BY <2>6, <3>1, <3>3 DEF Record, Remove
      <4>2. /\ at[r] \notin Recorded' /\ Recorded' \subseteq Recorded
            /\ \A k \in Names : k # at[r] => date'[k] = date[k]
        BY <1>0, <3>1, <4>1 DEF Recorded
      <4>3. at[r] \notin todo[r]
        BY <3>1 DEF IInv, DownAlone, Undoing
      <4> QED
        BY <1>0, <1>1, <1>3, <3>1, <4>2, <4>3
    <3> QED
      BY <3>2, <3>3
  <2>7. CASE Commit(r)
    <3>1. /\ UNCHANGED <<todo, cmd, at, rollsBack>> /\ ~ Undoing(r)' /\ pc'[r] = "next"
          /\ r \in Running /\ cmd[r] = "down" /\ at[r] \in Names /\ pc[r] = "commit"
          /\ TakeEffect(r)
      BY <1>3, <2>7 DEF Commit, Undoing, Running, IInv, TypeOK, Transactions
    <3>2. /\ at[r] \notin Recorded' /\ Recorded' \subseteq Recorded
          /\ \A k \in Names : k # at[r] => date'[k] = date[k]
      <4>1. CASE r \in open
        BY <1>0, <3>1, <4>1 DEF TakeEffect, Remove, Recorded
      <4>2. CASE r \notin open
        BY <1>1, <3>1, <4>2 DEF TakeEffect, Recorded, IInv, Transactions
      <4> QED
        BY <4>1, <4>2
    <3>3. at[r] \notin todo[r]
      BY <3>1 DEF IInv, DownAlone
    <3> QED
      BY <1>0, <1>1, <1>3, <3>1, <3>2, <3>3
  <2> QED
    BY ZenonT(30), <1>3, <2>1, <2>2, <2>3, <2>4, <2>5, <2>6, <2>7, Ranges
       DEF Step, PrepareUp, NextUp, Finish, Check, CommitUnheard, Fail, Crash,
           ServerRollsBack, IInv, TypeOK, Transactions, Running
<1> QED
  BY <1>2, <1>3

LEMMA NextOrder == IInv /\ IInv' /\ Passed /\ OrderInv /\ [Next]_vars => OrderInv'
<1>1. ASSUME OrderInv, UNCHANGED vars PROVE OrderInv'
  BY <1>1 DEF vars, OrderInv, OneList, Dated, WrittenLast, TakesBackNewest, Running,
     Recorded, Undoing
<1>2. ASSUME IInv, IInv', Passed, OrderInv, NEW r \in Runs, Step(r) PROVE OrderInv'
  BY <1>2, OneListKept, DatedKept, WrittenLastKept, TakesBackKept DEF OrderInv
<1> QED
  BY <1>1, <1>2 DEF Next

(***************************************************************************)
(* Dates are in the order of the commits, and whatever a down is about to  *)
(* take back is dated last.                                                *)
(***************************************************************************)
THEOREM OrderStays == Spec => []OrderInv
BY Invariant, PassedStays, InitOrder, NextOrder, PTL DEF Spec

(***************************************************************************)
(* What is taken back is always the migration that was applied last, over  *)
(* builds that list different migrations and downs that stop half-way.     *)
(***************************************************************************)
THEOREM TakenBackNewestFirst == Spec => NewestFirst
<1>1. ASSUME IInv, OrderInv, [Next]_vars, NEW m \in Recorded \ Recorded', NEW k \in Recorded
      PROVE  applied[k] <= applied[m]
  <2>1. PICK r \in Runs : Step(r)
    BY <1>1 DEF Next, vars, Recorded
  <2>2. Record(r) \/ Commit(r) \/ CommitUnheard(r)
    BY <1>1, <2>1, StepKinds, RowsUntouched
  <2>3. /\ r \in Running /\ m = at[r] /\ cmd[r] = "down" /\ Undoing(r)
    BY <1>1, <2>2, RowsTouched
       DEF Recorded, IInv, TypeOK, Undoing, Record, Commit, CommitUnheard
  <2>4. date[k] <= date[m]
    BY <1>1, <2>3 DEF OrderInv, TakesBackNewest
  <2> QED
    BY <1>1, <2>4 DEF OrderInv, Dated
<1>2. IInv /\ OrderInv /\ [Next]_vars
      => [\A m \in Recorded \ Recorded' : \A k \in Recorded : applied[k] <= applied[m]]_vars
  BY <1>1
<1> QED
  BY <1>2, Invariant, OrderStays, PTL DEF Spec, NewestFirst
=============================================================================
