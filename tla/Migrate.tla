------------------------------- MODULE Migrate -------------------------------
(***************************************************************************)
(* db:migrate up and down (command/db/migrate.go) and db:seed              *)
(* (command/db/seed.go, which is an up on an engine that rolls back).      *)
(*                                                                         *)
(* A migration is a number of statements; its name is a row of the table   *)
(* `migrations`, dated when it was recorded.  `up` goes through the list   *)
(* its build registers, in order, and runs what has no row; the statements *)
(* and the row are one transaction.  `down` reads the newest rows and      *)
(* undoes them, again one transaction each.  On MySQL every DDL statement  *)
(* commits by itself, and so does the row after it.                        *)
(*                                                                         *)
(* A run is one process.  It may fail or die anywhere, a COMMIT may take   *)
(* effect although its answer is lost, and the server notices later that a *)
(* client is gone.  Runs may overlap when a job is retried while its first *)
(* attempt is still busy: these are ups of one build.  A down is started   *)
(* by hand, when nothing runs (docs/DEPLOYMENT.md, resource_group).        *)
(***************************************************************************)
EXTENDS Integers, FiniteSets

CONSTANTS
    Runs,      \* processes
    Last,      \* the migrations are 1 .. Last, in the order of the lists
    Parts,     \* statements of a migration
    MaxSteps,  \* bound: the largest --steps
    MaxFaults  \* bound: failures and crashes

ASSUME LastAssumption == Last \in Nat \ {0}
ASSUME PartsAssumption == Parts \in Nat \ {0}
ASSUME StepsAssumption == MaxSteps \in Nat \ {0}
ASSUME FaultsAssumption == MaxFaults \in Nat

Names == 1 .. Last
Part == 1 .. Parts

VARIABLES
    rollsBack, \* whether the engine rolls DDL back; never changes
    table,     \* whether the table `migrations` exists
    date,      \* date[m]: the Date of m's row, 0 without a row
    effect,    \* effect[m][k]: how often statement k of m is in effect
    clock,     \* the last Date handed out
    commits,   \* how many rows have been committed
    applied,   \* applied[m]: m's row was the how manieth of them
    pc,        \* where a run is
    cmd,       \* "up" or "down"
    build,     \* the migrations a run's binary registers
    steps,     \* --steps of a down
    todo,      \* the rows a down has read and not dealt with
    at,        \* the migration a run is at, 0 before the first
    done,      \* statements of it that a run has executed
    open,      \* runs whose transaction the server holds open
    written,   \* written[r]: the Date of the row r has written in it, or 1 if r
               \* has deleted the row; 0 before that
    faults

database == <<table, date, effect, commits, applied>>
session == <<open, written>>
program == <<pc, cmd, build, steps, todo, at, done>>
vars == <<rollsBack, database, clock, program, session, faults>>

Ended == {"ok", "failed", "dead"}
PCs == {"new", "prepare", "list", "next", "check", "begin", "run", "record",
        "commit"} \cup Ended

TypeOK ==
    /\ rollsBack \in BOOLEAN /\ table \in BOOLEAN
    /\ date \in [Names -> Nat] /\ clock \in Nat
    /\ effect \in [Names -> [Part -> Nat]]
    /\ commits \in Nat /\ applied \in [Names -> Nat]
    /\ pc \in [Runs -> PCs]
    /\ cmd \in [Runs -> {"up", "down"}]
    /\ build \in [Runs -> SUBSET Names]
    /\ steps \in [Runs -> 1 .. MaxSteps]
    /\ todo \in [Runs -> SUBSET Names]
    /\ at \in [Runs -> 0 .. Last]
    /\ done \in [Runs -> 0 .. Parts]
    /\ open \subseteq Runs /\ written \in [Runs -> Nat]
    /\ faults \in 0 .. MaxFaults

Init ==
    /\ rollsBack \in BOOLEAN /\ table = FALSE
    /\ date = [m \in Names |-> 0] /\ clock = 0
    /\ effect = [m \in Names |-> [k \in Part |-> 0]]
    /\ commits = 0 /\ applied = [m \in Names |-> 0]
    /\ pc = [r \in Runs |-> "new"] /\ cmd = [r \in Runs |-> "up"]
    /\ build = [r \in Runs |-> {}] /\ steps = [r \in Runs |-> 1]
    /\ todo = [r \in Runs |-> {}] /\ at = [r \in Runs |-> 0]
    /\ done = [r \in Runs |-> 0]
    /\ open = {} /\ written = [r \in Runs |-> 0]
    /\ faults = 0

-----------------------------------------------------------------------------
Recorded == {m \in Names : date[m] # 0}
Running == {r \in Runs : pc[r] \notin {"new"} \cup Ended}
Goto(r, where) == pc' = [pc EXCEPT ![r] = where]
Fault == faults < MaxFaults /\ faults' = faults + 1

\* The transaction of r, if it has one, is over.
Close(r) == open' = open \ {r} /\ written' = [written EXCEPT ![r] = 0]

\* What another open transaction has done to the row of m makes r wait.
RowLocked(r, m) == \E o \in open \ {r} : at[o] = m /\ written[o] # 0

\* up: what is left of r's list.
Behind(r) == {m \in build[r] : m > at[r]}

-----------------------------------------------------------------------------
\* A process starts: the ups of one build may overlap, a down is alone.
Start(r, command, list, n) ==
    /\ pc[r] = "new"
    /\ \A o \in Running : command = "up" /\ cmd[o] = "up" /\ build[o] = list
    /\ Goto(r, "prepare")
    /\ cmd' = [cmd EXCEPT ![r] = command]
    /\ build' = [build EXCEPT ![r] = list]
    /\ steps' = [steps EXCEPT ![r] = n]
    /\ UNCHANGED <<rollsBack, database, clock, todo, at, done, session, faults>>

\* The table is created by up, only when there is something to record in it.
PrepareUp(r) ==
    /\ pc[r] = "prepare" /\ cmd[r] = "up"
    /\ table' = (table \/ build[r] # {})
    /\ Goto(r, "next")
    /\ UNCHANGED <<rollsBack, date, effect, commits, applied, clock, cmd, build,
                   steps, todo, at, done, session, faults>>

PrepareDown(r) ==
    /\ pc[r] = "prepare" /\ cmd[r] = "down"
    /\ Goto(r, IF build[r] = {} \/ ~table THEN "ok" ELSE "list")
    /\ UNCHANGED <<rollsBack, database, clock, cmd, build, steps, todo, at,
                   done, session, faults>>

\* The n newest rows.
Newest(rows, n) ==
    /\ rows \subseteq Recorded
    /\ Cardinality(rows) <= n
    /\ Cardinality(rows) < n => rows = Recorded
    /\ \A m \in rows, k \in Recorded \ rows : date[m] > date[k]

List(r) ==
    /\ pc[r] = "list"
    /\ \E rows \in SUBSET Names :
          Newest(rows, steps[r]) /\ todo' = [todo EXCEPT ![r] = rows]
    /\ Goto(r, "next")
    /\ UNCHANGED <<rollsBack, database, clock, cmd, build, steps, at, done,
                   session, faults>>

\* Fault: the list has become a map, and loses its order.
NextUpUnordered(r) ==
    /\ pc[r] = "next" /\ cmd[r] = "up"
    /\ \E m \in build[r] \ Recorded : at' = [at EXCEPT ![r] = m]
    /\ Goto(r, "check")
    /\ UNCHANGED <<rollsBack, database, clock, cmd, build, steps, todo, done,
                   session, faults>>

\* up comes to the next migration of its list.
NextUp(r) ==
    /\ pc[r] = "next" /\ cmd[r] = "up"
    /\ \E m \in Behind(r) :
          (\A k \in Behind(r) : m <= k) /\ at' = [at EXCEPT ![r] = m]
    /\ Goto(r, "check")
    /\ UNCHANGED <<rollsBack, database, clock, cmd, build, steps, todo, done,
                   session, faults>>

\* Fault: the rows are taken back oldest first.
NextDownOldest(r) ==
    /\ pc[r] = "next" /\ cmd[r] = "down"
    /\ \E m \in todo[r] :
          /\ \A k \in todo[r] : date[m] <= date[k]
          /\ at' = [at EXCEPT ![r] = m]
          /\ todo' = [todo EXCEPT ![r] = @ \ {m}]
          /\ Goto(r, IF m \in build[r] THEN "begin" ELSE "failed")
    /\ UNCHANGED <<rollsBack, database, clock, cmd, build, steps, done,
                   session, faults>>

\* down comes to the newest row left, and refuses one it does not know.
NextDown(r) ==
    /\ pc[r] = "next" /\ cmd[r] = "down"
    /\ \E m \in todo[r] :
          /\ \A k \in todo[r] : date[k] <= date[m]
          /\ at' = [at EXCEPT ![r] = m]
          /\ todo' = [todo EXCEPT ![r] = @ \ {m}]
          /\ Goto(r, IF m \in build[r] THEN "begin" ELSE "failed")
    /\ UNCHANGED <<rollsBack, database, clock, cmd, build, steps, done,
                   session, faults>>

Finish(r) ==
    /\ pc[r] = "next"
    /\ IF cmd[r] = "up" THEN Behind(r) = {} ELSE todo[r] = {}
    /\ Goto(r, "ok")
    /\ UNCHANGED <<rollsBack, database, clock, cmd, build, steps, todo, at,
                   done, session, faults>>

\* A recorded migration is skipped.
Check(r) ==
    /\ pc[r] = "check"
    /\ Goto(r, IF at[r] \in Recorded THEN "next" ELSE "begin")
    /\ UNCHANGED <<rollsBack, database, clock, cmd, build, steps, todo, at,
                   done, session, faults>>

Begin(r) ==
    /\ pc[r] = "begin"
    /\ open' = IF rollsBack THEN open \cup {r} ELSE open
    /\ done' = [done EXCEPT ![r] = 0]
    /\ Goto(r, "run")
    /\ UNCHANGED <<rollsBack, database, clock, cmd, build, steps, todo, at,
                   written, faults>>

\* The statement that comes next: Down undoes from the last one on.
Following(r) == IF cmd[r] = "up" THEN done[r] + 1 ELSE Parts - done[r]

\* Fault: a statement that fails is passed over.
StatementPassedOver(r) ==
    /\ pc[r] = "run" /\ done[r] < Parts
    /\ \/ rollsBack /\ UNCHANGED effect
       \/ ~rollsBack /\ \E v \in {effect[at[r]][Following(r)],
                                  IF cmd[r] = "up" THEN 1 ELSE 0} :
             effect' = [effect EXCEPT ![at[r]][Following(r)] = v]
    /\ done' = [done EXCEPT ![r] = @ + 1]
    /\ Goto(r, IF done[r] + 1 = Parts THEN "record" ELSE "run")
    /\ UNCHANGED <<rollsBack, table, date, commits, applied, clock, cmd, build,
                   steps, todo, at, session, faults>>

\* One statement of Up or Down.  Where DDL commits by itself it is in effect
\* at once; creating what exists or dropping what does not changes nothing
\* (IF EXISTS), or fails, see Fail.
Statement(r) ==
    /\ pc[r] = "run" /\ done[r] < Parts
    /\ effect' = IF rollsBack THEN effect
                 ELSE [effect EXCEPT ![at[r]][Following(r)] =
                                        IF cmd[r] = "up" THEN 1 ELSE 0]
    /\ done' = [done EXCEPT ![r] = @ + 1]
    /\ Goto(r, IF done[r] + 1 = Parts THEN "record" ELSE "run")
    /\ UNCHANGED <<rollsBack, table, date, commits, applied, clock, cmd, build,
                   steps, todo, at, session, faults>>

\* Writing the row of m with Date d into the table, and taking it out.
Enter(m, d) ==
    /\ date' = [date EXCEPT ![m] = d]
    /\ commits' = commits + 1
    /\ applied' = [applied EXCEPT ![m] = commits + 1]

Remove(m) ==
    /\ date' = [date EXCEPT ![m] = 0]
    /\ UNCHANGED <<commits, applied>>

\* Fault: the row is written on the pool instead of the transaction.
RecordOnPool(r) ==
    /\ pc[r] = "record"
    /\ cmd[r] = "up" => at[r] \notin Recorded
    /\ clock' = IF cmd[r] = "up" THEN clock + 1 ELSE clock
    /\ IF cmd[r] = "up" THEN Enter(at[r], clock') ELSE Remove(at[r])
    /\ Goto(r, "commit")
    /\ UNCHANGED <<rollsBack, table, effect, cmd, build, steps, todo, at, done,
                   session, faults>>

\* The row is written or deleted.  The name is unique: a row that is already
\* there makes the insert fail, see Fail; one that another transaction is
\* writing makes it wait.
Record(r) ==
    /\ pc[r] = "record"
    /\ ~RowLocked(r, at[r])
    /\ cmd[r] = "up" => at[r] \notin Recorded
    /\ clock' = IF cmd[r] = "up" THEN clock + 1 ELSE clock
    /\ IF rollsBack
       THEN /\ written' = [written EXCEPT ![r] = IF cmd[r] = "up" THEN clock' ELSE 1]
            /\ UNCHANGED <<date, commits, applied>>
       ELSE /\ IF cmd[r] = "up" THEN Enter(at[r], clock') ELSE Remove(at[r])
            /\ UNCHANGED written
    /\ Goto(r, "commit")
    /\ UNCHANGED <<rollsBack, table, effect, cmd, build, steps, todo, at, done,
                   open, faults>>

\* What the COMMIT of r brings into effect: its statements and its row.
TakeEffect(r) ==
    IF r \in open
    THEN /\ effect' = [effect EXCEPT ![at[r]] =
              [k \in Part |-> IF cmd[r] = "up" THEN @[k] + 1 ELSE @[k] - 1]]
         /\ IF cmd[r] = "up" THEN Enter(at[r], written[r]) ELSE Remove(at[r])
         /\ Close(r)
    ELSE UNCHANGED <<effect, date, commits, applied, session>>

Commit(r) ==
    /\ pc[r] = "commit"
    /\ TakeEffect(r)
    /\ Goto(r, "next")
    /\ UNCHANGED <<rollsBack, table, clock, cmd, build, steps, todo, at, done,
                   faults>>

\* The COMMIT is executed, but the process does not learn of it or dies.
CommitUnheard(r) ==
    /\ pc[r] = "commit" /\ Fault
    /\ TakeEffect(r)
    /\ \E how \in {"failed", "dead"} : Goto(r, how)
    /\ UNCHANGED <<rollsBack, table, clock, cmd, build, steps, todo, at, done>>

\* Fault: the run goes on with the next migration.
FailAndGoOn(r) ==
    /\ pc[r] \in {"prepare", "list", "check", "begin", "run", "record", "commit"}
    /\ \/ Fault
       \/ /\ pc[r] = "record" /\ cmd[r] = "up" /\ at[r] \in Recorded
          /\ UNCHANGED faults
    /\ Goto(r, "next")
    /\ Close(r)
    /\ UNCHANGED <<rollsBack, database, clock, cmd, build, steps, todo, at,
                   done>>

\* Any statement fails, or the COMMIT does: the transaction is rolled back
\* and the run is over, with exit code 1.
Fail(r) ==
    /\ pc[r] \in {"prepare", "list", "check", "begin", "run", "record", "commit"}
    /\ \/ Fault
       \/ /\ pc[r] = "record" /\ cmd[r] = "up" /\ at[r] \in Recorded
          /\ UNCHANGED faults
    /\ Goto(r, "failed")
    /\ Close(r)
    /\ UNCHANGED <<rollsBack, database, clock, cmd, build, steps, todo, at,
                   done>>

\* The process dies; its transaction stays open until the server notices.
Crash(r) ==
    /\ r \in Running /\ Fault
    /\ Goto(r, "dead")
    /\ UNCHANGED <<rollsBack, database, clock, cmd, build, steps, todo, at, done,
                   session>>

ServerRollsBack(r) ==
    /\ pc[r] = "dead" /\ r \in open
    /\ Close(r)
    /\ UNCHANGED <<rollsBack, database, clock, program, faults>>

-----------------------------------------------------------------------------
Step(r) ==
    \/ \E list \in SUBSET Names :
          \/ Start(r, "up", list, 1)
          \/ \E n \in 1 .. MaxSteps : Start(r, "down", list, n)
    \/ PrepareUp(r) \/ PrepareDown(r) \/ List(r)
    \/ NextUp(r) \/ NextDown(r) \/ Finish(r) \/ Check(r)
    \/ Begin(r) \/ Statement(r) \/ Record(r) \/ Commit(r)
    \/ CommitUnheard(r) \/ Fail(r) \/ Crash(r) \/ ServerRollsBack(r)

Next == \E r \in Runs : Step(r)

Spec == Init /\ [][Next]_vars

-----------------------------------------------------------------------------
(***************************************************************************)
(* Where the engine rolls back, a migration is recorded exactly when each  *)
(* of its statements is in effect, once: no failure, crash, lost answer or *)
(* overlapping run makes the table and the schema disagree, or runs a      *)
(* migration twice (applyMigration, down).                                 *)
(***************************************************************************)
InEffect(m, n) == \A k \in Part : effect[m][k] = n

BooksMatchSchema ==
    rollsBack => \A m \in Names : InEffect(m, IF m \in Recorded THEN 1 ELSE 0)

(***************************************************************************)
(* Where DDL commits by itself, the two disagree about a migration only    *)
(* while a run is in the middle of it, or when one has ended there: a run  *)
(* that gets past a migration leaves it whole and recorded, or gone and    *)
(* not recorded, whatever earlier runs have left behind (applyMigration).  *)
(***************************************************************************)
InTheMiddle(r) == done[r] > 0 /\ pc[r] \in {"run", "record", "failed", "dead"}

TornOnlyByFailure ==
    \A m \in Names :
        \/ InEffect(m, IF m \in Recorded THEN 1 ELSE 0)
        \/ \E r \in Runs : at[r] = m /\ InTheMiddle(r)

(***************************************************************************)
(* A migration is recorded only when all that the build lists ahead of it  *)
(* are, although failures, crashes and downs may have come between and     *)
(* several runs work on the list (applyPending).                           *)
(***************************************************************************)
InListOrder ==
    [][\A m \in Recorded' \ Recorded :
          \E r \in Runs : /\ at[r] = m /\ cmd[r] = "up"
                          /\ {k \in build[r] : k < m} \subseteq Recorded]_vars

(***************************************************************************)
(* An up that ends with exit code 0 leaves everything its build lists      *)
(* recorded, by itself or by another run.                                  *)
(***************************************************************************)
OkMeansDone ==
    [][\A r \in Runs : pc[r] # "ok" /\ pc'[r] = "ok" /\ cmd[r] = "up"
          => build[r] \subseteq Recorded']_vars

(***************************************************************************)
(* What is taken back is always the migration that was applied last, over  *)
(* builds that list different migrations and downs that stop half-way.     *)
(***************************************************************************)
NewestFirst ==
    [][\A m \in Recorded \ Recorded' :
          \A k \in Recorded : applied[k] <= applied[m]]_vars
=============================================================================
