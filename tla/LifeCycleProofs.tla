-------------------------- MODULE LifeCycleProofs --------------------------
(***************************************************************************)
(* Proofs about the two ends of a process: how its datasources are opened, *)
(* and how it stops.                                                       *)
(*                                                                         *)
(* Shutdown.  For any number of requests, jobs, runs, subscribers and      *)
(* callers: what Shutdown promises of the datasources, the exit status,    *)
(* the WaitGroups and overlapping runs.  The argument is an order: nothing *)
(* can start a request once the drain has begun; without an error, no      *)
(* request is left when the scheduler stops, nothing is left of the        *)
(* scheduler when the event bus is waited for, and then nobody is left to  *)
(* publish but the subscribers themselves, each of which is counted for as *)
(* long as it runs.                                                        *)
(*                                                                         *)
(* The datasources.  For any configuration files, drivers and sign-in      *)
(* methods: a datasource is what its configuration says                    *)
(* (ConfiguredAsWritten).  The argument follows a key: it is decoded or    *)
(* refused (Parsed), every check of its engine has answered "fine" of the  *)
(* configuration (PostgresFine, MysqlFine, ServerFine), what is opened is  *)
(* computed from that configuration alone (Accepted), and so the key is in *)
(* force (KeyInForce).  BootIInv carries Accepted from Configure to the    *)
(* registered connections.                                                 *)
(***************************************************************************)
EXTENDS Shutdown, DataSourceBoot, FiniteSetTheorems, WellFoundedInduction, SequenceTheorems, TLAPS

Live == {n \in Runs : run[n] # None}

\* The WaitGroups hold exactly what they wait for.
Counted ==
    /\ wg = Cardinality(loops) + Cardinality(Live)
    /\ waitGroup = Cardinality(handlers)

\* A job that may not overlap has its flag set while it runs.
Flagged ==
    \A n \in Runs :
        run[n] # None /\ run[n].pc = "running" /\ run[n].job \notin Overlapping
        => run[n].job \in running

\* What is over at each step of the drain, if nothing has failed so far.
Ordered ==
    /\ step # "none" => ~listening
    /\ stop = "returned" => loops = {} /\ Live = {}
    /\ step \in {"scheduler", "stopping", "bus", "waiting", "close"} /\ ~errs
       => requests = {}
    /\ step \in {"bus", "waiting", "close"} /\ ~errs => stop = "returned"
    /\ step \in {"none", "http", "scheduler", "stopping", "bus"} => wait = "none"
    /\ step \in {"waiting", "close"} /\ wait = "returned" /\ ~errs => handlers = {}
    /\ step = "close" /\ ~errs => wait = "returned"

\* What a closed datasource and a successful call rest on.
Concluded ==
    /\ datasources = "closed"
       => /\ step = "done" /\ stop = "returned"
          /\ requests = {} /\ handlers = {}
    /\ step = "done" /\ ~errs => datasources = "closed"
    /\ \A c \in Everyone : caller[c] = "ok" => datasources = "closed"

IInv ==
    /\ TypeOK
    /\ Counted
    /\ Flagged
    /\ NoOverlap
    /\ Ordered
    /\ Concluded
    /\ CleanExitDrained

-----------------------------------------------------------------------------
USE DEF IInv, scheduler, bus, waiters, drain, calls, process

\* Everything counted is finite.
LEMMA Finite ==
    ASSUME TypeOK
    PROVE  /\ IsFiniteSet(loops) /\ Cardinality(loops) \in Nat
           /\ IsFiniteSet(Live) /\ Cardinality(Live) \in Nat
           /\ IsFiniteSet(handlers) /\ Cardinality(handlers) \in Nat
<1>1. loops \subseteq Jobs /\ handlers \subseteq Handlers /\ Live \subseteq Runs
  BY DEF TypeOK, Live
<1>2. IsFiniteSet(loops) /\ IsFiniteSet(Live) /\ IsFiniteSet(handlers)
  BY <1>1, BoundsAssumption, FS_Subset
<1> QED
  BY <1>2, FS_CardinalityType

\* The scheduler's WaitGroup is zero only when nothing of it is left.
LEMMA ZeroIsOver ==
    ASSUME TypeOK, Counted
    PROVE  /\ wg = 0 => loops = {} /\ Live = {}
           /\ waitGroup = 0 => handlers = {}
BY Finite, FS_EmptySet DEF Counted

\* A dispatch adds one goroutine, its end removes one, its progress neither.
LEMMA LiveChanges ==
    ASSUME TypeOK, NEW n \in Runs, NEW r, run' = [run EXCEPT ![n] = r]
    PROVE  /\ r # None => Live' = Live \cup {n}
           /\ r = None => Live' = Live \ {n}
BY DEF TypeOK, Live

LEMMA InitIInv == Init => IInv
<1> SUFFICES ASSUME Init PROVE IInv
  OBVIOUS
<1>1. Live = {}
  BY DEF Init, Live
<1>2. Counted
  BY <1>1, BoundsAssumption, FS_EmptySet, FS_CardinalityType DEF Init, Counted
<1>3. TypeOK
  BY BoundsAssumption, SubsetsAssumption, FS_CardinalityType
     DEF Init, TypeOK, Everyone
<1> QED
  BY <1>1, <1>2, <1>3, NoneAssumption
     DEF Init, Flagged, NoOverlap, Ordered, Concluded, CleanExitDrained

LEMMA WorkStep == IInv /\ exit = None /\ Work => IInv'
<1> SUFFICES ASSUME IInv, exit = None, Work PROVE IInv'
  OBVIOUS
<1> USE NoneAssumption, SubsetsAssumption
<1>1. ASSUME NEW r \in Requests, Accept(r) PROVE IInv'
  BY <1>1 DEF Accept, TypeOK, Counted, Flagged, NoOverlap, Ordered,
     Concluded, CleanExitDrained, AtWork, Live, Everyone, Run
<1>2. ASSUME NEW r \in Requests, Respond(r) PROVE IInv'
  BY <1>2 DEF Respond, TypeOK, Counted, Flagged, NoOverlap, Ordered,
     Concluded, CleanExitDrained, AtWork, Live, Everyone, Run
<1>3. ASSUME NEW h \in Handlers, Publish(h) PROVE IInv'
  <2>1. Counted'
    <3>1. Cardinality(handlers \cup {h}) = Cardinality(handlers) + 1
      BY <1>3, Finite, FS_AddElement DEF Publish
    <3> QED BY <1>3, <3>1 DEF Publish, Counted, Live
  <2>2. requests # {} \/ handlers # {} \/ Live # {}
    BY <1>3 DEF Publish, Live
  <2>3. Ordered' /\ Concluded'
    BY <1>3, <2>2 DEF Publish, Ordered, Concluded, Live
  <2> QED BY <1>3, <2>1, <2>3 DEF Publish, TypeOK, Flagged, NoOverlap, CleanExitDrained, Run
<1>4. ASSUME NEW h \in Handlers, Handled(h) PROVE IInv'
  <2>1. /\ Cardinality(handlers \ {h}) = Cardinality(handlers) - 1
        /\ Cardinality(handlers \ {h}) \in Nat
    BY <1>4, Finite, FS_RemoveElement, FS_CardinalityType DEF Handled
  <2>2. Counted' /\ waitGroup' \in Nat
    BY <1>4, <2>1 DEF Handled, Counted, Live
  <2>3. Ordered' /\ Concluded'
    BY <1>4 DEF Handled, Ordered, Concluded, Live
  <2> QED BY <1>4, <2>2, <2>3 DEF Handled, TypeOK, Flagged, NoOverlap, CleanExitDrained, Run
<1>5. ASSUME NEW j \in Jobs, NEW n \in Runs, Dispatch(j, n) PROVE IInv'
  <2> DEFINE r == [job |-> j, pc |-> "dispatched"]
  <2>1. r \in Run /\ r # None
    BY DEF Run
  <2>2. Live' = Live \cup {n} /\ n \notin Live
    <3>1. run' = [run EXCEPT ![n] = r] /\ run[n] = None
      BY <1>5 DEF Dispatch
    <3>2. Live' = Live \cup {n}
      BY <2>1, <3>1, LiveChanges
    <3> QED BY <3>1, <3>2 DEF Live
  <2>3. Counted'
    <3>1. Cardinality(Live') = Cardinality(Live) + 1
      BY <2>2, Finite, FS_AddElement
    <3> QED BY <1>5, <3>1, Finite DEF Dispatch, Counted
  <2>4. \A m \in Runs : run'[m] = IF m = n THEN r ELSE run[m]
    BY <1>5 DEF Dispatch, TypeOK
  <2>5. TypeOK'
    BY <1>5, <2>1 DEF Dispatch, TypeOK
  <2>6. Flagged' /\ NoOverlap'
    BY <1>5, <2>4 DEF Dispatch, Flagged, NoOverlap
  <2>7. Ordered' /\ Concluded'
    BY <1>5 DEF Dispatch, Ordered, Concluded
  <2> QED BY <1>5, <2>3, <2>5, <2>6, <2>7 DEF Dispatch, CleanExitDrained
<1>6. ASSUME NEW j \in Jobs, LoopEnds(j) PROVE IInv'
  <2>1. /\ Cardinality(loops \ {j}) = Cardinality(loops) - 1
        /\ Cardinality(loops \ {j}) \in Nat
    BY <1>6, Finite, FS_RemoveElement, FS_CardinalityType DEF LoopEnds
  <2>2. Counted' /\ wg' \in Nat
    BY <1>6, <2>1, Finite DEF LoopEnds, Counted, Live
  <2>3. Ordered' /\ Concluded'
    BY <1>6 DEF LoopEnds, Ordered, Concluded, Live
  <2> QED BY <1>6, <2>2, <2>3 DEF LoopEnds, TypeOK, Flagged, NoOverlap, CleanExitDrained, Run
<1>7. ASSUME NEW n \in Runs, Invoke(n) PROVE IInv'
  <2> DEFINE r == [run[n] EXCEPT !.pc = "running"]
  <2>1. r \in Run /\ r # None /\ r.job = run[n].job /\ r.pc = "running"
    BY <1>7 DEF Invoke, TypeOK, Run
  <2>2. run' = [run EXCEPT ![n] = r]
    BY <1>7 DEF Invoke
  <2>3. Live' = Live
    BY <1>7, <2>1, <2>2, LiveChanges DEF Invoke, Live
  <2>4. Counted'
    BY <1>7, <2>3 DEF Invoke, Counted
  <2>5. \A m \in Runs : run'[m] = IF m = n THEN r ELSE run[m]
    BY <2>2 DEF TypeOK
  <2>6. TypeOK'
    BY <1>7, <2>1, <2>2 DEF Invoke, TypeOK, Run
  <2>7. Flagged' /\ NoOverlap'
    BY <1>7, <2>1, <2>5 DEF Invoke, Flagged, NoOverlap
  <2>8. Ordered' /\ Concluded'
    BY <1>7, <2>3 DEF Invoke, Ordered, Concluded
  <2> QED BY <1>7, <2>4, <2>6, <2>7, <2>8 DEF Invoke, CleanExitDrained
<1>8. ASSUME NEW n \in Runs, Skip(n) PROVE IInv'
  <2> DEFINE r == [run[n] EXCEPT !.pc = "ended"]
  <2>1. r \in Run /\ r # None /\ r.job = run[n].job /\ r.pc = "ended"
    BY <1>8 DEF Skip, TypeOK, Run
  <2>2. run' = [run EXCEPT ![n] = r]
    BY <1>8 DEF Skip
  <2>3. Live' = Live
    BY <1>8, <2>1, <2>2, LiveChanges DEF Skip, Live
  <2>4. Counted'
    BY <1>8, <2>3 DEF Skip, Counted
  <2>5. \A m \in Runs : run'[m] = IF m = n THEN r ELSE run[m]
    BY <2>2 DEF TypeOK
  <2>6. TypeOK'
    BY <1>8, <2>1, <2>2 DEF Skip, TypeOK, Run
  <2>7. Flagged' /\ NoOverlap'
    BY <1>8, <2>1, <2>5 DEF Skip, Flagged, NoOverlap
  <2>8. Ordered' /\ Concluded'
    BY <1>8, <2>3 DEF Skip, Ordered, Concluded
  <2> QED BY <1>8, <2>4, <2>6, <2>7, <2>8 DEF Skip, CleanExitDrained
<1>9. ASSUME NEW n \in Runs, RunEnds(n) PROVE IInv'
  <2> DEFINE r == [run[n] EXCEPT !.pc = "ended"]
  <2>1. r \in Run /\ r # None /\ r.job = run[n].job /\ r.pc = "ended"
    BY <1>9 DEF RunEnds, TypeOK, Run
  <2>2. run' = [run EXCEPT ![n] = r]
    BY <1>9 DEF RunEnds
  <2>3. Live' = Live
    BY <1>9, <2>1, <2>2, LiveChanges DEF RunEnds, Live
  <2>4. Counted'
    BY <1>9, <2>3 DEF RunEnds, Counted
  <2>5. \A m \in Runs : run'[m] = IF m = n THEN r ELSE run[m]
    BY <2>2 DEF TypeOK
  <2>6. TypeOK'
    BY <1>9, <2>1, <2>2 DEF RunEnds, TypeOK, Run
  <2>7. Flagged' /\ NoOverlap'
    <3>1. ASSUME NEW k \in Runs, run'[k] # None, run'[k].pc = "running"
          PROVE  k # n /\ run'[k] = run[k]
      BY <2>1, <2>5, <3>1
    <3>2. ASSUME NEW k \in Runs, run'[k] # None, run'[k].pc = "running",
                 run'[k].job \notin Overlapping
          PROVE  run'[k].job \in running'
      <4>1. k # n /\ run[k] # None /\ run[k].pc = "running" /\ run'[k] = run[k]
        BY <3>1, <3>2
      <4>2. run[k].job # run[n].job
        BY <1>9, <3>2, <4>1 DEF RunEnds, NoOverlap
      <4>3. run[k].job \in running
        BY <3>2, <4>1 DEF Flagged
      <4> QED BY <1>9, <4>1, <4>2, <4>3 DEF RunEnds
    <3>3. Flagged'
      BY <3>2 DEF Flagged
    <3>4. NoOverlap'
      BY <3>1 DEF NoOverlap
    <3> QED BY <3>3, <3>4
  <2>8. Ordered' /\ Concluded'
    BY <1>9, <2>3 DEF RunEnds, Ordered, Concluded
  <2> QED BY <1>9, <2>4, <2>6, <2>7, <2>8 DEF RunEnds, CleanExitDrained
<1>10. ASSUME NEW n \in Runs, Done(n) PROVE IInv'
  <2>1. Live' = Live \ {n} /\ n \in Live
    BY <1>10, LiveChanges DEF Done, Live
  <2>2. Cardinality(Live') = Cardinality(Live) - 1 /\ Cardinality(Live') \in Nat
    BY <2>1, Finite, FS_RemoveElement, FS_CardinalityType
  <2>3. Counted' /\ wg' \in Nat
    BY <1>10, <2>2, Finite DEF Done, Counted
  <2>4. \A m \in Runs : run'[m] = IF m = n THEN None ELSE run[m]
    BY <1>10 DEF Done, TypeOK
  <2>5. TypeOK'
    BY <1>10, <2>3 DEF Done, TypeOK
  <2>6. Flagged' /\ NoOverlap'
    BY <1>10, <2>4 DEF Done, Flagged, NoOverlap
  <2>7. Ordered' /\ Concluded'
    BY <1>10, <2>1 DEF Done, Ordered, Concluded
  <2> QED BY <1>10, <2>3, <2>5, <2>6, <2>7 DEF Done, CleanExitDrained
<1> QED BY <1>1, <1>2, <1>3, <1>4, <1>5, <1>6, <1>7, <1>8, <1>9, <1>10 DEF Work

LEMMA DrainStep == IInv /\ exit = None /\ Drain => IInv'
<1> SUFFICES ASSUME IInv, exit = None, Drain PROVE IInv'
  OBVIOUS
<1> USE NoneAssumption, SubsetsAssumption
<1>1. ASSUME HttpDrained PROVE IInv'
  BY <1>1 DEF HttpDrained, TypeOK, Counted, Flagged, NoOverlap, Ordered,
     Concluded, CleanExitDrained, AtWork, Live, Everyone, Run
<1>2. ASSUME HttpGivesUp PROVE IInv'
  BY <1>2 DEF HttpGivesUp, TypeOK, Counted, Flagged, NoOverlap, Ordered,
     Concluded, CleanExitDrained, AtWork, Live, Everyone, Run
<1>3. ASSUME StartStop PROVE IInv'
  BY <1>3 DEF StartStop, TypeOK, Counted, Flagged, NoOverlap, Ordered,
     Concluded, CleanExitDrained, AtWork, Live, Everyone, Run
<1>4. ASSUME StopCancels PROVE IInv'
  BY <1>4 DEF StopCancels, TypeOK, Counted, Flagged, NoOverlap, Ordered,
     Concluded, CleanExitDrained, AtWork, Live, Everyone, Run
<1>5. ASSUME StopReturns PROVE IInv'
  BY <1>5, ZeroIsOver DEF StopReturns, TypeOK, Counted, Flagged, NoOverlap, Ordered,
     Concluded, CleanExitDrained, AtWork, Live, Everyone, Run
<1>6. ASSUME Stopped PROVE IInv'
  BY <1>6 DEF Stopped, TypeOK, Counted, Flagged, NoOverlap, Ordered,
     Concluded, CleanExitDrained, AtWork, Live, Everyone, Run
<1>7. ASSUME StartWait PROVE IInv'
  BY <1>7 DEF StartWait, TypeOK, Counted, Flagged, NoOverlap, Ordered,
     Concluded, CleanExitDrained, AtWork, Live, Everyone, Run
<1>8. ASSUME WaitReturns PROVE IInv'
  BY ZenonT(30), <1>8, ZeroIsOver DEF WaitReturns, TypeOK, Counted, Flagged, NoOverlap, Ordered,
     Concluded, CleanExitDrained, AtWork, Live, Everyone, Run
<1>9. ASSUME Waited PROVE IInv'
  BY ZenonT(30), <1>9 DEF Waited, TypeOK, Counted, Flagged, NoOverlap, Ordered,
     Concluded, CleanExitDrained, AtWork, Live, Everyone, Run
<1>10. ASSUME Close PROVE IInv'
  BY <1>10 DEF Close, TypeOK, Counted, Flagged, NoOverlap, Ordered,
     Concluded, CleanExitDrained, AtWork, Live, Everyone, Run
<1>11. ASSUME NEW c \in Callers, ApplicationShutdown(c) PROVE IInv'
  BY ZenonT(30), <1>11 DEF ApplicationShutdown, CallShutdown, TypeOK, Counted, Flagged, NoOverlap, Ordered,
     Concluded, CleanExitDrained, AtWork, Live, Everyone, Run
<1>12. ASSUME NEW c \in Everyone, Expire(c) PROVE IInv'
  BY <1>12 DEF Expire, TypeOK, Counted, Flagged, NoOverlap, Ordered,
     Concluded, CleanExitDrained, AtWork, Live, Everyone, Run
<1>13. ASSUME NEW c \in Everyone, Return(c) PROVE IInv'
  BY <1>13 DEF Return, TypeOK, Counted, Flagged, NoOverlap, Ordered,
     Concluded, CleanExitDrained, AtWork, Live, Everyone, Run
<1> QED BY <1>1, <1>2, <1>3, <1>4, <1>5, <1>6, <1>7, <1>8, <1>9, <1>10, <1>11, <1>12, <1>13 DEF Drain

LEMMA ProcessStep == IInv /\ exit = None /\ Process => IInv'
<1> SUFFICES ASSUME IInv, exit = None, Process PROVE IInv'
  OBVIOUS
<1> USE NoneAssumption, SubsetsAssumption
<1>1. ASSUME Signal PROVE IInv'
  BY <1>1 DEF Signal, TypeOK, Counted, Flagged, NoOverlap, Ordered,
     Concluded, CleanExitDrained, AtWork, Live, Everyone, Run
<1>2. ASSUME StopSeen PROVE IInv'
  BY ZenonT(30), <1>2 DEF StopSeen, CallShutdown, TypeOK, Counted, Flagged, NoOverlap, Ordered,
     Concluded, CleanExitDrained, AtWork, Live, Everyone, Run
<1>3. ASSUME ServeEnds PROVE IInv'
  BY ZenonT(30), <1>3 DEF ServeEnds, CallShutdown, TypeOK, Counted, Flagged, NoOverlap, Ordered,
     Concluded, CleanExitDrained, AtWork, Live, Everyone, Run
<1>4. ASSUME ServeFails PROVE IInv'
  BY <1>4 DEF ServeFails, TypeOK, Counted, Flagged, NoOverlap, Ordered,
     Concluded, CleanExitDrained, AtWork, Live, Everyone, Run
<1>5. ASSUME Exit PROVE IInv'
  BY <1>5 DEF Exit, TypeOK, Counted, Flagged, NoOverlap, Ordered,
     Concluded, CleanExitDrained, AtWork, Live, Everyone, Run
<1>6. ASSUME SecondSignal PROVE IInv'
  BY <1>6 DEF SecondSignal, TypeOK, Counted, Flagged, NoOverlap, Ordered,
     Concluded, CleanExitDrained, AtWork, Live, Everyone, Run
<1> QED BY <1>1, <1>2, <1>3, <1>4, <1>5, <1>6 DEF Process

LEMMA NextIInv == IInv /\ [Next]_vars => IInv'
<1> SUFFICES ASSUME IInv, [Next]_vars PROVE IInv'
  OBVIOUS
<1>1. CASE Next
  BY <1>1, WorkStep, DrainStep, ProcessStep DEF Next
<1>2. CASE UNCHANGED vars
  BY <1>2 DEF vars, TypeOK, Counted, Flagged, NoOverlap, Ordered, Concluded,
     CleanExitDrained, AtWork, Live, Everyone, Run
<1> QED BY <1>1, <1>2

\* The strengthening is an invariant of every behaviour.
THEOREM Inductive == Spec => []IInv
BY InitIInv, NextIInv, PTL DEF Spec

\* The drain, the WaitGroups and the calls of Shutdown keep their types; in
\* particular no WaitGroup is lowered below zero (which panics).
THEOREM TypeCorrect == Spec => []TypeOK
<1>1. IInv => TypeOK
  OBVIOUS
<1> QED BY <1>1, Inductive, PTL

\* The datasources close only on a quiet process, whatever deadlines pass.
THEOREM ClosedQuiet == Spec => []ClosedMeansQuiet
<1>1. IInv => ClosedMeansQuiet
  BY DEF Concluded, Ordered, ClosedMeansQuiet, AtWork, Live
<1> QED BY <1>1, Inductive, PTL

\* Exit status 0 is given only after a complete drain.
THEOREM ExitDrained == Spec => []CleanExitDrained
<1>1. IInv => CleanExitDrained
  OBVIOUS
<1> QED BY <1>1, Inductive, PTL

\* Overlap protection holds for any number of dispatched runs.
THEOREM OverlapFree == Spec => []NoOverlap
<1>1. IInv => NoOverlap
  OBVIOUS
<1> QED BY <1>1, Inductive, PTL

\* The WaitGroups are used as package sync requires.
THEOREM WaitGroupsSound == Spec => CountedBeforeWaited
<1> DEFINE A == /\ wg = 0 => wg' = 0
                /\ waitGroup = 0 /\ wait = "started" /\ ~errs => waitGroup' = 0
<1>1. IInv /\ Next => A
  <2> SUFFICES ASSUME IInv, Next PROVE A
    OBVIOUS
  <2>1. CASE Work
    <3>1. wg = 0 => wg' = 0
      BY <2>1, ZeroIsOver
         DEF Work, Accept, Respond, Publish, Handled, Dispatch, LoopEnds,
             Invoke, Skip, RunEnds, Done, Live
    <3>2. waitGroup = 0 /\ wait = "started" /\ ~errs
          => /\ requests = {} /\ handlers = {} /\ Live = {}
      BY ZeroIsOver DEF Ordered, Concluded, TypeOK
    <3>3. waitGroup = 0 /\ wait = "started" /\ ~errs => waitGroup' = 0
      BY <2>1, <3>2
         DEF Work, Accept, Respond, Publish, Handled, Dispatch, LoopEnds,
             Invoke, Skip, RunEnds, Done, Live
    <3> QED BY <3>1, <3>3
  <2>2. CASE Drain
    BY <2>2 DEF Drain, HttpDrained, HttpGivesUp, StartStop, StopCancels,
       StopReturns, Stopped, StartWait, WaitReturns, Waited, Close,
       ApplicationShutdown, CallShutdown, Expire, Return
  <2>3. CASE Process
    BY <2>3 DEF Process, Signal, StopSeen, ServeEnds, ServeFails, Exit,
       SecondSignal, CallShutdown
  <2> QED BY <2>1, <2>2, <2>3 DEF Next
<1>2. IInv /\ [Next]_vars => [A]_vars
  BY <1>1
<1> QED BY <1>2, Inductive, PTL DEF Spec, CountedBeforeWaited

---------------------------------------------------------------------------
(* The datasources.                                                        *)

\* The connection was made of the configuration it carries, which its engine accepts and which,
\* if it is of the file, is what the entry decodes to; only what it guards and reports, and that
\* it was dialed and is logged, came later.
Accepted(s) ==
    /\ s = [opening(s, s.c) EXCEPT !.guards = s.guards, !.reports = s.reports, !.logs = s.logs, !.dialed = s.dialed]
    /\ s.c.driver \in Engines3 => refusals(s.c) = "fine"
    /\ s.raw.type = "map" => Parse(s.raw.entries).ok /\ s.c = Parse(s.raw.entries).value
Guarded(s) == s.raw.type = "map" => flagsOf(s.c) \subseteq s.guards
\* What an engine of the framework has done with it when its constructor returns, and before.
Finished(s) == s.c.driver \in Engines3 /\ s.raw.type = "map" =>
                  (s.dialed <=> ~s.c.lazy_connect) /\ s.logs = s.c.log
Begun(s, stage) ==
    /\ stage \in {"policy", "register"} => Finished(s)
    /\ stage = "guard" => (s.dialed <=> s.c.driver # "sqlserver_gorm" /\ ~s.c.lazy_connect)
    /\ stage \in {"warmup", "ping"} => ~s.c.lazy_connect
\* The stages in which there is a datasource being made.
Holding == {"guard", "warmup", "ping", "policy", "register"}

AllEntries == UNION {{b.file[i] : i \in DOMAIN b.file} : b \in BootConfigs}
EntriesRead == dbFile \in Seq(AllEntries)
MakingAccepted ==
    /\ dbStage \in Holding => Accepted(making) /\ making.guards = making.reports /\ Begun(making, dbStage)
    /\ dbStage = "next" => making = NoSource
RegisteredGuarded == /\ dbStage = "register" => Guarded(making)
                     /\ \A n \in DOMAIN connected : Guarded(connected[n])
ConnectedAccepted ==
    \A n \in DOMAIN connected :
        IF dbStage = "closed" THEN connected[n].state = "closed" /\ connected[n].tokens # "live"
        ELSE Accepted(connected[n]) /\ Finished(connected[n])
\* What a datasource that was being made is when the boot stops with a fault of this place.
LeftBehind(s, at) == \/ s.state \in {"none", "closed"} /\ s.tokens # "live"
                     \/ at = "twice"
                     \/ at = "connect" /\ s.c.driver \in {"postgres_gorm", "mysql_gorm"}
RefusedClosed == dbStage = "panicked" => LeftBehind(making, dbFault.at)

BootIInv == /\ EntriesRead /\ MakingAccepted /\ RegisteredGuarded
            /\ ConnectedAccepted /\ RefusedClosed /\ SecretsUnshown

---------------------------------------------------------------------------
(* The checks of a configuration, and what follows when all answer "fine".  *)

\* A set of places has a first one.
LEMMA LeastPlace ==
    ASSUME NEW S \in SUBSET Nat, S # {}
    PROVE  Earliest(S) \in S
  <1>1. PICK i \in S : \A j \in S : ~(<<j, i>> \in OpToRel(<, Nat))
    BY NatLessThanWellFounded, WFMin
  <1>2. \A j \in S : ~(j < i)
    BY <1>1 DEF OpToRel
  <1>3. \A j \in S : i <= j
    BY <1>2
  <1> QED BY <1>3 DEF Earliest

Answers == {"fine", "host", "db", "port", "properties", "auth", "instance", "options", "search_path", "username",
            "password", "ssl"}
AllFine(checks) == \A i \in DOMAIN checks : checks[i] = "fine"

\* A list of checks is fine when every one of them is.
LEMMA FineVerdict ==
    ASSUME NEW checks \in Seq(Answers), Verdict(checks) = "fine"
    PROVE  AllFine(checks)
  <1> DEFINE broken == {i \in DOMAIN checks : checks[i] # "fine"}
  <1> SUFFICES ASSUME broken # {} PROVE FALSE
    BY DEF AllFine
  <1>1. broken \in SUBSET Nat
    OBVIOUS
  <1>2. Earliest(broken) \in broken
    BY <1>1, LeastPlace
  <1> QED BY <1>2 DEF Verdict

\* Two lists of checks in turn are fine when both are.
LEMMA FineBoth ==
    ASSUME NEW r \in Seq(Answers), NEW q \in Seq(Answers)
    PROVE  r \o q \in Seq(Answers) /\ (AllFine(r \o q) => AllFine(r) /\ AllFine(q))
  <1>1. r \o q \in Seq(Answers)
    OBVIOUS
  <1>2. ASSUME AllFine(r \o q) PROVE AllFine(r)
    <2>1. \A i \in DOMAIN r : i \in DOMAIN (r \o q) /\ (r \o q)[i] = r[i] OBVIOUS
    <2> QED BY <1>2, <2>1 DEF AllFine
  <1>3. ASSUME AllFine(r \o q) PROVE AllFine(q)
    <2>1. \A i \in DOMAIN q : Len(r) + i \in DOMAIN (r \o q) /\ (r \o q)[Len(r) + i] = q[i] OBVIOUS
    <2> QED BY <1>3, <2>1 DEF AllFine
  <1> QED BY <1>1, <1>2, <1>3

\* Validate leaves no negative pool size.
LEMMA ValidPool ==
    ASSUME NEW c, Validate(c) = "fine"
    PROVE  /\ ~(c.properties.maxopenconnections < 0) /\ ~(c.properties.maxidleconnections < 0)
           /\ c.host # "" /\ c.db # ""
  <1> DEFINE h == Reject(c.host = "", "host")
             d == Reject(c.db = "", "db")
             outside == c.port \notin 0..65535
             p == Reject(outside, "port")
             o == Reject(c.properties.maxopenconnections < 0, "properties")
             i == Reject(c.properties.maxidleconnections < 0, "properties")
             l == Reject(c.auth.login_timeout < 0, "auth")
             t == Reject(c.auth.token_cache \notin {"", "memory", "persistent"}, "auth")
  <1>1. ownChecks(c) = <<h, d, p, o, i, l, t>>
    BY DEF ownChecks, h, d, p, o, i, l, t
  <1> HIDE DEF outside
  <1>2. /\ h \in Answers /\ d \in Answers /\ p \in Answers /\ o \in Answers /\ i \in Answers
        /\ l \in Answers /\ t \in Answers
    <2>1. \A b, k : Reject(b, k) \in {k, "fine"} BY DEF Reject
    <2>2. h \in {"host", "fine"} BY <2>1
    <2>3. d \in {"db", "fine"} BY <2>1
    <2>4. p \in {"port", "fine"} BY <2>1
    <2>5. o \in {"properties", "fine"} BY <2>1
    <2>6. i \in {"properties", "fine"} BY <2>1
    <2>7. l \in {"auth", "fine"} BY <2>1
    <2>8. t \in {"auth", "fine"} BY <2>1
    <2> HIDE DEF h, d, p, o, i, l, t
    <2> QED BY <2>2, <2>3, <2>4, <2>5, <2>6, <2>7, <2>8 DEF Answers
  <1>3. o = "fine" => ~(c.properties.maxopenconnections < 0)
    BY DEF Reject
  <1>4. i = "fine" => ~(c.properties.maxidleconnections < 0)
    BY DEF Reject
  <1>8. (h = "fine" => c.host # "") /\ (d = "fine" => c.db # "")
    BY DEF Reject
  <1> HIDE DEF h, d, p, o, i, l, t
  <1>5. ownChecks(c) \in Seq(Answers) /\ {1, 2, 4, 5} \subseteq DOMAIN ownChecks(c)
    BY <1>1, <1>2
  <1>6. AllFine(ownChecks(c))
    BY <1>5, FineVerdict DEF Validate
  <1>7. o = "fine" /\ i = "fine" /\ h = "fine" /\ d = "fine"
    BY <1>1, <1>5, <1>6 DEF AllFine
  <1> QED BY <1>3, <1>4, <1>7, <1>8

LEMMA EngineFine ==
    ASSUME NEW c, c.driver \in Engines3, refusals(c) = "fine"
    PROVE  Validate(c) = "fine"
  BY DEF refusals

LEMMA UnsupportedChecks ==
    ASSUME NEW c
    PROVE  /\ refuseUnsupported(c) \in Seq(Answers)
           /\ AllFine(refuseUnsupported(c)) =>
                  c.instance = "" /\ c.auth.method \in {"", "sql"} /\ setAuthKeys(c.auth) = {}
  <1> DEFINE i == Reject(c.instance # "", "instance")
             m == Reject(c.auth.method \notin {"", "sql"}, "auth")
             k == Reject(setAuthKeys(c.auth) # {}, "auth")
  <1>1. refuseUnsupported(c) = <<i, m, k>>
    BY DEF refuseUnsupported
  <1>2. i \in Answers /\ m \in Answers /\ k \in Answers
    BY DEF Reject, Answers
  <1>3. i = "fine" /\ m = "fine" /\ k = "fine" => c.instance = "" /\ c.auth.method \in {"", "sql"} /\ setAuthKeys(c.auth) = {}
    BY DEF Reject, Answers
  <1> HIDE DEF i, m, k
  <1>4. refuseUnsupported(c) \in Seq(Answers) /\ DOMAIN refuseUnsupported(c) = {1, 2, 3}
    BY <1>1, <1>2
  <1>5. AllFine(refuseUnsupported(c)) => i = "fine" /\ m = "fine" /\ k = "fine"
    BY <1>1, <1>4 DEF AllFine
  <1> QED BY <1>3, <1>4, <1>5

\* What Postgres has no use for is not set.
LEMMA PostgresFine ==
    ASSUME NEW c, c.driver = "postgres_gorm", refusals(c) = "fine"
    PROVE  c.instance = "" /\ c.auth.method \in {"", "sql"} /\ setAuthKeys(c.auth) = {}
  <1>1. Verdict(refuseUnsupported(c) \o <<badNames(c)>>) = "fine"
    BY EngineFine DEF refusals, Engines3
  <1>2. <<badNames(c)>> \in Seq(Answers)
    BY DEF badNames, Reject, Answers
  <1>3. AllFine(refuseUnsupported(c) \o <<badNames(c)>>)
    BY <1>1, <1>2, UnsupportedChecks, FineBoth, FineVerdict
  <1>4. AllFine(refuseUnsupported(c))
    BY <1>2, <1>3, UnsupportedChecks, FineBoth
  <1> QED BY <1>4, UnsupportedChecks

\* What MySQL has no use for is not set.
LEMMA MysqlFine ==
    ASSUME NEW c, c.driver = "mysql_gorm", refusals(c) = "fine"
    PROVE  c.instance = "" /\ c.auth.method \in {"", "sql"} /\ setAuthKeys(c.auth) = {} /\ c.search_path = ""
  <1> DEFINE p == Reject(c.search_path # "", "search_path")
             q == <<p, badNames(c)>>
  <1>1. Verdict(refuseUnsupported(c) \o q) = "fine"
    BY EngineFine DEF refusals, Engines3
  <1>2. q \in Seq(Answers) /\ 1 \in DOMAIN q /\ q[1] = p
    BY DEF badNames, Reject, Answers
  <1>3. p = "fine" => c.search_path = ""
    BY DEF Reject, Answers
  <1> HIDE DEF p, q
  <1>4. AllFine(refuseUnsupported(c) \o q)
    BY <1>1, <1>2, UnsupportedChecks, FineBoth, FineVerdict
  <1>5. AllFine(refuseUnsupported(c)) /\ AllFine(q)
    BY <1>2, <1>4, UnsupportedChecks, FineBoth
  <1>6. p = "fine"
    BY <1>2, <1>5 DEF AllFine
  <1> QED BY <1>3, <1>5, <1>6, UnsupportedChecks

LEMMA LoginChecks ==
    ASSUME NEW c
    PROVE  /\ checkSQLLogin(c) \in Seq(Answers)
           /\ AllFine(checkSQLLogin(c)) => setAuthKeys(c.auth) = {}
  <1> DEFINE k == Reject(setAuthKeys(c.auth) # {}, "auth")
  <1>1. checkSQLLogin(c) \in Seq(Answers) /\ 1 \in DOMAIN checkSQLLogin(c) /\ checkSQLLogin(c)[1] = k
    BY DEF checkSQLLogin, Reject, Answers
  <1>2. k = "fine" => setAuthKeys(c.auth) = {}
    BY DEF Reject, Answers
  <1> HIDE DEF k
  <1> QED BY <1>1, <1>2 DEF AllFine

\* What checkToken lets through: no password, and only fields of the method.
LEMMA TokenChecks ==
    ASSUME NEW c, NEW method
    PROVE  /\ checkToken(c, method) \in Seq(Answers)
           /\ AllFine(checkToken(c, method)) =>
                 /\ c.password = ""
                 /\ setAuthKeys(c.auth) \subseteq tokenMethodRules[method] \cup AnyToken
                 /\ ~extra(method, c.auth)
  <1> DEFINE p == Reject(c.password # "", "password")
             k == Reject(setAuthKeys(c.auth) \ (tokenMethodRules[method] \cup AnyToken) # {}, "auth")
             e == Reject(extra(method, c.auth), "auth")
  <1>1. checkToken(c, method) = <<p, k, e>>
    BY DEF checkToken
  <1>2. p \in Answers /\ k \in Answers /\ e \in Answers
    BY DEF Reject, Answers
  <1>3. /\ p = "fine" => c.password = ""
        /\ k = "fine" => setAuthKeys(c.auth) \subseteq tokenMethodRules[method] \cup AnyToken
        /\ e = "fine" => ~extra(method, c.auth)
    BY DEF Reject, Answers
  <1> HIDE DEF p, k, e
  <1>4. checkToken(c, method) \in Seq(Answers) /\ DOMAIN checkToken(c, method) = {1, 2, 3}
    BY <1>1, <1>2
  <1>5. AllFine(checkToken(c, method)) => p = "fine" /\ k = "fine" /\ e = "fine"
    BY <1>1, <1>4 DEF AllFine
  <1> QED BY <1>3, <1>4, <1>5

SignInFine(c) ==
    IF authMethodOf(c) = "sql" THEN setAuthKeys(c.auth) = {}
    ELSE authMethodOf(c) \in DOMAIN tokenMethodRules =>
            /\ c.password = ""
            /\ setAuthKeys(c.auth) \subseteq tokenMethodRules[authMethodOf(c)] \cup AnyToken
            /\ ~extra(authMethodOf(c), c.auth)

\* resolveAuth lets through what SignInFine says.
LEMMA SignInChecks ==
    ASSUME NEW c
    PROVE  resolveAuth(c) \in Seq(Answers) /\ (AllFine(resolveAuth(c)) => SignInFine(c))
  <1>1. CASE authMethodOf(c) = "sql"
    BY <1>1, LoginChecks DEF resolveAuth, SignInFine
  <1>2. CASE authMethodOf(c) # "sql"
    <2> DEFINE m == IF authMethodOf(c) \in DOMAIN tokenMethodRules THEN checkToken(c, authMethodOf(c)) ELSE <<>>
               r == <<Reject(authMethodOf(c) \notin SignIns, "auth")>>
    <2>1. resolveAuth(c) = m \o r
      BY <1>2 DEF resolveAuth
    <2>2. m \in Seq(Answers)
      <3>1. checkToken(c, authMethodOf(c)) \in Seq(Answers) BY TokenChecks
      <3>2. <<>> \in Seq(Answers) OBVIOUS
      <3> QED BY <3>1, <3>2
    <2>3. r \in Seq(Answers)
      BY DEF Reject, Answers
    <2>4. AllFine(m) => SignInFine(c)
      BY <1>2, TokenChecks DEF SignInFine
    <2> HIDE DEF m, r
    <2> QED BY <2>1, <2>2, <2>3, <2>4, FineBoth
  <1> QED BY <1>1, <1>2

\* encryptFor lets through a mode it knows, and no weak one for a token or for Azure.
LEMMA EncryptionChecks ==
    ASSUME NEW c, NEW token
    PROVE  /\ encryptFor(c, token) \in Seq(Answers)
           /\ AllFine(encryptFor(c, token)) =>
                 encrypt(c) # "unknown" /\ ~((token \/ IsAzureSQLHost(c.host)) /\ encrypt(c) \in Weak)
  <1> DEFINE u == Reject(encrypt(c) = "unknown", "ssl")
             w == Reject((token \/ IsAzureSQLHost(c.host)) /\ encrypt(c) \in Weak, "ssl")
  <1>1. encryptFor(c, token) = <<u, w>>
    BY DEF encryptFor
  <1>2. u \in Answers /\ w \in Answers
    BY DEF Reject, Answers
  <1>3. /\ u = "fine" => encrypt(c) # "unknown"
        /\ w = "fine" => ~((token \/ IsAzureSQLHost(c.host)) /\ encrypt(c) \in Weak)
    BY DEF Reject, Answers
  <1> HIDE DEF u, w
  <1>4. encryptFor(c, token) \in Seq(Answers) /\ DOMAIN encryptFor(c, token) = {1, 2}
    BY <1>1, <1>2
  <1>5. AllFine(encryptFor(c, token)) => u = "fine" /\ w = "fine"
    BY <1>1, <1>4 DEF AllFine
  <1> QED BY <1>3, <1>4, <1>5

\* crossChecks lets no unverified certificate through for a token.
LEMMA CertificateChecks ==
    ASSUME NEW c, NEW token
    PROVE  /\ crossChecks(c, token) \in Seq(Answers)
           /\ AllFine(crossChecks(c, token)) =>
                 ~(serverDSN(c).trust_server_certificate = "true" /\ token)
  <1> DEFINE t == Reject(/\ serverDSN(c).trust_server_certificate = "true"
                         /\ token \/ IsAzureSQLHost(c.host) \/ serverDSN(c).encrypt = "strict", "options")
             i == Reject(/\ "application_intent" \in DOMAIN serverDSN(c)
                         /\ serverDSN(c).application_intent = "ReadOnly" /\ ~c.read_only, "options")
  <1>1. crossChecks(c, token) = <<t, i>>
    BY DEF crossChecks
  <1>2. t \in Answers /\ i \in Answers
    BY DEF Reject, Answers
  <1>3. t = "fine" => ~(serverDSN(c).trust_server_certificate = "true" /\ token)
    BY DEF Reject, Answers
  <1> HIDE DEF t, i
  <1>4. crossChecks(c, token) \in Seq(Answers) /\ DOMAIN crossChecks(c, token) = {1, 2}
    BY <1>1, <1>2
  <1>5. AllFine(crossChecks(c, token)) => t = "fine"
    BY <1>1, <1>4 DEF AllFine
  <1> QED BY <1>3, <1>4, <1>5

\* resolveScope lets through an audience of the server's cloud.
LEMMA ScopeChecks ==
    ASSUME NEW c
    PROVE  /\ resolveScope(c) \in Seq(Answers)
           /\ AllFine(resolveScope(c)) => (IsAzureSQLHost(c.host) => scopeCloud(c) = AzureCloudOf(c.host))
  <1> DEFINE s == Reject(c.auth.scope \notin Schemed \cup {""}, "auth")
             a == Reject(IsAzureSQLHost(c.host) /\ scopeCloud(c) # AzureCloudOf(c.host), "auth")
  <1>1. resolveScope(c) = <<s, a>>
    BY DEF resolveScope
  <1>2. s \in Answers /\ a \in Answers
    BY DEF Reject, Answers
  <1>3. a = "fine" => (IsAzureSQLHost(c.host) => scopeCloud(c) = AzureCloudOf(c.host))
    BY DEF Reject, Answers
  <1> HIDE DEF s, a
  <1>4. resolveScope(c) \in Seq(Answers) /\ DOMAIN resolveScope(c) = {1, 2}
    BY <1>1, <1>2
  <1>5. AllFine(resolveScope(c)) => a = "fine"
    BY <1>1, <1>4 DEF AllFine
  <1> QED BY <1>3, <1>4, <1>5

Tokened(c) == authMethodOf(c) # "sql"
ServerFineAs(c) ==
    /\ c.search_path = "" /\ SignInFine(c) /\ ~badOptions(c) /\ encrypt(c) # "unknown"
    /\ Tokened(c) => /\ encrypt(c) \notin Weak
                     /\ serverDSN(c).trust_server_certificate # "true"
                     /\ IsAzureSQLHost(c.host) => scopeCloud(c) = AzureCloudOf(c.host)

\* What SQL Server accepts: planConnection, check by check.
LEMMA ServerFine ==
    ASSUME NEW c, c.driver = "sqlserver_gorm", refusals(c) = "fine"
    PROVE  ServerFineAs(c)
  <1> DEFINE token == authMethodOf(c) # "sql"
             p == Reject(c.search_path # "", "search_path")
             o == Reject(badOptions(c), "options")
             s1 == <<p>>
             s2 == s1 \o resolveAuth(c)
             s3 == s2 \o resolveEndpoint(c)
             s4 == s3 \o <<o>>
             s5 == s4 \o encryptFor(c, token)
             s6 == s5 \o crossChecks(c, token)
             last == IF token THEN resolveScope(c) ELSE <<>>
  <1>1. Verdict(s6 \o last) = "fine"
    <2>1. Verdict(planConnection(c)) = "fine" BY EngineFine DEF refusals, Engines3
    <2>2. planConnection(c) = s6 \o last BY DEF planConnection
    <2> QED BY <2>1, <2>2
  <1>2. s1 \in Seq(Answers) /\ (AllFine(s1) => c.search_path = "")
    <2>1. p = "fine" => c.search_path = "" BY DEF Reject
    <2>4. p \in Answers BY DEF Reject, Answers
    <2> HIDE DEF p
    <2>2. <<p>> \in Seq(Answers) BY <2>4
    <2>3. 1 \in DOMAIN <<p>> /\ <<p>>[1] = p OBVIOUS
    <2> QED BY <2>1, <2>2, <2>3 DEF AllFine
  <1>3. <<o>> \in Seq(Answers) /\ (AllFine(<<o>>) => ~badOptions(c))
    <2>1. o \in Answers /\ (o = "fine" => ~badOptions(c)) BY DEF Reject, Answers
    <2> HIDE DEF o
    <2>2. <<o>> \in Seq(Answers) /\ 1 \in DOMAIN <<o>> /\ <<o>>[1] = o BY <2>1
    <2> QED BY <2>1, <2>2 DEF AllFine
  <1>4. resolveEndpoint(c) \in Seq(Answers)
    BY DEF resolveEndpoint, Reject, Answers
  <1>5. last \in Seq(Answers) /\ (AllFine(last) => (token /\ IsAzureSQLHost(c.host) => scopeCloud(c) = AzureCloudOf(c.host)))
    BY ScopeChecks
  <1>6. /\ encryptFor(c, token) \in Seq(Answers)
        /\ AllFine(encryptFor(c, token)) => encrypt(c) # "unknown" /\ (token => encrypt(c) \notin Weak)
    BY EncryptionChecks
  <1>7. /\ crossChecks(c, token) \in Seq(Answers)
        /\ AllFine(crossChecks(c, token)) => (token => serverDSN(c).trust_server_certificate # "true")
    BY CertificateChecks
  <1>8. token <=> Tokened(c)
    BY DEF Tokened
  <1> HIDE DEF token, p, o, last
  <1> HIDE DEF s1
  <1>9. s2 \in Seq(Answers) /\ (AllFine(s2) => AllFine(s1) /\ AllFine(resolveAuth(c)))
    BY <1>2, SignInChecks, FineBoth
  <1> HIDE DEF s2
  <1>10. s3 \in Seq(Answers) /\ (AllFine(s3) => AllFine(s2))
    BY <1>9, <1>4, FineBoth
  <1> HIDE DEF s3
  <1>11. s4 \in Seq(Answers) /\ (AllFine(s4) => AllFine(s3) /\ AllFine(<<o>>))
    BY <1>10, <1>3, FineBoth
  <1> HIDE DEF s4
  <1>12. s5 \in Seq(Answers) /\ (AllFine(s5) => AllFine(s4) /\ AllFine(encryptFor(c, token)))
    BY <1>11, <1>6, FineBoth
  <1> HIDE DEF s5
  <1>13. s6 \in Seq(Answers) /\ (AllFine(s6) => AllFine(s5) /\ AllFine(crossChecks(c, token)))
    BY <1>12, <1>7, FineBoth
  <1> HIDE DEF s6
  <1>14. AllFine(s6) /\ AllFine(last)
    <2>1. s6 \o last \in Seq(Answers) BY <1>13, <1>5, FineBoth
    <2>2. AllFine(s6 \o last) BY <1>1, <2>1, FineVerdict
    <2> QED BY <2>2, <1>13, <1>5, FineBoth
  <1>15. SignInFine(c)
    BY <1>14, <1>13, <1>12, <1>11, <1>10, <1>9, SignInChecks
  <1> QED BY <1>14, <1>13, <1>12, <1>11, <1>10, <1>9, <1>15, <1>2, <1>3, <1>5, <1>6, <1>7, <1>8 DEF ServerFineAs

---------------------------------------------------------------------------
(* Decoding.                                                               *)

\* Reading keys in turn gives all of their values, or one refusal among them.
LEMMA InOrderIs ==
    ASSUME NEW order, DOMAIN order \in SUBSET Nat, NEW reads
    PROVE  \/ /\ \A i \in DOMAIN order : reads[order[i]].ok
              /\ InOrder(order, reads) = Took([k \in DOMAIN reads |-> reads[k].value])
           \/ \E i \in DOMAIN order : ~reads[order[i]].ok /\ InOrder(order, reads) = reads[order[i]]
  <1> DEFINE refused == {i \in DOMAIN order : ~reads[order[i]].ok}
  <1>1. CASE refused = {}
    BY <1>1 DEF InOrder
  <1>2. CASE refused # {}
    <2>1. refused \in SUBSET Nat OBVIOUS
    <2>2. Earliest(refused) \in refused BY <1>2, <2>1, LeastPlace
    <2>3. InOrder(order, reads) = reads[order[Earliest(refused)]] BY <1>2 DEF InOrder
    <2> QED BY <2>2, <2>3
  <1> QED BY <1>1, <1>2

\* The orders name every known key and no other.
LEMMA OrdersCover ==
    /\ DOMAIN Order \in SUBSET Nat /\ DOMAIN PoolOrder \in SUBSET Nat /\ DOMAIN AuthOrder \in SUBSET Nat
    /\ \A k \in DOMAIN Known : \E i \in DOMAIN Order : Order[i] = k
    /\ \A k \in DOMAIN KnownPool : \E i \in DOMAIN PoolOrder : PoolOrder[i] = k
    /\ \A k \in DOMAIN KnownAuth : \E i \in DOMAIN AuthOrder : AuthOrder[i] = k
    /\ \A i \in DOMAIN Order : Order[i] \in DOMAIN Known
    /\ \A i \in DOMAIN PoolOrder : PoolOrder[i] \in DOMAIN KnownPool
    /\ \A i \in DOMAIN AuthOrder : AuthOrder[i] \in DOMAIN KnownAuth
  <1>1. DOMAIN Order = 1..18 /\ DOMAIN PoolOrder = 1..4 /\ DOMAIN AuthOrder = 1..15
    BY DEF Order, PoolOrder, AuthOrder
  <1>2. \A k \in DOMAIN Known : \E i \in 1..18 : Order[i] = k
    <2>1. /\ Order[1] = "driver" /\ Order[2] = "host" /\ Order[3] = "port" /\ Order[4] = "username"
          /\ Order[5] = "password" /\ Order[6] = "db" /\ Order[7] = "ssl" /\ Order[8] = "search_path"
          /\ Order[9] = "instance" /\ Order[10] = "prefer_simple_protocol" /\ Order[11] = "allow_unfaithful_upsert"
          /\ Order[12] = "external_schema" /\ Order[13] = "read_only" /\ Order[14] = "lazy_connect"
          /\ Order[15] = "log" /\ Order[16] = "options" /\ Order[17] = "properties" /\ Order[18] = "auth"
      BY DEF Order
    <2> QED BY <2>1 DEF Known
  <1>3. \A k \in DOMAIN KnownPool : \E i \in 1..4 : PoolOrder[i] = k
    BY DEF KnownPool, PoolOrder
  <1>4. \A k \in DOMAIN KnownAuth : \E i \in 1..15 : AuthOrder[i] = k
    <2>1. /\ AuthOrder[1] = "method" /\ AuthOrder[2] = "tenant_id" /\ AuthOrder[3] = "client_id"
          /\ AuthOrder[4] = "certificate_path" /\ AuthOrder[5] = "resource_id" /\ AuthOrder[6] = "object_id"
          /\ AuthOrder[7] = "token_file_path" /\ AuthOrder[8] = "redirect_url" /\ AuthOrder[9] = "scope"
          /\ AuthOrder[10] = "token_cache" /\ AuthOrder[11] = "authentication_record_path"
          /\ AuthOrder[12] = "client_secret" /\ AuthOrder[13] = "certificate_password"
          /\ AuthOrder[14] = "send_certificate_chain" /\ AuthOrder[15] = "login_timeout"
      BY DEF AuthOrder
    <2> QED BY <2>1 DEF KnownAuth
  <1>5. \A i \in 1..18 : Order[i] \in DOMAIN Known
    BY DEF Order, Known
  <1>6. \A i \in 1..4 : PoolOrder[i] \in DOMAIN KnownPool
    BY DEF PoolOrder, KnownPool
  <1>7. \A i \in 1..15 : AuthOrder[i] \in DOMAIN KnownAuth
    BY DEF AuthOrder, KnownAuth
  <1> QED BY <1>1, <1>2, <1>3, <1>4, <1>5, <1>6, <1>7

LEMMA LoweredTwice == \A t : Lowered(Lowered(t)) = Lowered(t)
  BY DEF Lowered, Capitals

LEMMA FoldedEmpty == \A t : Folded(t) = "" <=> t = ""
  BY DEF Folded

LEMMA NumeralsAreNumbers == \A t \in DOMAIN Numeral : Numeral[t] \in Int
  BY DEF Numeral

\* What a map has under a key is what its block decodes to.
LEMMA ParseTook ==
    ASSUME NEW raw, Parse(raw).ok
    PROVE  /\ unknownKeys(raw, Known) = {}
           /\ DOMAIN foldKeys(raw) \subseteq DOMAIN Known
           /\ Parse(raw).value = [k \in DOMAIN Known |-> topLevel(foldKeys(raw), k).value]
           /\ \A k \in DOMAIN Known : topLevel(foldKeys(raw), k).ok
  <1>1. unknownKeys(raw, Known) = {}
    BY DEF Parse, Bad
  <1>2. DOMAIN foldKeys(raw) \subseteq DOMAIN Known
    BY <1>1 DEF unknownKeys, foldKeys
  <1> DEFINE reads == [k \in DOMAIN Known |-> topLevel(foldKeys(raw), k)]
  <1>3. Parse(raw) = InOrder(Order, reads)
    BY <1>1 DEF Parse
  <1>4. DOMAIN reads = DOMAIN Known /\ \A k \in DOMAIN Known : reads[k] = topLevel(foldKeys(raw), k)
    OBVIOUS
  <1> HIDE DEF reads
  <1>5. /\ \A i \in DOMAIN Order : reads[Order[i]].ok
        /\ InOrder(Order, reads) = Took([k \in DOMAIN reads |-> reads[k].value])
    BY <1>3, InOrderIs, OrdersCover
  <1>6. \A k \in DOMAIN Known : reads[k].ok
    BY <1>5, OrdersCover
  <1>7. Parse(raw).value = [k \in DOMAIN reads |-> reads[k].value]
    BY <1>3, <1>5 DEF Took
  <1> QED BY <1>1, <1>2, <1>4, <1>6, <1>7

\* The pool settings that were read.
LEMMA PoolTook ==
    ASSUME NEW m, parsePool(m).ok
    PROVE  LET entries == IF Wrote(m, "properties") THEN m["properties"].entries ELSE NoEntries IN
           /\ DOMAIN foldKeys(entries) \subseteq DOMAIN KnownPool
           /\ parsePool(m).value = [f \in DOMAIN KnownPool |-> optInt(foldKeys(entries), f).value]
           /\ \A f \in DOMAIN KnownPool : optInt(foldKeys(entries), f).ok
  <1> DEFINE entries == IF Wrote(m, "properties") THEN m["properties"].entries ELSE NoEntries
             folded == foldKeys(entries)
             reads == [f \in DOMAIN KnownPool |-> optInt(folded, f)]
  <1>1. unknownKeys(entries, KnownPool) = {} /\ parsePool(m) = InOrder(PoolOrder, reads)
    BY DEF parsePool, Block, Bad
  <1>2. DOMAIN folded \subseteq DOMAIN KnownPool
    BY <1>1 DEF unknownKeys, foldKeys
  <1>3. DOMAIN reads = DOMAIN KnownPool /\ \A k \in DOMAIN KnownPool : reads[k] = optInt(folded, k)
    OBVIOUS
  <1> HIDE DEF reads, folded, entries
  <1>4. /\ \A i \in DOMAIN PoolOrder : reads[PoolOrder[i]].ok
        /\ InOrder(PoolOrder, reads) = Took([k \in DOMAIN reads |-> reads[k].value])
    BY <1>1, InOrderIs, OrdersCover
  <1>5. \A k \in DOMAIN KnownPool : reads[k].ok
    BY <1>4, OrdersCover
  <1>6. parsePool(m).value = [k \in DOMAIN reads |-> reads[k].value]
    BY <1>1, <1>4 DEF Took
  <1>7. /\ DOMAIN folded \subseteq DOMAIN KnownPool
        /\ parsePool(m).value = [f \in DOMAIN KnownPool |-> optInt(folded, f).value]
        /\ \A f \in DOMAIN KnownPool : optInt(folded, f).ok
    BY <1>2, <1>3, <1>5, <1>6
  <1> QED BY <1>7 DEF folded, entries

\* The sign-in settings that were read.
LEMMA AuthTook ==
    ASSUME NEW m, parseAuth(m).ok
    PROVE  LET entries == IF Wrote(m, "auth") THEN m["auth"].entries ELSE NoEntries IN
           /\ DOMAIN foldKeys(entries) \subseteq DOMAIN KnownAuth
           /\ parseAuth(m).value = [f \in DOMAIN KnownAuth |-> authField(foldKeys(entries), f).value]
           /\ \A f \in DOMAIN KnownAuth : authField(foldKeys(entries), f).ok
  <1> DEFINE entries == IF Wrote(m, "auth") THEN m["auth"].entries ELSE NoEntries
             folded == foldKeys(entries)
             reads == [f \in DOMAIN KnownAuth |-> authField(folded, f)]
  <1>1. unknownKeys(entries, KnownAuth) = {} /\ parseAuth(m) = InOrder(AuthOrder, reads)
    BY DEF parseAuth, Block, Bad
  <1>2. DOMAIN folded \subseteq DOMAIN KnownAuth
    BY <1>1 DEF unknownKeys, foldKeys
  <1>3. DOMAIN reads = DOMAIN KnownAuth /\ \A k \in DOMAIN KnownAuth : reads[k] = authField(folded, k)
    OBVIOUS
  <1> HIDE DEF reads, folded, entries
  <1>4. /\ \A i \in DOMAIN AuthOrder : reads[AuthOrder[i]].ok
        /\ InOrder(AuthOrder, reads) = Took([k \in DOMAIN reads |-> reads[k].value])
    BY <1>1, InOrderIs, OrdersCover
  <1>5. \A k \in DOMAIN KnownAuth : reads[k].ok
    BY <1>4, OrdersCover
  <1>6. parseAuth(m).value = [k \in DOMAIN reads |-> reads[k].value]
    BY <1>1, <1>4 DEF Took
  <1>7. /\ DOMAIN folded \subseteq DOMAIN KnownAuth
        /\ parseAuth(m).value = [f \in DOMAIN KnownAuth |-> authField(folded, f).value]
        /\ \A f \in DOMAIN KnownAuth : authField(folded, f).ok
    BY <1>2, <1>3, <1>5, <1>6
  <1> QED BY <1>7 DEF folded, entries

\* What a key that was read and written becomes.
LEMMA TextRead ==
    ASSUME NEW m, NEW k, optString(m, k).ok, Wrote(m, k)
    PROVE  optString(m, k).value = m[k].text
  BY DEF optString, Took, Bad
LEMMA PasswordRead ==
    ASSUME NEW m, optPassword(m).ok, Wrote(m, "password")
    PROVE  optPassword(m).value = m["password"].text
  BY DEF optPassword, Took, Bad
LEMMA SecretRead ==
    ASSUME NEW m, NEW k, optSecretString(m, k).ok, Wrote(m, k)
    PROVE  optSecretString(m, k).value = m[k].text
  BY DEF optSecretString, Took, Bad
LEMMA IntRead ==
    ASSUME NEW m, NEW k, optInt(m, k).ok
    PROVE  /\ optInt(m, k).value \in Int
           /\ Wrote(m, k) => optInt(m, k).value = Number(m[k])
  BY NumeralsAreNumbers DEF optInt, Took, Bad, Number
LEMMA BoolRead ==
    ASSUME NEW m, NEW k, optBool(m, k).ok, Wrote(m, k)
    PROVE  optBool(m, k).value = Flag(m[k])
  BY DEF optBool, Took, Bad, Flag
LEMMA MapRead ==
    ASSUME NEW m, NEW k, optStringMap(m, k).ok, Wrote(m, k)
    PROVE  /\ DOMAIN optStringMap(m, k).value = DOMAIN m[k].entries
           /\ \A o \in DOMAIN m[k].entries : m[k].entries[o] # Unset =>
                  optStringMap(m, k).value[o] = m[k].entries[o].text
  BY DEF optStringMap, Took, Bad

TextKeys == {"driver", "host", "username", "db", "ssl", "search_path", "instance"}
BoolKeys == {"prefer_simple_protocol", "allow_unfaithful_upsert", "external_schema", "read_only", "lazy_connect", "log"}

\* How each key is read.
LEMMA TopKinds ==
    /\ \A m : \A k \in TextKeys : k \in DOMAIN Known /\ topLevel(m, k) = optString(m, k)
    /\ \A m : \A k \in BoolKeys : k \in DOMAIN Known /\ topLevel(m, k) = optBool(m, k)
    /\ \A m : "port" \in DOMAIN Known /\ topLevel(m, "port") = optInt(m, "port")
    /\ \A m : "password" \in DOMAIN Known /\ topLevel(m, "password") = optPassword(m)
    /\ \A m : "options" \in DOMAIN Known /\ topLevel(m, "options") = optStringMap(m, "options")
    /\ \A m : "properties" \in DOMAIN Known /\ topLevel(m, "properties") = parsePool(m)
    /\ \A m : "auth" \in DOMAIN Known /\ topLevel(m, "auth") = parseAuth(m)
  <1>1. \A m : \A k \in TextKeys : k \in DOMAIN Known /\ topLevel(m, k) = optString(m, k)
    BY DEF TextKeys, Known, topLevel
  <1>2. \A m : \A k \in BoolKeys : k \in DOMAIN Known /\ topLevel(m, k) = optBool(m, k)
    BY DEF BoolKeys, Known, topLevel
  <1>3. \A m : "port" \in DOMAIN Known /\ topLevel(m, "port") = optInt(m, "port")
    BY DEF Known, topLevel
  <1>4. \A m : "password" \in DOMAIN Known /\ topLevel(m, "password") = optPassword(m)
    BY DEF Known, topLevel
  <1>5. \A m : "options" \in DOMAIN Known /\ topLevel(m, "options") = optStringMap(m, "options")
    BY DEF Known, topLevel
  <1>6. \A m : "properties" \in DOMAIN Known /\ topLevel(m, "properties") = parsePool(m)
    BY DEF Known, topLevel
  <1>7. \A m : "auth" \in DOMAIN Known /\ topLevel(m, "auth") = parseAuth(m)
    BY DEF Known, topLevel
  <1> QED BY <1>1, <1>2, <1>3, <1>4, <1>5, <1>6, <1>7

\* The fields of a configuration that was read from the file.
Parsed(c, raw) == Parse(raw).ok /\ c = Parse(raw).value

\* Each field is what its key was read as.
LEMMA FieldsDecoded ==
    ASSUME NEW raw, NEW c, Parsed(c, raw)
    PROVE  \A k \in DOMAIN Known : topLevel(foldKeys(raw), k).ok /\ c[k] = topLevel(foldKeys(raw), k).value
  <1> DEFINE T(k) == topLevel(foldKeys(raw), k)
  <1>1. c = [k \in DOMAIN Known |-> T(k).value] /\ \A k \in DOMAIN Known : T(k).ok
    BY ParseTook DEF Parsed
  <1> HIDE DEF T
  <1>2. \A k \in DOMAIN Known : T(k).ok /\ c[k] = T(k).value
    BY <1>1
  <1> QED BY <1>2 DEF T

\* The fields that are one text, number or flag.
LEMMA ScalarsDecoded ==
    ASSUME NEW raw, NEW c, Parsed(c, raw)
    PROVE  /\ \A k \in TextKeys : Wrote(foldKeys(raw), k) => c[k] = foldKeys(raw)[k].text
           /\ \A k \in BoolKeys : Wrote(foldKeys(raw), k) => c[k] = Flag(foldKeys(raw)[k])
           /\ Wrote(foldKeys(raw), "password") => c.password = foldKeys(raw)["password"].text
           /\ Wrote(foldKeys(raw), "port") => c.port = Number(foldKeys(raw)["port"])
  <1> DEFINE m == foldKeys(raw)
  <1>1. \A k \in DOMAIN Known : topLevel(m, k).ok /\ c[k] = topLevel(m, k).value
    BY FieldsDecoded
  <1> HIDE DEF m
  <1>2. \A k \in TextKeys : optString(m, k).ok /\ c[k] = optString(m, k).value
    BY <1>1, TopKinds
  <1>3. \A k \in BoolKeys : optBool(m, k).ok /\ c[k] = optBool(m, k).value
    BY <1>1, TopKinds
  <1>4. optPassword(m).ok /\ c.password = optPassword(m).value
    BY <1>1, TopKinds
  <1>5. optInt(m, "port").ok /\ c.port = optInt(m, "port").value
    BY <1>1, TopKinds
  <1>6. \A k \in TextKeys : Wrote(m, k) => c[k] = m[k].text
    BY <1>2, TextRead
  <1>7. \A k \in BoolKeys : Wrote(m, k) => c[k] = Flag(m[k])
    BY <1>3, BoolRead
  <1>8. Wrote(m, "password") => c.password = m["password"].text
    BY <1>4, PasswordRead
  <1>9. Wrote(m, "port") => c.port = Number(m["port"])
    BY <1>5, IntRead
  <1> QED BY <1>6, <1>7, <1>8, <1>9 DEF m

\* The options, key by key.
LEMMA OptionsDecoded ==
    ASSUME NEW raw, NEW c, Parsed(c, raw), Wrote(foldKeys(raw), "options")
    PROVE  LET entries == foldKeys(raw)["options"].entries IN
           /\ DOMAIN c.options = DOMAIN entries
           /\ \A o \in DOMAIN entries : entries[o] # Unset => c.options[o] = entries[o].text
  <1> DEFINE m == foldKeys(raw)
  <1>1. optStringMap(m, "options").ok /\ c.options = optStringMap(m, "options").value
    <2> HIDE DEF m
    <2>1. \A k \in DOMAIN Known : topLevel(m, k).ok /\ c[k] = topLevel(m, k).value
      BY FieldsDecoded DEF m
    <2> QED BY <2>1, TopKinds
  <1> QED BY <1>1, MapRead

\* The pool settings, field by field.
LEMMA PoolDecoded ==
    ASSUME NEW raw, NEW c, Parsed(c, raw)
    PROVE  /\ DOMAIN c.properties = DOMAIN KnownPool /\ \A f \in DOMAIN KnownPool : c.properties[f] \in Int
           /\ Wrote(foldKeys(raw), "properties") =>
                  LET w == foldKeys(foldKeys(raw)["properties"].entries) IN
                  /\ DOMAIN w \subseteq DOMAIN KnownPool
                  /\ \A f \in DOMAIN w : Wrote(w, f) => c.properties[f] = Number(w[f])
  <1> DEFINE m == foldKeys(raw)
             e == IF Wrote(m, "properties") THEN m["properties"].entries ELSE NoEntries
             w == foldKeys(e)
  <1>1. parsePool(m).ok /\ c.properties = parsePool(m).value
    <2> HIDE DEF m
    <2>1. \A k \in DOMAIN Known : topLevel(m, k).ok /\ c[k] = topLevel(m, k).value
      BY FieldsDecoded DEF m
    <2> QED BY <2>1, TopKinds
  <1>2. /\ DOMAIN w \subseteq DOMAIN KnownPool
        /\ c.properties = [f \in DOMAIN KnownPool |-> optInt(w, f).value]
        /\ \A f \in DOMAIN KnownPool : optInt(w, f).ok
    BY <1>1, PoolTook
  <1>3. Wrote(m, "properties") => w = foldKeys(m["properties"].entries)
    OBVIOUS
  <1> HIDE DEF w
  <1>4. \A f \in DOMAIN KnownPool : optInt(w, f).value \in Int /\ (Wrote(w, f) => optInt(w, f).value = Number(w[f]))
    BY <1>2, IntRead
  <1>5. DOMAIN c.properties = DOMAIN KnownPool /\ \A f \in DOMAIN KnownPool : c.properties[f] \in Int
    BY <1>2, <1>4
  <1>6. \A f \in DOMAIN w : Wrote(w, f) => c.properties[f] = Number(w[f])
    BY <1>2, <1>4
  <1> QED BY <1>2, <1>3, <1>5, <1>6

\* What a field of the block becomes.
AuthSays(a, f, v) ==
    CASE KnownAuth[f] \in {"text", "secret"} -> a[f] = v.text
      [] KnownAuth[f] = "folded" -> a[f] = Folded(v.text)
      [] KnownAuth[f] = "bool" -> a[f] = Flag(v)
      [] OTHER -> a[f] = Number(v)

\* What a field of the sign-in block is read as.
LEMMA AuthFieldRead ==
    ASSUME NEW w, NEW f \in DOMAIN KnownAuth, Wrote(w, f), authField(w, f).ok, NEW a, a[f] = authField(w, f).value
    PROVE  AuthSays(a, f, w[f])
  <1>1. CASE KnownAuth[f] = "text"
    <2>1. authField(w, f) = optString(w, f) BY <1>1 DEF authField
    <2> QED BY <1>1, <2>1, TextRead DEF AuthSays
  <1>2. CASE KnownAuth[f] = "secret"
    <2>1. authField(w, f) = optSecretString(w, f) BY <1>2 DEF authField
    <2> QED BY <1>2, <2>1, SecretRead DEF AuthSays
  <1>3. CASE KnownAuth[f] = "folded"
    <2>1. authField(w, f) = IF optString(w, f).ok THEN Took(Folded(optString(w, f).value)) ELSE optString(w, f)
      BY <1>3 DEF authField
    <2>2. optString(w, f).ok BY <2>1
    <2>3. authField(w, f).value = Folded(optString(w, f).value) BY <2>1, <2>2 DEF Took
    <2> QED BY <1>3, <2>2, <2>3, TextRead DEF AuthSays
  <1>4. CASE KnownAuth[f] = "bool"
    <2>1. authField(w, f) = optBool(w, f) BY <1>4 DEF authField
    <2> QED BY <1>4, <2>1, BoolRead DEF AuthSays
  <1>5. CASE KnownAuth[f] = "count"
    <2>1. authField(w, f) = IF optInt(w, f).ok /\ optInt(w, f).value < 0 THEN Bad(f, {w[f]}) ELSE optInt(w, f)
      BY <1>5 DEF authField
    <2>2. authField(w, f) = optInt(w, f) BY <2>1 DEF Bad
    <2> QED BY <1>5, <2>2, IntRead DEF AuthSays
  <1>6. KnownAuth[f] \in {"text", "secret", "folded", "bool", "count"}
    BY DEF KnownAuth
  <1> QED BY <1>1, <1>2, <1>3, <1>4, <1>5, <1>6

\* The sign-in settings, field by field.
LEMMA AuthDecoded ==
    ASSUME NEW raw, NEW c, Parsed(c, raw), Wrote(foldKeys(raw), "auth")
    PROVE  LET w == foldKeys(foldKeys(raw)["auth"].entries) IN
           /\ DOMAIN w \subseteq DOMAIN KnownAuth
           /\ \A f \in DOMAIN w : Wrote(w, f) => AuthSays(c.auth, f, w[f])
  <1> DEFINE m == foldKeys(raw)
             w == foldKeys(m["auth"].entries)
  <1>1. parseAuth(m).ok /\ c.auth = parseAuth(m).value
    <2> HIDE DEF m
    <2>1. \A k \in DOMAIN Known : topLevel(m, k).ok /\ c[k] = topLevel(m, k).value
      BY FieldsDecoded DEF m
    <2> QED BY <2>1, TopKinds
  <1>2. /\ DOMAIN w \subseteq DOMAIN KnownAuth
        /\ c.auth = [f \in DOMAIN KnownAuth |-> authField(w, f).value]
        /\ \A f \in DOMAIN KnownAuth : authField(w, f).ok
    BY <1>1, AuthTook
  <1> HIDE DEF w
  <1>3. \A f \in DOMAIN w : Wrote(w, f) => AuthSays(c.auth, f, w[f])
    <2> TAKE f \in DOMAIN w
    <2> HAVE Wrote(w, f)
    <2>1. f \in DOMAIN KnownAuth /\ authField(w, f).ok /\ c.auth[f] = authField(w, f).value
      BY <1>2
    <2> QED BY <2>1, AuthFieldRead
  <1> QED BY <1>2, <1>3 DEF w

---------------------------------------------------------------------------
(* A connection, and each key of the file in force on it.                  *)

SourceFields == {"state", "name", "raw", "c", "guards", "reports", "sent", "host", "db", "port", "instance", "user",
                 "password", "pool", "tokens", "warned", "simple", "unfaithful", "logs", "dialed"}
OpenedAs(s) ==
    /\ s.state = "open"
    /\ s.sent = CASE s.c.driver = "sqlserver_gorm" -> serverDSN(s.c)
                  [] s.c.driver = "postgres_gorm" -> postgresDSN(s.c)
                  [] s.c.driver = "mysql_gorm" -> mysqlDSN(s.c)
                  [] OTHER -> NoEntries
    /\ s.host = s.c.host /\ s.db = s.c.db
    /\ s.simple = (s.c.driver = "postgres_gorm" /\ s.c.prefer_simple_protocol)
    /\ s.unfaithful = (s.c.driver = "mysql_gorm" /\ s.c.allow_unfaithful_upsert)
    /\ s.port = IF s.c.driver = "sqlserver_gorm" THEN endpoint(s.c).port
                ELSE IF s.c.port = 0 /\ s.c.driver = "mysql_gorm" THEN 3306 ELSE s.c.port
    /\ s.instance = IF s.c.driver = "sqlserver_gorm" THEN endpoint(s.c).instance ELSE ""
    /\ s.user = IF s.c.driver = "sqlserver_gorm" /\ Tokened(s.c) THEN "" ELSE s.c.username
    /\ s.password = IF \/ s.c.driver = "sqlserver_gorm" /\ Tokened(s.c)
                       \/ s.c.username = "" /\ s.c.driver = "mysql_gorm" THEN "" ELSE s.c.password
    /\ s.pool = IF s.c.driver = "sqlserver_gorm" THEN effectivePool(s.c.properties) ELSE applied(s.c.properties)
    /\ s.tokens = IF s.c.driver = "sqlserver_gorm" /\ Tokened(s.c) THEN "live" ELSE "none"
    /\ s.warned = IF s.c.driver = "sqlserver_gorm" THEN warned(s.c) ELSE {}

\* Each field of an accepted connection, from the configuration it carries.
LEMMA OpenedFields ==
    ASSUME NEW s, Accepted(s)
    PROVE  OpenedAs(s)
  <1> DEFINE o == opening(s, s.c)
  <1>1. s = [o EXCEPT !.guards = s.guards, !.reports = s.reports, !.logs = s.logs, !.dialed = s.dialed]
    BY DEF Accepted
  <1>2. DOMAIN o = SourceFields /\ o.state = "open"
    BY DEF opening, SourceFields
  <1>21. o.host = s.c.host /\ o.db = s.c.db
    BY DEF opening
  <1>22. /\ o.simple = (s.c.driver = "postgres_gorm" /\ s.c.prefer_simple_protocol)
         /\ o.unfaithful = (s.c.driver = "mysql_gorm" /\ s.c.allow_unfaithful_upsert)
    BY DEF opening
  <1>3. /\ o.sent = CASE s.c.driver = "sqlserver_gorm" -> serverDSN(s.c)
                     [] s.c.driver = "postgres_gorm" -> postgresDSN(s.c)
                     [] s.c.driver = "mysql_gorm" -> mysqlDSN(s.c)
                     [] OTHER -> NoEntries
    BY DEF opening
  <1>4. o.port = IF s.c.driver = "sqlserver_gorm" THEN endpoint(s.c).port
                 ELSE IF s.c.port = 0 /\ s.c.driver = "mysql_gorm" THEN 3306 ELSE s.c.port
    BY DEF opening
  <1>5. o.instance = IF s.c.driver = "sqlserver_gorm" THEN endpoint(s.c).instance ELSE ""
    BY DEF opening
  <1>6. o.user = IF s.c.driver = "sqlserver_gorm" /\ Tokened(s.c) THEN "" ELSE s.c.username
    BY DEF opening, Tokened
  <1>7. o.password = IF \/ s.c.driver = "sqlserver_gorm" /\ Tokened(s.c)
                        \/ s.c.username = "" /\ s.c.driver = "mysql_gorm" THEN "" ELSE s.c.password
    BY DEF opening, Tokened
  <1>8. o.pool = IF s.c.driver = "sqlserver_gorm" THEN effectivePool(s.c.properties) ELSE applied(s.c.properties)
    BY DEF opening
  <1>9. o.tokens = IF s.c.driver = "sqlserver_gorm" /\ Tokened(s.c) THEN "live" ELSE "none"
    BY DEF opening, Tokened
  <1>10. o.warned = IF s.c.driver = "sqlserver_gorm" THEN warned(s.c) ELSE {}
    BY DEF opening
  <1> HIDE DEF o
  <1>11. /\ s.state = o.state /\ s.sent = o.sent /\ s.port = o.port /\ s.instance = o.instance /\ s.user = o.user
         /\ s.password = o.password /\ s.pool = o.pool /\ s.tokens = o.tokens /\ s.warned = o.warned
         /\ s.host = o.host /\ s.db = o.db /\ s.simple = o.simple /\ s.unfaithful = o.unfaithful
    BY <1>1, <1>2 DEF SourceFields
  <1>12. s.state = "open"
    BY <1>2, <1>11
  <1>13. s.sent = CASE s.c.driver = "sqlserver_gorm" -> serverDSN(s.c)
                    [] s.c.driver = "postgres_gorm" -> postgresDSN(s.c)
                    [] s.c.driver = "mysql_gorm" -> mysqlDSN(s.c)
                    [] OTHER -> NoEntries
    BY <1>3, <1>11
  <1>14. s.port = IF s.c.driver = "sqlserver_gorm" THEN endpoint(s.c).port
                  ELSE IF s.c.port = 0 /\ s.c.driver = "mysql_gorm" THEN 3306 ELSE s.c.port
    BY <1>4, <1>11
  <1>15. s.instance = IF s.c.driver = "sqlserver_gorm" THEN endpoint(s.c).instance ELSE ""
    BY <1>5, <1>11
  <1>16. s.user = IF s.c.driver = "sqlserver_gorm" /\ Tokened(s.c) THEN "" ELSE s.c.username
    BY <1>6, <1>11
  <1>17. s.password = IF \/ s.c.driver = "sqlserver_gorm" /\ Tokened(s.c)
                         \/ s.c.username = "" /\ s.c.driver = "mysql_gorm" THEN "" ELSE s.c.password
    BY <1>7, <1>11
  <1>18. s.pool = IF s.c.driver = "sqlserver_gorm" THEN effectivePool(s.c.properties) ELSE applied(s.c.properties)
    BY <1>8, <1>11
  <1>19. s.tokens = IF s.c.driver = "sqlserver_gorm" /\ Tokened(s.c) THEN "live" ELSE "none"
    BY <1>9, <1>11
  <1>20. s.warned = IF s.c.driver = "sqlserver_gorm" THEN warned(s.c) ELSE {}
    BY <1>10, <1>11
  <1>23. s.host = s.c.host /\ s.db = s.c.db
    BY <1>11, <1>21
  <1>24. /\ s.simple = (s.c.driver = "postgres_gorm" /\ s.c.prefer_simple_protocol)
         /\ s.unfaithful = (s.c.driver = "mysql_gorm" /\ s.c.allow_unfaithful_upsert)
    BY <1>11, <1>22
  <1> QED BY <1>12, <1>13, <1>14, <1>15, <1>16, <1>17, <1>18, <1>19, <1>20, <1>23, <1>24, Zenon DEF OpenedAs

\* A connection of an engine of the framework, made of a map that was read.
FromMap(s) == Accepted(s) /\ s.raw.type = "map" /\ s.c.driver \in Engines3

\* What is known of a connection made from the file.
LEMMA FromMapFacts ==
    ASSUME NEW s, FromMap(s)
    PROVE  /\ Entries(s) = foldKeys(s.raw.entries) /\ Parsed(s.c, s.raw.entries) /\ refusals(s.c) = "fine"
           /\ s.c.driver \in {"postgres_gorm", "mysql_gorm", "sqlserver_gorm"}
           /\ s.c.driver = "postgres_gorm" => s.c.instance = "" /\ s.c.auth.method \in {"", "sql"} /\ setAuthKeys(s.c.auth) = {}
           /\ s.c.driver = "mysql_gorm" => /\ s.c.instance = "" /\ s.c.auth.method \in {"", "sql"}
                                           /\ setAuthKeys(s.c.auth) = {} /\ s.c.search_path = ""
           /\ s.c.driver = "sqlserver_gorm" => ServerFineAs(s.c)
  BY PostgresFine, MysqlFine, ServerFine DEF FromMap, Accepted, Entries, Parsed, Engines3

LEMMA ScalarsOf ==
    ASSUME NEW s, FromMap(s)
    PROVE  /\ \A k \in TextKeys : Wrote(Entries(s), k) => s.c[k] = Entries(s)[k].text
           /\ \A k \in BoolKeys : Wrote(Entries(s), k) => s.c[k] = Flag(Entries(s)[k])
           /\ Wrote(Entries(s), "password") => s.c.password = Entries(s)["password"].text
           /\ Wrote(Entries(s), "port") => s.c.port = Number(Entries(s)["port"])
  <1> DEFINE raw == s.raw.entries
             c == s.c
  <1>1. Entries(s) = foldKeys(raw) /\ Parsed(c, raw)
    BY FromMapFacts
  <1> HIDE DEF raw, c
  <1>2. /\ \A k \in TextKeys : Wrote(foldKeys(raw), k) => c[k] = foldKeys(raw)[k].text
        /\ \A k \in BoolKeys : Wrote(foldKeys(raw), k) => c[k] = Flag(foldKeys(raw)[k])
        /\ Wrote(foldKeys(raw), "password") => c.password = foldKeys(raw)["password"].text
        /\ Wrote(foldKeys(raw), "port") => c.port = Number(foldKeys(raw)["port"])
    BY <1>1, ScalarsDecoded
  <1> QED BY <1>1, <1>2 DEF c

LEMMA PortInForce ==
    ASSUME NEW s, FromMap(s), Wrote(Entries(s), "port")
    PROVE  InForce(s, "port")
  <1>1. s.c.port = Number(Entries(s)["port"])
    BY ScalarsOf
  <1>2. s.port = IF s.c.driver = "sqlserver_gorm" THEN endpoint(s.c).port
                 ELSE IF s.c.port = 0 /\ s.c.driver = "mysql_gorm" THEN 3306 ELSE s.c.port
    BY OpenedFields DEF FromMap, OpenedAs
  <1>3. s.c.port = 0 \/ endpoint(s.c).port = s.c.port
    BY DEF endpoint
  <1>4. s.c.port = 0 \/ s.port = s.c.port
    BY <1>2, <1>3
  <1> QED BY <1>1, <1>4 DEF InForce

LEMMA InstanceInForce ==
    ASSUME NEW s, FromMap(s), Wrote(Entries(s), "instance")
    PROVE  InForce(s, "instance")
  <1>1. s.c.instance = Entries(s)["instance"].text
    BY ScalarsOf DEF TextKeys
  <1>2. /\ s.instance = IF s.c.driver = "sqlserver_gorm" THEN endpoint(s.c).instance ELSE ""
        /\ s.warned = IF s.c.driver = "sqlserver_gorm" THEN warned(s.c) ELSE {}
    BY OpenedFields DEF FromMap, OpenedAs
  <1>3. CASE s.c.driver = "sqlserver_gorm"
    <2>1. endpoint(s.c).instance \in {s.c.instance, ""}
      BY DEF endpoint
    <2> QED BY <1>1, <1>2, <1>3, <2>1 DEF warned, InForce
  <1>4. CASE s.c.driver # "sqlserver_gorm"
    <2>1. s.c.instance = "" BY <1>4, FromMapFacts
    <2> QED BY <1>1, <2>1 DEF InForce
  <1> QED BY <1>3, <1>4

LEMMA UsernameInForce ==
    ASSUME NEW s, FromMap(s), Wrote(Entries(s), "username")
    PROVE  InForce(s, "username")
  <1>1. s.c.username = Entries(s)["username"].text
    BY ScalarsOf DEF TextKeys
  <1>2. s.user = s.c.username \/ s.tokens # "none"
    BY OpenedFields DEF FromMap, OpenedAs
  <1> QED BY <1>1, <1>2 DEF InForce

LEMMA PasswordInForce ==
    ASSUME NEW s, FromMap(s), Wrote(Entries(s), "password"), ~Overlooked(s, "password")
    PROVE  InForce(s, "password")
  <1>1. s.c.password = Entries(s)["password"].text
    BY ScalarsOf
  <1>2. ~(s.c.driver = "mysql_gorm" /\ s.c.username = "") /\ ~(s.tokens # "none" /\ s.c.auth.method \notin DOMAIN tokenMethodRules)
    BY DEF Overlooked
  <1>3. /\ s.password = IF \/ s.c.driver = "sqlserver_gorm" /\ Tokened(s.c)
                           \/ s.c.username = "" /\ s.c.driver = "mysql_gorm" THEN "" ELSE s.c.password
        /\ s.tokens = IF s.c.driver = "sqlserver_gorm" /\ Tokened(s.c) THEN "live" ELSE "none"
    BY OpenedFields DEF FromMap, OpenedAs
  <1>4. CASE s.c.driver = "sqlserver_gorm" /\ Tokened(s.c)
    <2>1. authMethodOf(s.c) = s.c.auth.method
      BY <1>4 DEF Tokened, authMethodOf
    <2>2. authMethodOf(s.c) \in DOMAIN tokenMethodRules
      BY <1>2, <1>3, <1>4, <2>1
    <2>3. s.c.password = ""
      BY <1>4, <2>2, FromMapFacts DEF ServerFineAs, SignInFine, Tokened
    <2> QED BY <1>1, <1>3, <1>4, <2>3 DEF InForce
  <1>5. CASE ~(s.c.driver = "sqlserver_gorm" /\ Tokened(s.c))
    BY <1>1, <1>2, <1>3, <1>5 DEF InForce
  <1> QED BY <1>4, <1>5

\* No option can take the place of the encryption that is sent.
LEMMA EncryptSent ==
    ASSUME NEW c
    PROVE  serverDSN(c).encrypt = encrypt(c)
  <1> DEFINE r == IF c.read_only THEN [application_intent |-> "ReadOnly"] ELSE NoEntries
             d == [encrypt |-> encrypt(c), app_name |-> "gorgany", trust_server_certificate |-> "false"]
  <1>1. "encrypt" \notin DOMAIN canonicalOptions(c)
    BY DEF canonicalOptions, OptionSpecs
  <1>2. "encrypt" \notin DOMAIN r
    BY DEF NoEntries
  <1>3. "encrypt" \in DOMAIN d /\ d["encrypt"] = encrypt(c)
    OBVIOUS
  <1>4. serverDSN(c) = Overlay(canonicalOptions(c), Overlay(r, d))
    BY DEF serverDSN
  <1> HIDE DEF r, d
  <1>5. Overlay(r, d)["encrypt"] = encrypt(c) /\ "encrypt" \in DOMAIN Overlay(r, d)
    BY <1>2, <1>3 DEF Overlay
  <1> DEFINE y == Overlay(r, d)
  <1>6. y["encrypt"] = encrypt(c) /\ "encrypt" \in DOMAIN y /\ serverDSN(c) = Overlay(canonicalOptions(c), y)
    BY <1>4, <1>5
  <1> HIDE DEF y
  <1> QED BY <1>1, <1>6 DEF Overlay

LEMMA SslInForce ==
    ASSUME NEW s, FromMap(s), Wrote(Entries(s), "ssl"), ~Overlooked(s, "ssl")
    PROVE  InForce(s, "ssl")
  <1>1. s.c.ssl = Entries(s)["ssl"].text
    BY ScalarsOf DEF TextKeys
  <1>2. ~SetByOption(s, "ssl")
    BY DEF Overlooked
  <1>3. /\ s.sent = CASE s.c.driver = "sqlserver_gorm" -> serverDSN(s.c)
                     [] s.c.driver = "postgres_gorm" -> postgresDSN(s.c)
                     [] s.c.driver = "mysql_gorm" -> mysqlDSN(s.c)
                     [] OTHER -> NoEntries
    BY OpenedFields DEF FromMap, OpenedAs
  <1>4. CASE s.c.driver = "sqlserver_gorm"
    <2>1. s.sent.encrypt = encrypt(s.c)
      BY <1>3, <1>4, EncryptSent
    <2>2. Folded(s.c.ssl) \in SslOff <=> encrypt(s.c) \in Weak
      BY DEF encrypt, sslToEncrypt, SslOff, Weak
    <2> QED BY <1>1, <1>4, <2>1, <2>2 DEF InForce
  <1>5. CASE s.c.driver = "postgres_gorm"
    <2> DEFINE a == IF asksForReadOnlyTransactions(s.c) THEN [default_transaction_read_only |-> "on"] ELSE NoEntries
               d == Sent([host |-> s.c.host, dbname |-> s.c.db, sslmode |-> s.c.ssl, search_path |-> s.c.search_path])
    <2>1. "sslmode" \notin DOMAIN Sent(s.c.options)
      BY <1>2, <1>5 DEF SetByOption, DSNKeys, Engines3
    <2>2. s.sent = Overlay(Sent(s.c.options), Overlay(a, d))
      BY <1>3, <1>5 DEF postgresDSN
    <2>3. "sslmode" \notin DOMAIN a
      BY DEF NoEntries
    <2>4. s.c.ssl # "" => "sslmode" \in DOMAIN d /\ d["sslmode"] = s.c.ssl
      BY DEF Sent
    <2> HIDE DEF a, d
    <2>5. s.c.ssl # "" => s.sent["sslmode"] = s.c.ssl
      BY <2>1, <2>2, <2>3, <2>4 DEF Overlay
    <2> QED BY <1>1, <1>5, <2>5 DEF InForce
  <1>6. CASE s.c.driver = "mysql_gorm"
    <2> DEFINE e == DOMAIN s.c.options
               named == {canonicalDSNParam(o) : o \in e}
               d == Sent([tls |-> s.c.ssl])
    <2>1. "tls" \notin named
      BY <1>2, <1>6 DEF SetByOption, DSNKeys, Engines3
    <2>2. PICK f, g : s.sent = Overlay(f, Overlay(d, g)) /\ DOMAIN f = named
      <3>1. s.sent = mysqlDSN(s.c) BY <1>3, <1>6
      <3> DEFINE all(p) == {o \in e : canonicalDSNParam(o) = p}
                 spelling(p) == IF all(p) \ DOMAIN Capitals # {} THEN CHOOSE o \in all(p) \ DOMAIN Capitals : TRUE
                                ELSE CHOOSE o \in all(p) : TRUE
                 f1 == [p \in named |-> s.c.options[spelling(p)]]
                 g1 == [parseTime |-> "true", charset |-> "utf8mb4", collation |-> "utf8mb4_unicode_ci"]
      <3>2. mysqlDSN(s.c) = Overlay(f1, Overlay(d, g1)) BY DEF mysqlDSN
      <3>3. DOMAIN f1 = named OBVIOUS
      <3> HIDE DEF f1, g1, d, named
      <3> QED BY <3>1, <3>2, <3>3
    <2>3. s.c.ssl # "" => "tls" \in DOMAIN d /\ d["tls"] = s.c.ssl
      BY DEF Sent
    <2> HIDE DEF d, named
    <2>4. s.c.ssl # "" => s.sent["tls"] = s.c.ssl
      BY <2>1, <2>2, <2>3 DEF Overlay
    <2> QED BY <1>1, <1>6, <2>4 DEF InForce
  <1> QED BY <1>4, <1>5, <1>6, FromMapFacts

\* The server and its database.
LEMMA AddressInForce ==
    ASSUME NEW s, FromMap(s), NEW k \in {"host", "db"}, Wrote(Entries(s), k), ~Overlooked(s, k)
    PROVE  InForce(s, k)
  <1>1. s.c[k] = Entries(s)[k].text
    BY ScalarsOf DEF TextKeys
  <1>2. CASE s.c.driver = "postgres_gorm"
    <2> DEFINE a == IF asksForReadOnlyTransactions(s.c) THEN [default_transaction_read_only |-> "on"] ELSE NoEntries
               d == Sent([host |-> s.c.host, dbname |-> s.c.db, sslmode |-> s.c.ssl, search_path |-> s.c.search_path])
               p == IF k = "host" THEN "host" ELSE "dbname"
    <2>1. p \notin DOMAIN Sent(s.c.options)
      <3>1. CASE k = "host"
        BY <1>2, <3>1 DEF Overlooked, SetByOption, DSNKeys, Engines3
      <3>2. CASE k = "db"
        BY <1>2, <3>2 DEF Overlooked, SetByOption, DSNKeys, Engines3
      <3> QED BY <3>1, <3>2
    <2>2. s.sent = Overlay(Sent(s.c.options), Overlay(a, d))
      BY <1>2, OpenedFields DEF FromMap, OpenedAs, postgresDSN
    <2>3. p \notin DOMAIN a
      BY DEF NoEntries
    <2>4. s.c.host # "" /\ s.c.db # ""
      <3>1. refusals(s.c) = "fine" /\ s.c.driver \in Engines3 BY FromMapFacts DEF FromMap
      <3> QED BY <3>1, EngineFine, ValidPool
    <2>5. p \in DOMAIN d /\ d[p] = s.c[k]
      BY <2>4 DEF Sent
    <2> HIDE DEF a, d, p
    <2>6. s.sent[p] = s.c[k]
      BY <2>1, <2>2, <2>3, <2>5 DEF Overlay
    <2> QED BY <1>1, <1>2, <2>6 DEF InForce, p
  <1>3. CASE s.c.driver # "postgres_gorm"
    <2>1. s.host = s.c.host /\ s.db = s.c.db
      BY OpenedFields DEF FromMap, OpenedAs
    <2> QED BY <1>1, <1>3, <2>1 DEF InForce
  <1> QED BY <1>2, <1>3

\* Which engine it is, and the flags that change how the engine is talked to.
LEMMA DriverInForce ==
    ASSUME NEW s, FromMap(s), Wrote(Entries(s), "driver")
    PROVE  InForce(s, "driver")
  BY ScalarsOf DEF TextKeys, InForce

LEMMA SwitchInForce ==
    ASSUME NEW s, FromMap(s), Finished(s),
           NEW k \in {"prefer_simple_protocol", "allow_unfaithful_upsert", "lazy_connect", "log"},
           Wrote(Entries(s), k), ~Overlooked(s, k)
    PROVE  InForce(s, k)
  <1>1. s.c[k] = Flag(Entries(s)[k])
    BY ScalarsOf DEF BoolKeys
  <1>2. /\ s.simple = (s.c.driver = "postgres_gorm" /\ s.c.prefer_simple_protocol)
        /\ s.unfaithful = (s.c.driver = "mysql_gorm" /\ s.c.allow_unfaithful_upsert)
    BY OpenedFields DEF FromMap, OpenedAs
  <1>3. (s.dialed <=> ~s.c.lazy_connect) /\ s.logs = s.c.log
    BY DEF Finished, FromMap
  <1>4. CASE k = "prefer_simple_protocol"
    <2>1. s.c.driver = "postgres_gorm" BY <1>4 DEF Overlooked, OnlyOn
    <2> QED BY <1>1, <1>2, <1>4, <2>1 DEF InForce
  <1>5. CASE k = "allow_unfaithful_upsert"
    <2>1. s.c.driver = "mysql_gorm" BY <1>5 DEF Overlooked, OnlyOn
    <2> QED BY <1>1, <1>2, <1>5, <2>1 DEF InForce
  <1>6. CASE k = "lazy_connect"
    BY <1>1, <1>3, <1>6 DEF InForce
  <1>7. CASE k = "log"
    BY <1>1, <1>3, <1>7 DEF InForce
  <1> QED BY <1>4, <1>5, <1>6, <1>7

LEMMA SearchPathInForce ==
    ASSUME NEW s, FromMap(s), Wrote(Entries(s), "search_path"), ~Overlooked(s, "search_path")
    PROVE  InForce(s, "search_path")
  <1>1. s.c.search_path = Entries(s)["search_path"].text
    BY ScalarsOf DEF TextKeys
  <1>2. CASE s.c.driver = "postgres_gorm"
    <2> DEFINE a == IF asksForReadOnlyTransactions(s.c) THEN [default_transaction_read_only |-> "on"] ELSE NoEntries
               d == Sent([host |-> s.c.host, dbname |-> s.c.db, sslmode |-> s.c.ssl, search_path |-> s.c.search_path])
    <2>1. "search_path" \notin DOMAIN Sent(s.c.options)
      BY <1>2 DEF Overlooked, SetByOption, DSNKeys, Engines3
    <2>2. s.sent = Overlay(Sent(s.c.options), Overlay(a, d))
      BY <1>2, OpenedFields DEF FromMap, OpenedAs, postgresDSN
    <2>3. "search_path" \notin DOMAIN a
      BY DEF NoEntries
    <2>4. s.c.search_path # "" => "search_path" \in DOMAIN d /\ d["search_path"] = s.c.search_path
      BY DEF Sent
    <2> HIDE DEF a, d
    <2>5. s.c.search_path # "" => s.sent["search_path"] = s.c.search_path
      BY <2>1, <2>2, <2>3, <2>4 DEF Overlay
    <2> QED BY <1>1, <1>2, <2>5 DEF InForce
  <1>3. CASE s.c.driver # "postgres_gorm"
    <2>1. s.c.search_path = ""
      BY <1>3, FromMapFacts DEF ServerFineAs
    <2> QED BY <1>1, <2>1 DEF InForce
  <1> QED BY <1>2, <1>3

LEMMA FlagsInForce ==
    ASSUME NEW s, FromMap(s), Guarded(s), NEW k \in PolicyFlags, Wrote(Entries(s), k)
    PROVE  InForce(s, k)
  <1>0. k \in {"read_only", "external_schema"}
    BY DEF PolicyFlags
  <1>1. s.c[k] = Flag(Entries(s)[k])
    BY <1>0, ScalarsOf DEF BoolKeys
  <1>2. s.c[k] => k \in s.guards
    BY DEF Guarded, flagsOf, FromMap
  <1> QED BY <1>0, <1>1, <1>2 DEF InForce

LEMMA OptionsInForce ==
    ASSUME NEW s, FromMap(s), Wrote(Entries(s), "options"), ~Overlooked(s, "options")
    PROVE  InForce(s, "options")
  <1> DEFINE entries == Entries(s)["options"].entries
             c == s.c
  <1>1. /\ DOMAIN c.options = DOMAIN entries
        /\ \A o \in DOMAIN entries : entries[o] # Unset => c.options[o] = entries[o].text
    <2>1. Entries(s) = foldKeys(s.raw.entries) /\ Parsed(c, s.raw.entries)
      BY FromMapFacts
    <2> HIDE DEF c
    <2> QED BY <2>1, OptionsDecoded
  <1>2. s.sent = CASE c.driver = "sqlserver_gorm" -> serverDSN(c)
                   [] c.driver = "postgres_gorm" -> postgresDSN(c)
                   [] c.driver = "mysql_gorm" -> mysqlDSN(c)
                   [] OTHER -> NoEntries
    BY OpenedFields DEF FromMap, OpenedAs
  <1>3. SUFFICES ASSUME NEW o \in DOMAIN entries, entries[o] # Unset
                 PROVE  OptionKept(s, o, entries[o].text)
    BY DEF InForce
  <1>4. o \in DOMAIN c.options /\ c.options[o] = entries[o].text
    BY <1>1, <1>3
  <1>5. CASE c.driver = "sqlserver_gorm"
    <2> DEFINE n == canonicalOption(o)
               y == Overlay(IF c.read_only THEN [application_intent |-> "ReadOnly"] ELSE NoEntries,
                            [encrypt |-> encrypt(c), app_name |-> "gorgany", trust_server_certificate |-> "false"])
    <2>1. ~badOptions(c)
      BY <1>5, FromMapFacts DEF ServerFineAs
    <2>2. n \in DOMAIN OptionSpecs /\ \A p \in DOMAIN c.options : canonicalOption(p) = n => p = o
      BY <2>1, <1>4 DEF badOptions
    <2>3. (CHOOSE p \in DOMAIN c.options : canonicalOption(p) = n) = o
      BY <1>4, <2>2
    <2>4. n \in DOMAIN canonicalOptions(c) /\ canonicalOptions(c)[n] = optionValue(OptionSpecs[n], c.options[o])
      BY <1>4, <2>2, <2>3 DEF canonicalOptions
    <2>5. s.sent = Overlay(canonicalOptions(c), y)
      BY <1>2, <1>5 DEF serverDSN
    <2> HIDE DEF y, n
    <2>6. s.sent[n] = optionValue(OptionSpecs[n], c.options[o])
      BY <2>4, <2>5 DEF Overlay
    <2> QED BY <1>4, <1>5, <2>6 DEF OptionKept, n
  <1>6. CASE c.driver = "mysql_gorm"
    <2> DEFINE e == DOMAIN c.options
               all(p) == {q \in e : canonicalDSNParam(q) = p}
               spelling(p) == IF all(p) \ DOMAIN Capitals # {} THEN CHOOSE q \in all(p) \ DOMAIN Capitals : TRUE
                              ELSE CHOOSE q \in all(p) : TRUE
               f == [p \in {canonicalDSNParam(q) : q \in e} |-> c.options[spelling(p)]]
               y == Overlay(Sent([tls |-> c.ssl]),
                            [parseTime |-> "true", charset |-> "utf8mb4", collation |-> "utf8mb4_unicode_ci"])
               n == canonicalDSNParam(o)
    <2>1. all(n) = {o}
      <3>1. \A q \in DOMAIN c.options : q # o => canonicalDSNParam(q) # canonicalDSNParam(o)
        BY <1>4, <1>6 DEF Overlooked
      <3> QED BY <1>4, <3>1
    <2>2. spelling(n) = o
      <3> HIDE DEF n
      <3>1. CASE o \in DOMAIN Capitals
        <4>1. all(n) \ DOMAIN Capitals = {} BY <2>1, <3>1
        <4>2. \A q \in all(n) : q = o BY <2>1
        <4> QED BY <2>1, <4>1, <4>2
      <3>2. CASE o \notin DOMAIN Capitals
        <4>1. all(n) \ DOMAIN Capitals = {o} BY <2>1, <3>2
        <4> QED BY <4>1
      <3> QED BY <3>1, <3>2
    <2>3. n \in DOMAIN f /\ f[n] = c.options[o]
      BY <1>4, <2>2
    <2>4. s.sent = Overlay(f, y)
      BY <1>2, <1>6 DEF mysqlDSN
    <2> HIDE DEF f, y, n
    <2>5. s.sent[n] = c.options[o]
      BY <2>3, <2>4 DEF Overlay
    <2> QED BY <1>4, <1>6, <2>5 DEF OptionKept, n
  <1>7. CASE c.driver = "postgres_gorm"
    <2> DEFINE y == Overlay(IF asksForReadOnlyTransactions(c) THEN [default_transaction_read_only |-> "on"] ELSE NoEntries,
                            Sent([host |-> c.host, dbname |-> c.db, sslmode |-> c.ssl, search_path |-> c.search_path]))
    <2>1. s.sent = Overlay(Sent(c.options), y)
      BY <1>2, <1>7 DEF postgresDSN
    <2> HIDE DEF y
    <2>2. c.options[o] # "" => o \in DOMAIN Sent(c.options) /\ Sent(c.options)[o] = c.options[o]
      BY <1>4 DEF Sent
    <2>3. c.options[o] # "" => s.sent[o] = c.options[o]
      BY <2>1, <2>2 DEF Overlay
    <2> QED BY <1>4, <1>7, <2>3 DEF OptionKept
  <1> QED BY <1>5, <1>6, <1>7, FromMapFacts

LEMMA PoolInForce ==
    ASSUME NEW s, FromMap(s), Wrote(Entries(s), "properties"), ~Overlooked(s, "properties")
    PROVE  InForce(s, "properties")
  <1> DEFINE w == Within(s, "properties")
             p == s.c.properties
  <1>1. /\ DOMAIN p = DOMAIN KnownPool /\ \A f \in DOMAIN KnownPool : p[f] \in Int
        /\ DOMAIN w \subseteq DOMAIN KnownPool
        /\ \A f \in DOMAIN w : Wrote(w, f) => p[f] = Number(w[f])
    <2> DEFINE raw == s.raw.entries
               c == s.c
    <2>1. Entries(s) = foldKeys(raw) /\ Parsed(c, raw)
      BY FromMapFacts
    <2>2. w = foldKeys(foldKeys(raw)["properties"].entries)
      BY <2>1 DEF Within
    <2>3. /\ DOMAIN p = DOMAIN KnownPool /\ \A f \in DOMAIN KnownPool : p[f] \in Int
          /\ Wrote(foldKeys(raw), "properties") =>
                  LET v == foldKeys(foldKeys(raw)["properties"].entries) IN
                  /\ DOMAIN v \subseteq DOMAIN KnownPool
                  /\ \A f \in DOMAIN v : Wrote(v, f) => p[f] = Number(v[f])
      <3> HIDE DEF raw
      <3> QED BY <2>1, PoolDecoded
    <2> QED BY <2>1, <2>2, <2>3
  <1>2. ~(p.maxopenconnections < 0) /\ ~(p.maxidleconnections < 0)
    <2>1. refusals(s.c) = "fine" /\ s.c.driver \in Engines3 BY FromMapFacts DEF FromMap
    <2> QED BY <2>1, EngineFine, ValidPool
  <1>3. s.pool = IF s.c.driver = "sqlserver_gorm" THEN effectivePool(p) ELSE applied(p)
    BY OpenedFields DEF FromMap, OpenedAs
  <1>4. s.c.driver # "sqlserver_gorm" => ~(p.connectionmaxlifetime < 0) /\ ~(p.connectionmaxidlelifetime < 0)
    BY FromMapFacts DEF Overlooked
  <1>5. DOMAIN KnownPool = {"maxopenconnections", "maxidleconnections", "connectionmaxlifetime", "connectionmaxidlelifetime"}
    BY DEF KnownPool
  <1>6. SUFFICES ASSUME NEW f \in DOMAIN w, Wrote(w, f) PROVE PoolKept(s, f, w[f])
    BY DEF InForce
  <1>7. f \in DOMAIN KnownPool /\ p[f] = Number(w[f])
    BY <1>1, <1>6
  <1>8. p[f] = 0 \/ s.pool[f] = p[f] \/ (f = "maxidleconnections" /\ s.pool[f] = s.pool["maxopenconnections"])
    <2> HIDE DEF p, w
    <2>1. CASE s.c.driver = "sqlserver_gorm"
      <3>1. s.pool = effectivePool(p) BY <1>3, <2>1
      <3>2. p.maxopenconnections \in Int /\ p.maxidleconnections \in Int
        BY <1>1, <1>5
      <3>3. /\ p.maxopenconnections # 0 => s.pool.maxopenconnections = p.maxopenconnections
            /\ p.connectionmaxlifetime # 0 => s.pool.connectionmaxlifetime = p.connectionmaxlifetime
            /\ p.connectionmaxidlelifetime # 0 => s.pool.connectionmaxidlelifetime = p.connectionmaxidlelifetime
            /\ p.maxidleconnections # 0 => \/ s.pool.maxidleconnections = p.maxidleconnections
                                          \/ s.pool.maxidleconnections = s.pool.maxopenconnections
        BY <1>1, <1>5, <3>1, <3>2 DEF effectivePool
      <3> QED BY <1>5, <1>7, <3>3
    <2>2. CASE s.c.driver # "sqlserver_gorm"
      <3>1. s.pool = applied(p) BY <1>3, <2>2
      <3>2. s.pool[f] = IF p[f] > 0 THEN p[f] ELSE 0 BY <1>1, <1>7, <3>1 DEF applied
      <3>3. p[f] \in Int /\ ~(p[f] < 0) BY <1>1, <1>2, <1>4, <1>5, <1>7, <2>2
      <3> QED BY <3>2, <3>3
    <2> QED BY <2>1, <2>2
  <1> QED BY <1>7, <1>8 DEF PoolKept

\* A field counts as set when it is not what an absent one reads as.
LEMMA SetFields ==
    ASSUME NEW a, NEW f \in setAuthKeys(a)
    PROVE  /\ f = "client_secret" => a.client_secret # ""
           /\ f = "certificate_path" => a.certificate_path # ""
           /\ f = "certificate_password" => a.certificate_password # ""
           /\ f = "authentication_record_path" => a.authentication_record_path # ""
           /\ f = "send_certificate_chain" => a.send_certificate_chain
  <1>1. /\ KnownAuth["client_secret"] = "secret" /\ KnownAuth["certificate_path"] = "text"
        /\ KnownAuth["certificate_password"] = "secret" /\ KnownAuth["authentication_record_path"] = "text"
        /\ KnownAuth["send_certificate_chain"] = "bool"
    BY DEF KnownAuth
  <1>2. CASE KnownAuth[f] = "bool"
    <2>1. a[f] BY <1>2 DEF setAuthKeys
    <2> QED BY <1>1, <1>2, <2>1
  <1>3. CASE KnownAuth[f] \in {"text", "secret"}
    <2>1. a[f] # "" BY <1>3 DEF setAuthKeys
    <2> QED BY <1>1, <1>3, <2>1
  <1>4. CASE KnownAuth[f] \notin {"bool", "text", "secret"}
    BY <1>1, <1>4
  <1> QED BY <1>2, <1>3, <1>4

\* Every field the checks let through for a method is read by its credential.
LEMMA CredentialTakesAll ==
    ASSUME NEW a, NEW method \in DOMAIN tokenMethodRules, ~extra(method, a),
           NEW f \in setAuthKeys(a), f \in tokenMethodRules[method] \cup AnyToken
    PROVE  f \in CredentialReads(method, a)
  <1>1. CASE f \in AnyToken
    BY <1>1 DEF CredentialReads
  <1>2. CASE f \in tokenMethodRules[method]
    <2>1. CASE method = "interactive"
      <3>1. f \in Person \cup {"redirect_url"} BY <1>2, <2>1 DEF tokenMethodRules
      <3>2. f = "authentication_record_path" => a.token_cache = "persistent"
        BY <2>1, SetFields DEF extra, checkTokenCache
      <3> QED BY <2>1, <3>1, <3>2 DEF CredentialReads, Person
    <2>2. CASE method = "device_code"
      <3>1. f \in Person BY <1>2, <2>2 DEF tokenMethodRules
      <3>2. f = "authentication_record_path" => a.token_cache = "persistent"
        BY <2>2, SetFields DEF extra, checkTokenCache
      <3> QED BY <2>2, <3>1, <3>2 DEF CredentialReads, Person
    <2>3. CASE method \in {"azure_cli", "azure_default"}
      <3>1. f = "tenant_id" BY <1>2, <2>3 DEF tokenMethodRules
      <3> QED BY <2>3, <3>1 DEF CredentialReads
    <2>4. CASE method = "service_principal"
      <3>1. f \in {"tenant_id", "client_id", "client_secret", "certificate_path", "certificate_password", "send_certificate_chain"}
        BY <1>2, <2>4 DEF tokenMethodRules
      <3>2. ~checkServicePrincipal(a) BY <2>4 DEF extra
      <3>3. f = "client_secret" => a.client_secret # "" BY SetFields
      <3>4. f = "certificate_path" => a.certificate_path # "" BY SetFields
      <3>5. f = "certificate_password" => a.certificate_password # "" BY SetFields
      <3>6. f = "send_certificate_chain" => a.send_certificate_chain BY SetFields
      <3>7. f \in {"certificate_password", "send_certificate_chain"} => a.certificate_path # ""
        BY <3>2, <3>5, <3>6 DEF checkServicePrincipal
      <3>8. f = "client_secret" => a.certificate_path = ""
        BY <3>2, <3>3 DEF checkServicePrincipal
      <3> QED BY <2>4, <3>1, <3>4, <3>7, <3>8 DEF CredentialReads
    <2>5. CASE method = "managed_identity"
      <3>1. f \in {"client_id", "resource_id", "object_id"} BY <1>2, <2>5 DEF tokenMethodRules
      <3> QED BY <2>5, <3>1 DEF CredentialReads
    <2>6. CASE method = "workload_identity"
      <3>1. f \in {"tenant_id", "client_id", "token_file_path"} BY <1>2, <2>6 DEF tokenMethodRules
      <3> QED BY <2>6, <3>1 DEF CredentialReads
    <2> QED BY <2>1, <2>2, <2>3, <2>4, <2>5, <2>6 DEF tokenMethodRules
  <1> QED BY <1>1, <1>2

\* A field that is not set was written empty.
LEMMA UnsetFieldKept ==
    ASSUME NEW a, NEW f \in DOMAIN KnownAuth \ {"method"}, f \notin setAuthKeys(a), NEW v, AuthSays(a, f, v)
    PROVE  /\ KnownAuth[f] = "bool" => ~Flag(v)
           /\ KnownAuth[f] = "count" => Number(v) = 0
           /\ KnownAuth[f] \notin {"bool", "count"} => v.text = ""
  <1>1. KnownAuth[f] \in {"text", "secret", "folded", "bool", "count"}
    BY DEF KnownAuth
  <1>2. CASE KnownAuth[f] = "bool"
    BY <1>2 DEF setAuthKeys, AuthSays
  <1>3. CASE KnownAuth[f] = "count"
    BY <1>3 DEF setAuthKeys, AuthSays
  <1>4. CASE KnownAuth[f] \in {"text", "secret"}
    BY <1>4 DEF setAuthKeys, AuthSays
  <1>5. CASE KnownAuth[f] = "folded"
    <2>1. a[f] = "" /\ a[f] = Folded(v.text) BY <1>5 DEF setAuthKeys, AuthSays
    <2> QED BY <1>5, <2>1, FoldedEmpty
  <1> QED BY <1>1, <1>2, <1>3, <1>4, <1>5

\* A sign-in field that was written is read by the credential, or was written empty.
LEMMA AuthInForce ==
    ASSUME NEW s, FromMap(s), Wrote(Entries(s), "auth")
    PROVE  InForce(s, "auth")
  <1> DEFINE w == Within(s, "auth")
             c == s.c
  <1>1. DOMAIN w \subseteq DOMAIN KnownAuth /\ \A f \in DOMAIN w : Wrote(w, f) => AuthSays(c.auth, f, w[f])
    <2> DEFINE raw == s.raw.entries
    <2>1. Entries(s) = foldKeys(raw) /\ Parsed(c, raw)
      BY FromMapFacts
    <2>2. w = foldKeys(foldKeys(raw)["auth"].entries)
      BY <2>1 DEF Within
    <2> HIDE DEF raw, c
    <2> QED BY <2>1, <2>2, AuthDecoded
  <1>2. s.tokens = IF c.driver = "sqlserver_gorm" /\ Tokened(c) THEN "live" ELSE "none"
    BY OpenedFields DEF FromMap, OpenedAs
  <1>3. SUFFICES ASSUME NEW f \in DOMAIN w, Wrote(w, f) PROVE AuthKept(s, f, w[f])
    BY DEF InForce
  <1>4. f \in DOMAIN KnownAuth /\ AuthSays(c.auth, f, w[f])
    BY <1>1, <1>3
  <1>5. c.driver # "sqlserver_gorm" => ~Tokened(c) /\ setAuthKeys(c.auth) = {}
    BY FromMapFacts DEF Tokened, authMethodOf
  <1>6. c.driver = "sqlserver_gorm" /\ ~Tokened(c) => setAuthKeys(c.auth) = {}
    BY FromMapFacts DEF Tokened, ServerFineAs, SignInFine
  <1>7. CASE f = "method"
    <2>1. authMethodOf(c) = "sql" <=> s.tokens = "none"
      BY <1>2, <1>5 DEF Tokened
    <2> QED BY <1>7, <2>1 DEF AuthKept, KnownAuth
  <1>8. CASE f # "method" /\ f \notin setAuthKeys(c.auth)
    <2> HIDE DEF w, c
    <2>1. /\ KnownAuth[f] = "bool" => ~Flag(w[f])
          /\ KnownAuth[f] = "count" => Number(w[f]) = 0
          /\ KnownAuth[f] \notin {"bool", "count"} => w[f].text = ""
      BY <1>4, <1>8, UnsetFieldKept
    <2> QED BY <1>8, <2>1 DEF AuthKept
  <1>9. CASE f # "method" /\ f \in setAuthKeys(c.auth)
    <2>1. c.driver = "sqlserver_gorm" /\ Tokened(c)
      BY <1>5, <1>6, <1>9
    <2>2. s.tokens # "none" /\ authMethodOf(c) = c.auth.method
      BY <1>2, <2>1 DEF Tokened, authMethodOf
    <2>3. f \in CredentialReads(c.auth.method, c.auth)
      <3>1. CASE c.auth.method \in DOMAIN tokenMethodRules
        <4>1. /\ setAuthKeys(c.auth) \subseteq tokenMethodRules[c.auth.method] \cup AnyToken
              /\ ~extra(c.auth.method, c.auth)
          BY <2>1, <2>2, <3>1, FromMapFacts DEF ServerFineAs, SignInFine, Tokened
        <4> HIDE DEF c
        <4> QED BY <1>9, <3>1, <4>1, CredentialTakesAll
      <3>2. CASE c.auth.method \notin DOMAIN tokenMethodRules
        BY <1>4, <3>2 DEF CredentialReads, tokenMethodRules
      <3> QED BY <3>1, <3>2
    <2> QED BY <1>9, <2>2, <2>3 DEF AuthKept
  <1> QED BY <1>7, <1>8, <1>9

\* A key that was accepted is in force, on any engine of the framework.
LEMMA KeyInForce ==
    ASSUME NEW s, Accepted(s), Guarded(s), Finished(s), s.c.driver \in Engines3, NEW k \in DOMAIN Entries(s),
           Wrote(Entries(s), k), ~Overlooked(s, k)
    PROVE  InForce(s, k)
  <1>1. s.raw.type = "map"
    BY DEF Entries, NoEntries
  <1>2. FromMap(s)
    BY <1>1 DEF FromMap
  <1>3. k \in DOMAIN Known
    <2> DEFINE raw == s.raw.entries
    <2>1. Entries(s) = foldKeys(raw) /\ Parsed(s.c, raw)
      BY <1>2, FromMapFacts
    <2> HIDE DEF raw
    <2>2. unknownKeys(raw, Known) = {}
      BY <2>1 DEF Parsed, Parse, Bad
    <2>3. PICK w \in DOMAIN raw : k = Lowered(w)
      BY <2>1 DEF foldKeys
    <2> QED BY <2>2, <2>3 DEF unknownKeys
  <1>4. CASE k \in {"port", "instance", "username", "password", "ssl", "search_path", "options", "properties", "auth"}
    BY <1>2, <1>4, PortInForce, InstanceInForce, UsernameInForce, PasswordInForce, SslInForce, SearchPathInForce,
       OptionsInForce, PoolInForce, AuthInForce
  <1>5. CASE k \in {"driver", "host", "db"} \cup PolicyFlags
    BY <1>2, <1>5, DriverInForce, AddressInForce, FlagsInForce
  <1>6. CASE k \in {"prefer_simple_protocol", "allow_unfaithful_upsert", "lazy_connect", "log"}
    BY <1>2, <1>6, SwitchInForce
  <1> QED BY <1>3, <1>4, <1>5, <1>6 DEF Known, PolicyFlags

---------------------------------------------------------------------------
(* Secrets and tokens.                                                     *)

\* A refusal that names a secret quotes nothing.
Quiet(read) == ~read.ok => (read.at \in SecretKeys => read.shows = {})

LEMMA ReadsQuiet ==
    /\ \A m : \A k : k \notin SecretKeys => Quiet(optString(m, k)) /\ Quiet(optInt(m, k)) /\ Quiet(optBool(m, k))
    /\ \A m : Quiet(optPassword(m))
    /\ \A m : \A k : Quiet(optStringMap(m, k)) /\ Quiet(optSecretString(m, k))
  <1>1. \A m : \A k : k \notin SecretKeys => Quiet(optString(m, k)) /\ Quiet(optInt(m, k)) /\ Quiet(optBool(m, k))
    <2>0. (\A x : Took(x).ok = TRUE) /\ (\A k, q : Bad(k, q).at = k)
      BY DEF Took, Bad
    <2> TAKE m
    <2> TAKE k
    <2> HAVE k \notin SecretKeys
    <2>1. Quiet(optString(m, k)) BY <2>0 DEF Quiet, optString
    <2>2. Quiet(optInt(m, k)) BY <2>0 DEF Quiet, optInt
    <2>3. Quiet(optBool(m, k)) BY <2>0 DEF Quiet, optBool
    <2> QED BY <2>1, <2>2, <2>3
  <1>2. \A m : Quiet(optPassword(m))
    BY DEF Quiet, optPassword, Took, Bad
  <1>3. \A m : \A k : Quiet(optStringMap(m, k)) /\ Quiet(optSecretString(m, k))
    BY DEF Quiet, optStringMap, optSecretString, Took, Bad
  <1> QED BY <1>1, <1>2, <1>3

LEMMA PoolQuiet ==
    ASSUME NEW m
    PROVE  Quiet(parsePool(m))
  <1> DEFINE entries == IF Wrote(m, "properties") THEN m["properties"].entries ELSE NoEntries
             folded == foldKeys(entries)
             reads == [f \in DOMAIN KnownPool |-> optInt(folded, f)]
  <1>1. parsePool(m) = Bad("properties", {}) \/ parsePool(m) = InOrder(PoolOrder, reads)
    BY DEF parsePool, Block
  <1>2. \A f \in DOMAIN KnownPool : Quiet(reads[f])
    <2>1. DOMAIN KnownPool \cap SecretKeys = {} BY DEF KnownPool, SecretKeys
    <2> HIDE DEF folded
    <2> QED BY <2>1, ReadsQuiet
  <1> HIDE DEF reads
  <1>3. Quiet(InOrder(PoolOrder, reads))
    BY <1>2, InOrderIs, OrdersCover DEF Quiet, Took
  <1> QED BY <1>1, <1>3 DEF Quiet, Bad

LEMMA AuthQuiet ==
    ASSUME NEW m
    PROVE  Quiet(parseAuth(m))
  <1> DEFINE entries == IF Wrote(m, "auth") THEN m["auth"].entries ELSE NoEntries
             folded == foldKeys(entries)
             reads == [f \in DOMAIN KnownAuth |-> authField(folded, f)]
  <1>1. parseAuth(m) = Bad("auth", {}) \/ parseAuth(m) = InOrder(AuthOrder, reads)
    BY DEF parseAuth, Block
  <1>2. \A f \in DOMAIN KnownAuth : Quiet(reads[f])
    <2> SUFFICES ASSUME NEW f \in DOMAIN KnownAuth PROVE Quiet(authField(folded, f))
      OBVIOUS
    <2> HIDE DEF folded
    <2>1. KnownAuth[f] # "secret" => f \notin SecretKeys
      BY DEF KnownAuth, SecretKeys
    <2>2. CASE KnownAuth[f] = "text"
      <3>1. authField(folded, f) = optString(folded, f) BY <2>2 DEF authField
      <3> QED BY <2>1, <2>2, <3>1, ReadsQuiet
    <2>3. CASE KnownAuth[f] = "folded"
      <3>1. authField(folded, f) = IF optString(folded, f).ok THEN Took(Folded(optString(folded, f).value))
                                   ELSE optString(folded, f)
        BY <2>3 DEF authField
      <3>2. Quiet(optString(folded, f)) BY <2>1, <2>3, ReadsQuiet
      <3> QED BY <3>1, <3>2 DEF Quiet, Took
    <2>4. CASE KnownAuth[f] = "secret"
      <3>1. authField(folded, f) = optSecretString(folded, f) BY <2>4 DEF authField
      <3> QED BY <3>1, ReadsQuiet
    <2>5. CASE KnownAuth[f] = "bool"
      <3>1. authField(folded, f) = optBool(folded, f) BY <2>5 DEF authField
      <3> QED BY <2>1, <2>5, <3>1, ReadsQuiet
    <2>6. CASE KnownAuth[f] \notin {"text", "folded", "secret", "bool"}
      <3>1. authField(folded, f) = IF optInt(folded, f).ok /\ optInt(folded, f).value < 0
                                   THEN Bad(f, {folded[f]}) ELSE optInt(folded, f)
        BY <2>6 DEF authField
      <3>2. Quiet(optInt(folded, f)) /\ f \notin SecretKeys BY <2>1, <2>6, ReadsQuiet
      <3> QED BY <3>1, <3>2 DEF Quiet, Bad
    <2> QED BY <2>2, <2>3, <2>4, <2>5, <2>6
  <1> HIDE DEF reads
  <1>3. Quiet(InOrder(AuthOrder, reads))
    BY <1>2, InOrderIs, OrdersCover DEF Quiet, Took
  <1> QED BY <1>1, <1>3 DEF Quiet, Bad

\* Whatever Parse refuses, it quotes no secret.
LEMMA ParseQuiet ==
    ASSUME NEW raw
    PROVE  Quiet(Parse(raw))
  <1> DEFINE m == foldKeys(raw)
             reads == [k \in DOMAIN Known |-> topLevel(m, k)]
  <1>1. Parse(raw) = Bad("unknown", {}) \/ Parse(raw) = InOrder(Order, reads)
    BY DEF Parse
  <1>2. \A k \in DOMAIN Known : Quiet(reads[k])
    <2> SUFFICES ASSUME NEW k \in DOMAIN Known PROVE Quiet(topLevel(m, k))
      OBVIOUS
    <2> HIDE DEF m
    <2>1. CASE k \in TextKeys \cup BoolKeys \cup {"port"}
      <3>1. k \notin SecretKeys BY <2>1 DEF TextKeys, BoolKeys, SecretKeys
      <3> QED BY <2>1, <3>1, TopKinds, ReadsQuiet
    <2>2. CASE k \in {"password", "options"}
      BY <2>2, TopKinds, ReadsQuiet
    <2>3. CASE k \in {"properties", "auth"}
      BY <2>3, TopKinds, PoolQuiet, AuthQuiet
    <2>4. DOMAIN Known = TextKeys \cup BoolKeys \cup {"port", "password", "options", "properties", "auth"}
      BY DEF Known, TextKeys, BoolKeys
    <2> QED BY <2>1, <2>2, <2>3, <2>4
  <1> HIDE DEF reads
  <1>3. Quiet(InOrder(Order, reads))
    BY <1>2, InOrderIs, OrdersCover DEF Quiet, Took
  <1> QED BY <1>1, <1>3 DEF Quiet, Bad

\* A token is only ever kept for a connection that is encrypted to a verified server.
LEMMA TokenSafe ==
    ASSUME NEW s, Accepted(s), s.tokens = "live"
    PROVE  /\ s.sent.encrypt \notin Weak /\ s.sent.trust_server_certificate # "true"
           /\ IsAzureSQLHost(s.c.host) => scopeCloud(s.c) = AzureCloudOf(s.c.host)
  <1>1. s.c.driver = "sqlserver_gorm" /\ Tokened(s.c)
    BY OpenedFields DEF OpenedAs
  <1>2. s.sent = serverDSN(s.c)
    BY <1>1, OpenedFields DEF OpenedAs
  <1>3. ServerFineAs(s.c)
    BY <1>1, ServerFine DEF Accepted, Engines3
  <1> QED BY <1>1, <1>2, <1>3, EncryptSent DEF ServerFineAs

---------------------------------------------------------------------------
(* The map Viper hands over.                                               *)

\* Without two spellings of one key, folding is lowering, and lowering twice is lowering once.
LEMMA FoldedAlike ==
    ASSUME NEW m, ~Collides(m)
    PROVE  /\ foldKeys(m) = LowerKeys(m)
           /\ \A w \in DOMAIN m : Lowered(w) \in DOMAIN LowerKeys(m) /\ LowerKeys(m)[Lowered(w)] = m[w]
           /\ \A k \in DOMAIN LowerKeys(m) : \E w \in DOMAIN m : k = Lowered(w) /\ LowerKeys(m)[k] = m[w]
  <1> DEFINE D == {Lowered(w) : w \in DOMAIN m}
             written(k) == {w \in DOMAIN m : Lowered(w) = k}
             capital(k) == written(k) \ {k}
             F(k) == IF capital(k) # {} THEN m[CHOOSE w \in capital(k) : TRUE] ELSE m[k]
             L(k) == m[CHOOSE w \in DOMAIN m : Lowered(w) = k]
  <1>1. foldKeys(m) = [k \in D |-> F(k)] /\ LowerKeys(m) = [k \in D |-> L(k)]
    BY DEF foldKeys, LowerKeys
  <1>2. \A v, w \in DOMAIN m : Lowered(v) = Lowered(w) => v = w
    BY DEF Collides
  <1>3. \A w \in DOMAIN m : L(Lowered(w)) = m[w]
    <2> TAKE w \in DOMAIN m
    <2>1. (CHOOSE v \in DOMAIN m : Lowered(v) = Lowered(w)) = w
      BY <1>2
    <2> QED BY <2>1
  <1>4. \A w \in DOMAIN m : F(Lowered(w)) = m[w]
    <2> TAKE w \in DOMAIN m
    <2>1. written(Lowered(w)) = {w}
      BY <1>2
    <2>2. CASE w = Lowered(w)
      <3>1. capital(Lowered(w)) = {} BY <2>1, <2>2
      <3> QED BY <2>2, <3>1
    <2>3. CASE w # Lowered(w)
      <3>1. capital(Lowered(w)) = {w} BY <2>1, <2>3
      <3>2. (CHOOSE v \in capital(Lowered(w)) : TRUE) = w BY <3>1
      <3> QED BY <3>1, <3>2
    <2> QED BY <2>2, <2>3
  <1>5. \A k \in D : F(k) = L(k)
    BY <1>3, <1>4
  <1> HIDE DEF F, L
  <1>6. foldKeys(m) = LowerKeys(m)
    BY <1>1, <1>5
  <1>7. \A w \in DOMAIN m : Lowered(w) \in D /\ LowerKeys(m)[Lowered(w)] = m[w]
    BY <1>1, <1>3
  <1>8. DOMAIN LowerKeys(m) = D
    BY <1>1
  <1> QED BY <1>6, <1>7, <1>8

LEMMA LoweredAgain ==
    ASSUME NEW m, \A k \in DOMAIN m : Lowered(k) = k
    PROVE  /\ DOMAIN foldKeys(m) = DOMAIN m
           /\ \A k \in DOMAIN m : foldKeys(m)[k] = m[k]
  <1> DEFINE D == {Lowered(w) : w \in DOMAIN m}
             written(k) == {w \in DOMAIN m : Lowered(w) = k}
             capital(k) == written(k) \ {k}
             F(k) == IF capital(k) # {} THEN m[CHOOSE w \in capital(k) : TRUE] ELSE m[k]
  <1>1. foldKeys(m) = [k \in D |-> F(k)]
    BY DEF foldKeys
  <1>2. D = DOMAIN m
    OBVIOUS
  <1>3. \A k \in DOMAIN m : F(k) = m[k]
    <2> TAKE k \in DOMAIN m
    <2>1. capital(k) = {} OBVIOUS
    <2> QED BY <2>1
  <1> HIDE DEF F, D
  <1> QED BY <1>1, <1>2, <1>3

LEMMA FoldedOnce ==
    ASSUME NEW m, ~Collides(m)
    PROVE  foldKeys(LowerKeys(m)) = foldKeys(m) /\ DOMAIN LowerKeys(m) = {Lowered(w) : w \in DOMAIN m}
  <1> DEFINE l == LowerKeys(m)
  <1>1. \A k \in DOMAIN l : Lowered(k) = k
    BY FoldedAlike, LoweredTwice
  <1>2. l = [k \in DOMAIN l |-> l[k]] /\ foldKeys(l) = [k \in DOMAIN foldKeys(l) |-> foldKeys(l)[k]]
    BY DEF LowerKeys, foldKeys
  <1>3. DOMAIN l = {Lowered(w) : w \in DOMAIN m}
    BY DEF LowerKeys
  <1> HIDE DEF l
  <1>4. DOMAIN foldKeys(l) = DOMAIN l /\ \A k \in DOMAIN l : foldKeys(l)[k] = l[k]
    BY <1>1, LoweredAgain
  <1>5. foldKeys(l) = l
    BY <1>2, <1>4
  <1> QED BY <1>3, <1>5, FoldedAlike DEF l

\* v is x, or both are maps of which v's keys are lowered.
Alike(x, v) == IF x.type = "map" THEN v = Map(LowerKeys(x.entries)) /\ ~Collides(x.entries) ELSE v = x

\* The map Viper hands over has the folded keys of the map as written.
LEMMA ViperKeys ==
    ASSUME NEW raw, ~Clashing(raw)
    PROVE  LET m == foldKeys(raw)
               v == foldKeys(AsViper(raw))
           IN  /\ DOMAIN v = DOMAIN m /\ \A k \in DOMAIN m : Alike(m[k], v[k])
               /\ unknownKeys(AsViper(raw), Known) = {} <=> unknownKeys(raw, Known) = {}
  <1> DEFINE m == foldKeys(raw)
             v == AsViper(raw)
             w == foldKeys(v)
  <1>1. ~Collides(raw) /\ \A k \in DOMAIN raw : raw[k].type = "map" => ~Collides(raw[k].entries)
    BY DEF Clashing
  <1>2. m = LowerKeys(raw)
    BY <1>1, FoldedAlike
  <1>3. \A k \in DOMAIN m : \E u \in DOMAIN raw : k = Lowered(u) /\ m[k] = raw[u]
    BY <1>1, <1>2, FoldedAlike
  <1>4. v = [k \in DOMAIN m |-> IF m[k].type = "map" THEN Map(LowerKeys(m[k].entries)) ELSE m[k]]
    BY <1>2 DEF AsViper
  <1>5. DOMAIN m = {Lowered(u) : u \in DOMAIN raw}
    BY DEF foldKeys
  <1> HIDE DEF m, v
  <1>6. DOMAIN v = DOMAIN m /\ \A k \in DOMAIN m : Alike(m[k], v[k])
    BY <1>1, <1>3, <1>4 DEF Alike
  <1>7. \A k \in DOMAIN v : Lowered(k) = k
    BY <1>3, <1>6, LoweredTwice
  <1>8. DOMAIN w = DOMAIN v /\ \A k \in DOMAIN v : w[k] = v[k]
    BY <1>7, LoweredAgain
  <1>9. DOMAIN w = DOMAIN m /\ \A k \in DOMAIN m : Alike(m[k], w[k])
    BY <1>6, <1>8
  <1>10. unknownKeys(v, Known) = {} <=> unknownKeys(raw, Known) = {}
    <2>1. unknownKeys(v, Known) = {} <=> DOMAIN m \subseteq DOMAIN Known
      BY <1>6, <1>7 DEF unknownKeys
    <2>2. unknownKeys(raw, Known) = {} <=> DOMAIN m \subseteq DOMAIN Known
      BY <1>5 DEF unknownKeys
    <2> QED BY <2>1, <2>2
  <1> QED BY <1>9, <1>10 DEF m, v

\* Both are read, to the same value, or neither is.
SameRead(r, q) == r.ok \in BOOLEAN /\ q.ok = r.ok /\ (r.ok => q.value = r.value)

\* One text, number or flag is read alike from both.
LEMMA ScalarsReadAlike ==
    ASSUME NEW m, NEW v, DOMAIN v = DOMAIN m, \A k \in DOMAIN m : Alike(m[k], v[k]), NEW k
    PROVE  /\ SameRead(optString(m, k), optString(v, k)) /\ SameRead(optInt(m, k), optInt(v, k))
           /\ SameRead(optBool(m, k), optBool(v, k)) /\ SameRead(optPassword(m), optPassword(v))
           /\ Wrote(v, k) <=> Wrote(m, k)
  <1>1. \A j \in DOMAIN m : (v[j] # Unset <=> m[j] # Unset)
    BY DEF Alike, Map, Unset
  <1>2. \A j : Wrote(v, j) <=> Wrote(m, j)
    BY <1>1 DEF Wrote
  <1>3. \A j \in DOMAIN m : \/ v[j] = m[j] /\ m[j].type # "map"
                            \/ m[j].type = "map" /\ v[j].type = "map"
    BY DEF Alike, Map
  <1>4. SameRead(optString(m, k), optString(v, k))
    BY <1>2, <1>3 DEF SameRead, optString, Scalar, Took, Bad, Wrote
  <1>5. SameRead(optPassword(m), optPassword(v))
    BY <1>2, <1>3 DEF SameRead, optPassword, Scalar, Took, Bad, Wrote
  <1>6. SameRead(optInt(m, k), optInt(v, k))
    BY <1>2, <1>3 DEF SameRead, optInt, Took, Bad, Wrote
  <1>7. SameRead(optBool(m, k), optBool(v, k))
    BY <1>2, <1>3 DEF SameRead, optBool, Took, Bad, Wrote
  <1> QED BY <1>2, <1>4, <1>5, <1>6, <1>7

\* The options are refused in both or in neither.
LEMMA OptionsReadAlike ==
    ASSUME NEW m, NEW v, DOMAIN v = DOMAIN m, \A k \in DOMAIN m : Alike(m[k], v[k])
    PROVE  optStringMap(m, "options").ok \in BOOLEAN /\ optStringMap(v, "options").ok = optStringMap(m, "options").ok
  <1> DEFINE k == "options"
             Broken(x) == \E o \in DOMAIN x.entries : x.entries[o] # Unset /\ ~Scalar(x.entries[o])
  <1>1. Wrote(v, k) <=> Wrote(m, k)
    BY ScalarsReadAlike
  <1>2. CASE ~Wrote(m, k)
    BY <1>1, <1>2 DEF optStringMap, Took
  <1>3. CASE Wrote(m, k)
    <2>1. /\ optStringMap(m, k).ok = (m[k].type = "map" /\ ~Broken(m[k]))
          /\ optStringMap(v, k).ok = (v[k].type = "map" /\ ~Broken(v[k]))
      BY <1>1, <1>3 DEF optStringMap, Took, Bad
    <2>2. Alike(m[k], v[k])
      BY <1>3 DEF Wrote
    <2>3. CASE m[k].type # "map"
      BY <2>1, <2>2, <2>3 DEF Alike
    <2>4. CASE m[k].type = "map"
      <3> DEFINE e == m[k].entries
      <3>1. v[k].type = "map" /\ v[k].entries = LowerKeys(e) /\ ~Collides(e)
        BY <2>2, <2>4 DEF Alike, Map
      <3>2. /\ \A o \in DOMAIN e : \E p \in DOMAIN LowerKeys(e) : LowerKeys(e)[p] = e[o]
            /\ \A p \in DOMAIN LowerKeys(e) : \E o \in DOMAIN e : LowerKeys(e)[p] = e[o]
        BY <3>1, FoldedAlike
      <3>3. Broken(v[k]) <=> Broken(m[k])
        BY <3>1, <3>2
      <3> QED BY <2>1, <2>4, <3>1, <3>3
    <2> QED BY <2>3, <2>4
  <1> QED BY <1>2, <1>3

\* A block is read alike: its keys fold to the same map.
LEMMA BlocksReadAlike ==
    ASSUME NEW m, NEW v, DOMAIN v = DOMAIN m, \A k \in DOMAIN m : Alike(m[k], v[k])
    PROVE  parsePool(v) = parsePool(m) /\ parseAuth(v) = parseAuth(m)
  <1> DEFINE E(n, k) == IF Wrote(n, k) THEN n[k].entries ELSE NoEntries
  <1>1. \A k : /\ Wrote(v, k) <=> Wrote(m, k)
               /\ Wrote(m, k) => (v[k].type = "map" <=> m[k].type = "map")
               /\ Wrote(m, k) /\ m[k].type = "map" => v[k].entries = LowerKeys(m[k].entries) /\ ~Collides(m[k].entries)
    <2> TAKE k
    <2>1. Wrote(v, k) <=> Wrote(m, k) BY ScalarsReadAlike
    <2>2. Wrote(m, k) => Alike(m[k], v[k]) BY DEF Wrote
    <2> QED BY <2>1, <2>2 DEF Alike, Map
  <1>2. \A k : \/ Wrote(m, k) /\ m[k].type # "map"
               \/ /\ foldKeys(E(v, k)) = foldKeys(E(m, k))
                  /\ {Lowered(w) : w \in DOMAIN E(v, k)} = {Lowered(w) : w \in DOMAIN E(m, k)}
    <2> TAKE k
    <2>1. CASE ~Wrote(m, k)
      BY <1>1, <2>1
    <2>2. CASE Wrote(m, k) /\ m[k].type = "map"
      <3> DEFINE e == m[k].entries
      <3>1. E(v, k) = LowerKeys(e) /\ E(m, k) = e /\ ~Collides(e)
        BY <1>1, <2>2
      <3> HIDE DEF e
      <3>2. foldKeys(LowerKeys(e)) = foldKeys(e) /\ DOMAIN LowerKeys(e) = {Lowered(w) : w \in DOMAIN e}
        BY <3>1, FoldedOnce
      <3>3. {Lowered(w) : w \in DOMAIN LowerKeys(e)} = {Lowered(w) : w \in DOMAIN e}
        BY <3>2, LoweredTwice
      <3> QED BY <3>1, <3>2, <3>3
    <2> QED BY <2>1, <2>2
  <1>3. \A k, known : \/ Wrote(m, k) /\ m[k].type # "map"
                      \/ (unknownKeys(E(v, k), known) = {} <=> unknownKeys(E(m, k), known) = {})
    <2>1. \A n, known : unknownKeys(n, known) = {} <=> {Lowered(w) : w \in DOMAIN n} \subseteq DOMAIN known
      BY DEF unknownKeys
    <2> HIDE DEF E
    <2> TAKE k, known
    <2>2. CASE Wrote(m, k) /\ m[k].type # "map"
      BY <2>2
    <2>3. CASE {Lowered(w) : w \in DOMAIN E(v, k)} = {Lowered(w) : w \in DOMAIN E(m, k)}
      BY <2>1, <2>3
    <2> QED BY <1>2, <2>2, <2>3
  <1> HIDE DEF E
  <1>4. /\ parsePool(m) = IF Wrote(m, "properties") /\ m["properties"].type # "map" THEN Bad("properties", {})
                          ELSE IF unknownKeys(E(m, "properties"), KnownPool) # {} THEN Bad("properties", {})
                          ELSE InOrder(PoolOrder, [f \in DOMAIN KnownPool |-> optInt(foldKeys(E(m, "properties")), f)])
        /\ parsePool(v) = IF Wrote(v, "properties") /\ v["properties"].type # "map" THEN Bad("properties", {})
                          ELSE IF unknownKeys(E(v, "properties"), KnownPool) # {} THEN Bad("properties", {})
                          ELSE InOrder(PoolOrder, [f \in DOMAIN KnownPool |-> optInt(foldKeys(E(v, "properties")), f)])
    BY DEF parsePool, Block, E
  <1>5. /\ parseAuth(m) = IF Wrote(m, "auth") /\ m["auth"].type # "map" THEN Bad("auth", {})
                          ELSE IF unknownKeys(E(m, "auth"), KnownAuth) # {} THEN Bad("auth", {})
                          ELSE InOrder(AuthOrder, [f \in DOMAIN KnownAuth |-> authField(foldKeys(E(m, "auth")), f)])
        /\ parseAuth(v) = IF Wrote(v, "auth") /\ v["auth"].type # "map" THEN Bad("auth", {})
                          ELSE IF unknownKeys(E(v, "auth"), KnownAuth) # {} THEN Bad("auth", {})
                          ELSE InOrder(AuthOrder, [f \in DOMAIN KnownAuth |-> authField(foldKeys(E(v, "auth")), f)])
    BY DEF parseAuth, Block, E
  <1>6. parsePool(v) = parsePool(m)
    BY <1>1, <1>2, <1>3, <1>4
  <1>7. parseAuth(v) = parseAuth(m)
    BY <1>1, <1>2, <1>3, <1>5
  <1> QED BY <1>6, <1>7

\* Reading a block in order is a refusal or it is not.
LEMMA OkIsBoolean ==
    /\ \A m : parsePool(m).ok \in BOOLEAN
    /\ \A m : parseAuth(m).ok \in BOOLEAN
  <1>0. (\A x : Took(x).ok = TRUE) /\ (\A k, q : Bad(k, q).ok = FALSE)
    BY DEF Took, Bad
  <1>1. \A m : \A f : optInt(m, f).ok \in BOOLEAN /\ optString(m, f).ok \in BOOLEAN
                      /\ optSecretString(m, f).ok \in BOOLEAN /\ optBool(m, f).ok \in BOOLEAN
    BY DEF optInt, optString, optSecretString, optBool, Took, Bad
  <1>2. \A m : \A f \in DOMAIN KnownAuth : authField(m, f).ok \in BOOLEAN
    <2> TAKE m
    <2> TAKE f \in DOMAIN KnownAuth
    <2>1. KnownAuth[f] \in {"text", "folded", "secret", "bool", "count"} BY DEF KnownAuth
    <2>2. CASE KnownAuth[f] = "text"
      BY <1>1, <2>2 DEF authField
    <2>3. CASE KnownAuth[f] = "folded"
      <3>1. authField(m, f) = IF optString(m, f).ok THEN Took(Folded(optString(m, f).value)) ELSE optString(m, f)
        BY <2>3 DEF authField
      <3> QED BY <1>0, <1>1, <3>1
    <2>4. CASE KnownAuth[f] = "secret"
      BY <1>1, <2>4 DEF authField
    <2>5. CASE KnownAuth[f] = "bool"
      BY <1>1, <2>5 DEF authField
    <2>6. CASE KnownAuth[f] = "count"
      <3>1. authField(m, f) = IF optInt(m, f).ok /\ optInt(m, f).value < 0 THEN Bad(f, {m[f]}) ELSE optInt(m, f)
        BY <2>6 DEF authField
      <3> QED BY <1>0, <1>1, <3>1
    <2> QED BY <2>1, <2>2, <2>3, <2>4, <2>5, <2>6
  <1>3. \A m : parsePool(m).ok \in BOOLEAN
    <2> TAKE m
    <2> DEFINE entries == IF Wrote(m, "properties") THEN m["properties"].entries ELSE NoEntries
               reads == [f \in DOMAIN KnownPool |-> optInt(foldKeys(entries), f)]
    <2>1. parsePool(m) = Bad("properties", {}) \/ parsePool(m) = InOrder(PoolOrder, reads)
      BY DEF parsePool, Block
    <2>2. \A f \in DOMAIN KnownPool : reads[f].ok \in BOOLEAN
      BY <1>1
    <2> HIDE DEF reads
    <2>3. InOrder(PoolOrder, reads).ok \in BOOLEAN
      <3>1. CASE InOrder(PoolOrder, reads) = Took([f \in DOMAIN reads |-> reads[f].value])
        BY <1>0, <3>1
      <3>2. CASE \E i \in DOMAIN PoolOrder : InOrder(PoolOrder, reads) = reads[PoolOrder[i]]
        BY <2>2, <3>2, OrdersCover
      <3> QED BY <3>1, <3>2, InOrderIs, OrdersCover
    <2> QED BY <1>0, <2>1, <2>3
  <1>4. \A m : parseAuth(m).ok \in BOOLEAN
    <2> TAKE m
    <2> DEFINE entries == IF Wrote(m, "auth") THEN m["auth"].entries ELSE NoEntries
               reads == [f \in DOMAIN KnownAuth |-> authField(foldKeys(entries), f)]
    <2>1. parseAuth(m) = Bad("auth", {}) \/ parseAuth(m) = InOrder(AuthOrder, reads)
      BY DEF parseAuth, Block
    <2>2. \A f \in DOMAIN KnownAuth : reads[f].ok \in BOOLEAN
      BY <1>2
    <2> HIDE DEF reads
    <2>3. InOrder(AuthOrder, reads).ok \in BOOLEAN
      <3>1. CASE InOrder(AuthOrder, reads) = Took([f \in DOMAIN reads |-> reads[f].value])
        BY <1>0, <3>1
      <3>2. CASE \E i \in DOMAIN AuthOrder : InOrder(AuthOrder, reads) = reads[AuthOrder[i]]
        BY <2>2, <3>2, OrdersCover
      <3> QED BY <3>1, <3>2, InOrderIs, OrdersCover
    <2> QED BY <1>0, <2>1, <2>3
  <1> QED BY <1>3, <1>4

\* Every key is read alike from both, but for the spelling of the options.
LEMMA TopReadAlike ==
    ASSUME NEW m, NEW v, DOMAIN v = DOMAIN m, \A k \in DOMAIN m : Alike(m[k], v[k]), NEW k \in DOMAIN Known
    PROVE  /\ topLevel(m, k).ok \in BOOLEAN /\ topLevel(v, k).ok = topLevel(m, k).ok
           /\ k # "options" /\ topLevel(m, k).ok => topLevel(v, k).value = topLevel(m, k).value
  <1>1. DOMAIN Known = TextKeys \cup BoolKeys \cup {"port", "password", "options", "properties", "auth"}
    BY DEF Known, TextKeys, BoolKeys
  <1>2. CASE k \in TextKeys
    <2>1. topLevel(m, k) = optString(m, k) /\ topLevel(v, k) = optString(v, k) BY <1>2, TopKinds
    <2> QED BY <2>1, ScalarsReadAlike DEF SameRead
  <1>3. CASE k \in BoolKeys
    <2>1. topLevel(m, k) = optBool(m, k) /\ topLevel(v, k) = optBool(v, k) BY <1>3, TopKinds
    <2> QED BY <2>1, ScalarsReadAlike DEF SameRead
  <1>4. CASE k = "port"
    <2>1. topLevel(m, k) = optInt(m, k) /\ topLevel(v, k) = optInt(v, k) BY <1>4, TopKinds
    <2> QED BY <2>1, ScalarsReadAlike DEF SameRead
  <1>5. CASE k = "password"
    <2>1. topLevel(m, k) = optPassword(m) /\ topLevel(v, k) = optPassword(v) BY <1>5, TopKinds
    <2> QED BY <2>1, ScalarsReadAlike DEF SameRead
  <1>6. CASE k = "options"
    BY <1>6, TopKinds, OptionsReadAlike
  <1>7. CASE k = "properties"
    BY <1>7, TopKinds, BlocksReadAlike, OkIsBoolean
  <1>8. CASE k = "auth"
    BY <1>8, TopKinds, BlocksReadAlike, OkIsBoolean
  <1> QED BY <1>1, <1>2, <1>3, <1>4, <1>5, <1>6, <1>7, <1>8

\* A map is accepted when each of its keys is.
LEMMA ParseOk ==
    ASSUME NEW raw, \A k \in DOMAIN Known : topLevel(foldKeys(raw), k).ok \in BOOLEAN
    PROVE  Parse(raw).ok = (unknownKeys(raw, Known) = {} /\ \A k \in DOMAIN Known : topLevel(foldKeys(raw), k).ok)
  <1> DEFINE reads == [k \in DOMAIN Known |-> topLevel(foldKeys(raw), k)]
  <1>1. CASE unknownKeys(raw, Known) # {}
    BY <1>1 DEF Parse, Bad
  <1>2. CASE unknownKeys(raw, Known) = {}
    <2>1. Parse(raw) = InOrder(Order, reads)
      BY <1>2 DEF Parse
    <2>2. \A k \in DOMAIN Known : reads[k] = topLevel(foldKeys(raw), k)
      OBVIOUS
    <2> HIDE DEF reads
    <2>3. CASE /\ \A i \in DOMAIN Order : reads[Order[i]].ok
               /\ InOrder(Order, reads) = Took([k \in DOMAIN reads |-> reads[k].value])
      <3>1. \A k \in DOMAIN Known : reads[k].ok BY <2>3, OrdersCover
      <3>2. InOrder(Order, reads).ok = TRUE BY <2>3 DEF Took
      <3> QED BY <1>2, <2>1, <2>2, <3>1, <3>2
    <2>4. CASE \E i \in DOMAIN Order : ~reads[Order[i]].ok /\ InOrder(Order, reads) = reads[Order[i]]
      <3>1. PICK i \in DOMAIN Order : ~reads[Order[i]].ok /\ InOrder(Order, reads) = reads[Order[i]]
        BY <2>4
      <3>2. Order[i] \in DOMAIN Known BY OrdersCover
      <3>3. reads[Order[i]].ok = FALSE BY <2>2, <3>1, <3>2
      <3>4. Parse(raw).ok = FALSE BY <2>1, <3>1, <3>3
      <3>5. ~\A k \in DOMAIN Known : topLevel(foldKeys(raw), k).ok BY <2>2, <3>2, <3>3
      <3> QED BY <3>4, <3>5
    <2> QED BY <2>3, <2>4, InOrderIs, OrdersCover
  <1> QED BY <1>1, <1>2

\* For any map in which no key is written twice: the map Viper hands over, all of its keys lowered,
\* is accepted by config.go's Parse exactly when the map as written is, and decodes to the same
\* configuration but for the spelling of the options.
THEOREM ParsedAlike ==
    ASSUME NEW raw, ~Clashing(raw)
    PROVE  /\ Parse(raw).ok = Parse(AsViper(raw)).ok
           /\ Parse(raw).ok => SameButOptions(Parse(raw).value, Parse(AsViper(raw)).value)
  <1> DEFINE v == AsViper(raw)
             m == foldKeys(raw)
             w == foldKeys(v)
  <1>1. /\ DOMAIN w = DOMAIN m /\ \A k \in DOMAIN m : Alike(m[k], w[k])
        /\ unknownKeys(v, Known) = {} <=> unknownKeys(raw, Known) = {}
    BY ViperKeys
  <1> HIDE DEF v
  <1>2. \A k \in DOMAIN Known :
           /\ topLevel(m, k).ok \in BOOLEAN /\ topLevel(w, k).ok = topLevel(m, k).ok
           /\ k # "options" /\ topLevel(m, k).ok => topLevel(w, k).value = topLevel(m, k).value
    <2> HIDE DEF m, w
    <2> QED BY <1>1, TopReadAlike
  <1>3. Parse(raw).ok = Parse(v).ok
    <2>1. Parse(raw).ok = (unknownKeys(raw, Known) = {} /\ \A k \in DOMAIN Known : topLevel(m, k).ok)
      BY <1>2, ParseOk
    <2>2. Parse(v).ok = (unknownKeys(v, Known) = {} /\ \A k \in DOMAIN Known : topLevel(w, k).ok)
      BY <1>2, ParseOk
    <2> QED BY <1>1, <1>2, <2>1, <2>2
  <1>4. ASSUME Parse(raw).ok PROVE SameButOptions(Parse(raw).value, Parse(v).value)
    <2> DEFINE c == Parse(raw).value
               d == Parse(v).value
    <2>1. c = [k \in DOMAIN Known |-> topLevel(m, k).value] /\ \A k \in DOMAIN Known : topLevel(m, k).ok
      BY <1>4, ParseTook
    <2>2. d = [k \in DOMAIN Known |-> topLevel(w, k).value]
      BY <1>3, <1>4, ParseTook
    <2> HIDE DEF c, d, m, w
    <2>3. DOMAIN c = DOMAIN Known /\ DOMAIN d = DOMAIN Known /\ \A k \in DOMAIN Known : k # "options" => d[k] = c[k]
      BY <1>2, <2>1, <2>2
    <2>4. "options" \in DOMAIN Known
      BY DEF Known
    <2>5. DOMAIN [c EXCEPT !.options = d.options] = DOMAIN d
      BY <2>3
    <2>6. \A k \in DOMAIN d : [c EXCEPT !.options = d.options][k] = d[k]
      BY <2>3, <2>4
    <2>7. d = [k \in DOMAIN d |-> d[k]]
      BY <2>2
    <2> QED BY <2>3, <2>5, <2>6, <2>7 DEF SameButOptions, c, d
  <1> QED BY <1>3, <1>4 DEF v

---------------------------------------------------------------------------
(* The steps of a boot.                                                    *)

LEMMA OpeningShape ==
    ASSUME NEW e, NEW c
    PROVE  LET o == opening(e, c) IN DOMAIN o = SourceFields /\ o = [x \in DOMAIN o |-> o[x]]
  <1> DEFINE server == c.driver = "sqlserver_gorm"
             token == server /\ authMethodOf(c) # "sql"
             n == e.name
             r == e.raw
             h == c.host
             b == c.db
             sent1 == CASE server -> serverDSN(c)
                        [] c.driver = "postgres_gorm" -> postgresDSN(c)
                        [] c.driver = "mysql_gorm" -> mysqlDSN(c)
                        [] OTHER -> NoEntries
             port1 == IF server THEN endpoint(c).port ELSE IF c.port = 0 /\ c.driver = "mysql_gorm" THEN 3306 ELSE c.port
             instance1 == IF server THEN endpoint(c).instance ELSE ""
             user1 == IF token THEN "" ELSE c.username
             password1 == IF token \/ (c.username = "" /\ c.driver = "mysql_gorm") THEN "" ELSE c.password
             pool1 == IF server THEN effectivePool(c.properties) ELSE applied(c.properties)
             tokens1 == IF token THEN "live" ELSE "none"
             warned1 == IF server THEN warned(c) ELSE {}
             simple1 == c.driver = "postgres_gorm" /\ c.prefer_simple_protocol
             unfaithful1 == c.driver = "mysql_gorm" /\ c.allow_unfaithful_upsert
             o == opening(e, c)
  <1>1. o = [state |-> "open", name |-> n, raw |-> r, c |-> c, guards |-> {}, reports |-> {}, sent |-> sent1,
             host |-> h, db |-> b,
             port |-> port1, instance |-> instance1, user |-> user1, password |-> password1, pool |-> pool1,
             tokens |-> tokens1, warned |-> warned1, simple |-> simple1, unfaithful |-> unfaithful1,
             logs |-> FALSE, dialed |-> FALSE]
    BY DEF opening
  <1> HIDE DEF n, r, h, b, sent1, port1, instance1, user1, password1, pool1, tokens1, warned1, simple1, unfaithful1, o
  <1>2. DOMAIN o = SourceFields
    BY <1>1 DEF SourceFields
  <1>3. o = [x \in DOMAIN o |-> o[x]]
    BY <1>1
  <1> QED BY <1>2, <1>3 DEF o

\* Two datasources that differ only in what comes after the opening.
OnlyLater(s, t) ==
    /\ DOMAIN t = DOMAIN s /\ t = [x \in DOMAIN t |-> t[x]]
    /\ \A x \in DOMAIN s \ {"guards", "reports", "logs", "dialed"} : t[x] = s[x]

LEMMA LaterIsOpening ==
    ASSUME NEW o, DOMAIN o = SourceFields, NEW t, OnlyLater(o, t)
    PROVE  t = [o EXCEPT !.guards = t.guards, !.reports = t.reports, !.logs = t.logs, !.dialed = t.dialed]
  <1> DEFINE r == [o EXCEPT !.guards = t.guards, !.reports = t.reports, !.logs = t.logs, !.dialed = t.dialed]
  <1>1. DOMAIN r = DOMAIN o /\ r = [x \in DOMAIN r |-> r[x]]
    OBVIOUS
  <1>2. \A x \in DOMAIN o : t[x] = r[x]
    <2> TAKE x \in DOMAIN o
    <2>1. CASE x \in {"guards", "reports", "logs", "dialed"}
      BY <2>1
    <2>2. CASE x \notin {"guards", "reports", "logs", "dialed"}
      <3>1. t[x] = o[x] BY <2>2 DEF OnlyLater
      <3>2. r[x] = o[x] BY <2>2
      <3> QED BY <3>1, <3>2
    <2> QED BY <2>1, <2>2
  <1> HIDE DEF r
  <1>3. t = r
    BY <1>1, <1>2 DEF OnlyLater
  <1> QED BY <1>3 DEF r

\* What a constructor builds of a configuration its engine accepts.
LEMMA OpeningAccepted ==
    ASSUME NEW e, NEW c, c.driver \in Engines3 => refusals(c) = "fine",
           e.raw.type = "map" => Parse(e.raw.entries).ok /\ c = Parse(e.raw.entries).value
    PROVE  /\ Accepted(opening(e, c))
           /\ opening(e, c).c = c /\ opening(e, c).raw = e.raw /\ opening(e, c).name = e.name
           /\ opening(e, c).dialed = FALSE
  <1> DEFINE s == opening(e, c)
  <1>1. s.c = c /\ s.raw = e.raw /\ s.name = e.name /\ s.dialed = FALSE
    BY DEF opening
  <1>2. opening(s, c) = s
    <2> DEFINE n == s.name
               r == s.raw
    <2>1. n = e.name /\ r = e.raw BY <1>1
    <2> HIDE DEF s
    <2>2. opening(s, c) = opening(e, c) BY <2>1 DEF opening
    <2> QED BY <2>2 DEF s
  <1>3. DOMAIN s = SourceFields /\ s = [x \in DOMAIN s |-> s[x]]
    BY OpeningShape
  <1> HIDE DEF s
  <1>4. s = [s EXCEPT !.guards = s.guards, !.reports = s.reports, !.logs = s.logs, !.dialed = s.dialed]
    BY <1>3, LaterIsOpening DEF OnlyLater
  <1>5. s = [opening(s, s.c) EXCEPT !.guards = s.guards, !.reports = s.reports, !.logs = s.logs, !.dialed = s.dialed]
    BY <1>1, <1>2, <1>4
  <1> QED BY <1>1, <1>5 DEF Accepted, s

\* An accepted datasource has every field.
LEMMA AcceptedShape ==
    ASSUME NEW s, Accepted(s)
    PROVE  DOMAIN s = SourceFields /\ s = [x \in DOMAIN s |-> s[x]]
  <1> DEFINE o == opening(s, s.c)
  <1>1. s = [o EXCEPT !.guards = s.guards, !.reports = s.reports, !.logs = s.logs, !.dialed = s.dialed]
    BY DEF Accepted
  <1>2. DOMAIN o = SourceFields
    BY OpeningShape
  <1> HIDE DEF o
  <1> QED BY <1>1, <1>2

\* Guarding, logging and dialing an accepted datasource leaves it the one that was accepted.
LEMMA LaterAccepted ==
    ASSUME NEW s, Accepted(s), NEW t, OnlyLater(s, t)
    PROVE  Accepted(t) /\ t.c = s.c /\ t.raw = s.raw /\ t.name = s.name
  <1> DEFINE o == opening(s, s.c)
  <1>1. s = [o EXCEPT !.guards = s.guards, !.reports = s.reports, !.logs = s.logs, !.dialed = s.dialed]
    BY DEF Accepted
  <1>2. DOMAIN o = SourceFields /\ DOMAIN s = SourceFields
    BY OpeningShape, AcceptedShape
  <1>3. t.c = s.c /\ t.raw = s.raw /\ t.name = s.name
    BY <1>2 DEF OnlyLater, SourceFields
  <1>4. opening(t, t.c) = o
    BY <1>3 DEF opening
  <1> HIDE DEF o
  <1>5. OnlyLater(o, t)
    <2>1. \A x \in DOMAIN o \ {"guards", "reports", "logs", "dialed"} : s[x] = o[x]
      BY <1>1
    <2> QED BY <1>2, <2>1 DEF OnlyLater
  <1>6. t = [o EXCEPT !.guards = t.guards, !.reports = t.reports, !.logs = t.logs, !.dialed = t.dialed]
    BY <1>2, <1>5, LaterIsOpening
  <1> QED BY <1>3, <1>4, <1>6 DEF Accepted

LEMMA GuardingAccepted ==
    ASSUME NEW s, Accepted(s), NEW f
    PROVE  LET t == Guarding(s, f) IN
           /\ Accepted(t) /\ t.guards = f /\ t.reports = f /\ t.c = s.c /\ t.raw = s.raw /\ t.name = s.name
           /\ t.dialed = s.dialed
  <1> DEFINE t == Guarding(s, f)
  <1>1. DOMAIN s = SourceFields
    BY AcceptedShape
  <1>2. t.guards = f /\ t.reports = f /\ t.dialed = s.dialed
    BY <1>1 DEF Guarding, SourceFields
  <1>3. OnlyLater(s, t)
    BY DEF Guarding, OnlyLater
  <1> HIDE DEF t
  <1>4. Accepted(t) /\ t.c = s.c /\ t.raw = s.raw /\ t.name = s.name
    BY <1>3, LaterAccepted
  <1> QED BY <1>2, <1>4 DEF t

\* A closed datasource has no live sign-in, and is still what was guarded.
LEMMA ClosedIs ==
    ASSUME NEW s, Accepted(s)
    PROVE  /\ Closed(s).state = "closed" /\ Closed(s).tokens # "live"
           /\ Guarded(s) => Guarded(Closed(s))
  <1> DEFINE k == IF s.tokens = "live" THEN "cancelled" ELSE s.tokens
  <1>1. DOMAIN s = SourceFields
    BY AcceptedShape
  <1>2. Closed(s) = [s EXCEPT !.state = "closed", !.tokens = k]
    BY DEF Closed
  <1>3. k # "live"
    OBVIOUS
  <1> HIDE DEF k
  <1>4. /\ Closed(s).state = "closed" /\ Closed(s).tokens = k
        /\ Closed(s).raw = s.raw /\ Closed(s).c = s.c /\ Closed(s).guards = s.guards
    BY <1>1, <1>2 DEF SourceFields
  <1> QED BY <1>3, <1>4 DEF Guarded

\* A boot begins with its entries unread and nothing connected.
THEOREM BootedFromTheStart == BootInit => BootIInv
  <1> SUFFICES ASSUME BootInit PROVE BootIInv
    OBVIOUS
  <1>1. EntriesRead
    <2>1. PICK b \in BootConfigs : dbFile = b.file
      BY DEF BootInit
    <2> DEFINE own == {b.file[i] : i \in DOMAIN b.file}
    <2>2. own \subseteq AllEntries
      BY DEF AllEntries
    <2>3. b.file \in Seq(own)
      BY EntriesAssumption
    <2> HIDE DEF own
    <2> QED BY <2>1, <2>2, <2>3 DEF EntriesRead
  <1>2. dbStage = "next" /\ connected = [n \in {} |-> NoSource] /\ dbFault = NoFault /\ making = NoSource
    BY DEF BootInit
  <1>3. dbFault.at = "none" /\ dbFault.shows = {}
    BY <1>2 DEF NoFault
  <1> QED BY <1>1, <1>2, <1>3 DEF BootIInv, MakingAccepted, Holding, RegisteredGuarded, ConnectedAccepted,
                                 RefusedClosed, SecretsUnshown

\* A step that stops the boot before anything was opened, or makes a datasource of the next entry.
LEMMA NextEntryKeeps ==
    ASSUME BootIInv, dbStage = "next", dbFile' = dbFile, connected' = connected,
           \/ \E at, shows : Unbuilt(at, shows) /\ (at \in SecretKeys => shows = {})
           \/ /\ dbStage' \in Holding /\ dbFault' = dbFault
              /\ Accepted(making)' /\ (making.guards = making.reports)' /\ Begun(making, dbStage)'
              /\ dbStage' = "register" => Guarded(making)'
    PROVE  BootIInv'
  <1>1. EntriesRead'
    BY DEF BootIInv, EntriesRead
  <1>2. CASE \E at, shows : Unbuilt(at, shows) /\ (at \in SecretKeys => shows = {})
    <2>1. PICK at, shows : Unbuilt(at, shows) /\ (at \in SecretKeys => shows = {})
      BY <1>2
    <2>2. dbFault'.at = at /\ dbFault'.shows = shows /\ dbStage' = "panicked" /\ making' = making
      BY <2>1 DEF Unbuilt, Stops
    <2>3. MakingAccepted' /\ SecretsUnshown'
      BY <2>1, <2>2 DEF MakingAccepted, Holding, SecretsUnshown
    <2>4. making'.state = "none" /\ making'.tokens = "none"
      BY <2>2 DEF BootIInv, MakingAccepted, NoSource
    <2>5. RefusedClosed'
      BY <2>4 DEF RefusedClosed, LeftBehind
    <2>6. RegisteredGuarded' /\ ConnectedAccepted'
      BY <2>2 DEF BootIInv, RegisteredGuarded, ConnectedAccepted
    <2> QED BY <1>1, <2>3, <2>5, <2>6 DEF BootIInv
  <1>3. CASE /\ dbStage' \in Holding /\ dbFault' = dbFault
             /\ Accepted(making)' /\ (making.guards = making.reports)' /\ Begun(making, dbStage)'
             /\ dbStage' = "register" => Guarded(making)'
    <2>1. MakingAccepted'
      BY <1>3 DEF MakingAccepted, Holding
    <2>2. RefusedClosed' /\ SecretsUnshown'
      BY <1>3 DEF BootIInv, RefusedClosed, SecretsUnshown, Holding
    <2>3. RegisteredGuarded' /\ ConnectedAccepted'
      BY <1>3 DEF BootIInv, RegisteredGuarded, ConnectedAccepted, Holding
    <2> QED BY <1>1, <2>1, <2>2, <2>3 DEF BootIInv
  <1> QED BY <1>2, <1>3

\* Configure refuses without a word of a secret, or makes an accepted datasource.
LEMMA ConfigureKeeps ==
    ASSUME BootIInv, Configure
    PROVE  BootIInv'
  <1>1. /\ dbStage = "next" /\ dbFile # <<>> /\ ~Entry.added
        /\ dbFile' = dbFile /\ connected' = connected
    BY DEF Configure
  <1>2. CASE \E at, shows : Unbuilt(at, shows) /\ (at \in SecretKeys => shows = {})
    BY <1>1, <1>2, NextEntryKeeps
  <1>3. CASE Entry.raw.type # "map"
    <2>1. Unbuilt("databases", {}) BY <1>3 DEF Configure
    <2> QED BY <1>2, <2>1
  <1>4. CASE Entry.raw.type = "map" /\ ~Parse(Entry.raw.entries).ok
    <2> DEFINE read == Parse(Entry.raw.entries)
    <2>1. Unbuilt(read.at, read.shows) BY <1>4 DEF Configure
    <2>2. read.at \in SecretKeys => read.shows = {} BY <1>4, ParseQuiet DEF Quiet
    <2> QED BY <1>2, <2>1, <2>2
  <1>5. CASE Entry.raw.type = "map" /\ Parse(Entry.raw.entries).ok /\ ~\E at : Unbuilt(at, {})
    <2> DEFINE c == Parse(Entry.raw.entries).value
               o == opening(Entry, c)
    <2>1. c.driver \in Drivers /\ refusals(c) = "fine"
      BY <1>5 DEF Configure
    <2>2. /\ \E f \in FirstReports(c) : making' = Guarding(o, f)
          /\ dbFault' = dbFault
          /\ dbStage' = CASE c.driver = "sqlserver_gorm" -> "guard"
                          [] c.driver \notin Engines3 -> "policy"
                          [] c.driver # "sqlserver_gorm" /\ c.driver \in Engines3 /\ c.lazy_connect -> "guard"
                          [] OTHER -> "ping"
      BY <1>5, <2>1 DEF Configure
    <2>3. Accepted(o) /\ o.c = c /\ o.dialed = FALSE
      BY <1>5, <2>1, OpeningAccepted
    <2> HIDE DEF o, c
    <2>4. PICK f \in FirstReports(c) : making' = Guarding(o, f)
      BY <2>2
    <2> DEFINE g == Guarding(o, f)
    <2>5. Accepted(g) /\ g.guards = f /\ g.reports = f /\ g.c = c /\ g.dialed = FALSE
      BY <2>3, GuardingAccepted
    <2>6. making' = g
      BY <2>4
    <2> HIDE DEF g
    <2>7. Accepted(making)' /\ (making.guards = making.reports)'
      BY <2>5, <2>6 DEF Accepted
    <2>8. dbStage' \in Holding /\ dbStage' # "register"
      BY <2>2 DEF Engines3, Holding
    <2>9. Begun(making, dbStage)'
      <3>1. CASE c.driver = "sqlserver_gorm"
        <4>1. dbStage' = "guard" BY <2>2, <3>1 DEF Engines3
        <4> QED BY <2>5, <2>6, <3>1, <4>1 DEF Begun
      <3>2. CASE c.driver \notin Engines3
        <4>1. dbStage' = "policy" BY <2>2, <3>2 DEF Engines3
        <4> QED BY <2>5, <2>6, <3>2, <4>1 DEF Begun, Finished
      <3>3. CASE c.driver # "sqlserver_gorm" /\ c.driver \in Engines3 /\ c.lazy_connect
        <4>1. dbStage' = "guard" BY <2>2, <3>3
        <4> QED BY <2>5, <2>6, <3>3, <4>1 DEF Begun
      <3>4. CASE c.driver # "sqlserver_gorm" /\ c.driver \in Engines3 /\ ~c.lazy_connect
        <4>1. dbStage' = "ping" BY <2>2, <3>4
        <4> QED BY <2>5, <2>6, <3>4, <4>1 DEF Begun
      <3> QED BY <3>1, <3>2, <3>3, <3>4
    <2> QED BY <1>1, <2>2, <2>7, <2>8, <2>9, NextEntryKeeps
  <1>6. CASE \E at : Unbuilt(at, {})
    BY <1>2, <1>6
  <1> QED BY <1>3, <1>4, <1>5, <1>6

\* A connection the application adds was accepted by its constructor.
LEMMA AddConnectionKeeps ==
    ASSUME BootIInv, AddConnection
    PROVE  BootIInv'
  <1>1. /\ dbStage = "next" /\ dbFile # <<>> /\ Entry.added
        /\ dbFile' = dbFile /\ connected' = connected
    BY DEF AddConnection
  <1>2. CASE Unbuilt("connection", {})
    BY <1>1, <1>2, NextEntryKeeps
  <1>3. CASE /\ \E f \in SUBSET PolicyFlags : making' = Guarding(opening(Entry, Entry.typed), f)
             /\ dbStage' = "register" /\ dbFault' = dbFault
    <2>1. Entry \in AllEntries
      BY <1>1 DEF BootIInv, EntriesRead, Entry
    <2>2. Entry.raw = Unset /\ (Entry.typed.driver \in Engines3 => refusals(Entry.typed) = "fine")
      <3>1. PICK b \in BootConfigs : \E i \in DOMAIN b.file : Entry = b.file[i]
        BY <2>1 DEF AllEntries
      <3>2. PICK i \in DOMAIN b.file : Entry = b.file[i]
        BY <3>1
      <3>3. b.file[i].added
        BY <1>1, <3>2
      <3>4. /\ b.file[i].raw = Unset
            /\ b.file[i].typed.driver \in Engines3 => refusals(b.file[i].typed) = "fine"
        BY <3>3, EntriesAssumption
      <3> QED BY <3>2, <3>4
    <2>3. Entry.raw.type # "map"
      BY <2>2 DEF Unset
    <2> DEFINE o == opening(Entry, Entry.typed)
    <2>4. Accepted(o) /\ o.raw = Entry.raw
      BY <2>2, <2>3, OpeningAccepted
    <2>5. PICK f \in SUBSET PolicyFlags : making' = Guarding(o, f)
      BY <1>3
    <2> HIDE DEF o
    <2> DEFINE g == Guarding(o, f)
    <2>6. Accepted(g) /\ g.guards = g.reports /\ g.raw.type # "map"
      BY <2>3, <2>4, GuardingAccepted
    <2>7. making' = g
      BY <2>5
    <2> HIDE DEF g
    <2>8. Accepted(making)' /\ (making.guards = making.reports)'
      BY <2>6, <2>7 DEF Accepted
    <2>9. Guarded(making)' /\ Begun(making, dbStage)'
      BY <1>3, <2>6, <2>7 DEF Guarded, Begun, Finished
    <2> QED BY <1>1, <1>3, <2>8, <2>9, NextEntryKeeps DEF Holding
  <1> QED BY <1>2, <1>3 DEF AddConnection

\* The steps that hold a datasource: it goes on, or it is closed and the boot stops, or gorm's own
\* ping failed.
LEMMA HeldKeeps ==
    ASSUME BootIInv, dbStage \in Holding, dbFile' = dbFile, connected' = connected,
           \/ /\ dbStage' \in Holding \ {"register"} /\ dbFault' = dbFault
              /\ Accepted(making)' /\ (making.guards = making.reports)' /\ Begun(making, dbStage)'
           \/ \E at : Stops(at, {}) /\ making' = Closed(making)
           \/ Stops("connect", {}) /\ making'.c.driver \in {"postgres_gorm", "mysql_gorm"}
    PROVE  BootIInv'
  <1>1. EntriesRead'
    BY DEF BootIInv, EntriesRead
  <1>2. dbStage # "closed" /\ Accepted(making)
    BY DEF BootIInv, MakingAccepted, Holding
  <1>3. CASE /\ dbStage' \in Holding \ {"register"} /\ dbFault' = dbFault
             /\ Accepted(making)' /\ (making.guards = making.reports)' /\ Begun(making, dbStage)'
    <2>1. MakingAccepted' /\ RefusedClosed' /\ SecretsUnshown'
      BY <1>3 DEF BootIInv, MakingAccepted, RefusedClosed, SecretsUnshown, Holding
    <2>2. RegisteredGuarded' /\ ConnectedAccepted'
      BY <1>2, <1>3 DEF BootIInv, RegisteredGuarded, ConnectedAccepted, Holding
    <2> QED BY <1>1, <2>1, <2>2 DEF BootIInv
  <1>4. CASE \E at : /\ Stops(at, {})
                     /\ \/ making' = Closed(making)
                        \/ at = "connect" /\ making'.c.driver \in {"postgres_gorm", "mysql_gorm"}
    <2>1. PICK at : /\ Stops(at, {})
                    /\ \/ making' = Closed(making)
                       \/ at = "connect" /\ making'.c.driver \in {"postgres_gorm", "mysql_gorm"}
      BY <1>4
    <2>2. dbFault'.at = at /\ dbFault'.shows = {} /\ dbStage' = "panicked"
      BY <2>1 DEF Stops
    <2>3. Closed(making).state = "closed" /\ Closed(making).tokens # "live"
      BY <1>2, ClosedIs
    <2>4. RefusedClosed'
      BY <2>1, <2>2, <2>3 DEF RefusedClosed, LeftBehind
    <2>5. MakingAccepted' /\ SecretsUnshown'
      BY <2>2 DEF MakingAccepted, Holding, SecretsUnshown
    <2>6. RegisteredGuarded' /\ ConnectedAccepted'
      BY <1>2, <2>2 DEF BootIInv, RegisteredGuarded, ConnectedAccepted
    <2> QED BY <1>1, <2>4, <2>5, <2>6 DEF BootIInv
  <1> QED BY <1>3, <1>4

LEMMA OpenPingKeeps ==
    ASSUME BootIInv, OpenPing
    PROVE  BootIInv'
  <1>1. /\ dbStage = "ping" /\ dbStage \in Holding /\ dbFile' = dbFile /\ connected' = connected
        /\ making.c.driver \in {"postgres_gorm", "mysql_gorm"}
    BY DEF OpenPing, Holding
  <1>2. /\ Accepted(making) /\ making.guards = making.reports /\ ~making.c.lazy_connect
        /\ DOMAIN making = SourceFields
    BY <1>1, AcceptedShape DEF BootIInv, MakingAccepted, Begun
  <1>3. CASE dbStage' = "guard" /\ making' = [making EXCEPT !.dialed = TRUE] /\ dbFault' = dbFault
    <2> DEFINE t == [making EXCEPT !.dialed = TRUE]
    <2>1. OnlyLater(making, t)
      BY DEF OnlyLater
    <2>2. t.dialed = TRUE /\ t.guards = making.guards /\ t.reports = making.reports
      BY <1>2 DEF SourceFields
    <2>3. making' = t
      BY <1>3
    <2> HIDE DEF t
    <2>4. Accepted(t) /\ t.c = making.c
      BY <1>2, <2>1, LaterAccepted
    <2>5. Accepted(making)' /\ (making.guards = making.reports)'
      BY <1>2, <2>2, <2>3, <2>4 DEF Accepted
    <2>6. Begun(making, dbStage)'
      BY <1>1, <1>2, <1>3, <2>2, <2>3, <2>4 DEF Begun
    <2> QED BY <1>1, <1>3, <2>5, <2>6, HeldKeeps DEF Holding
  <1>4. CASE Stops("connect", {}) /\ making' = [making EXCEPT !.state = "lost"]
    <2>1. making'.c = making.c
      BY <1>2, <1>4 DEF SourceFields
    <2> QED BY <1>1, <1>4, <2>1, HeldKeeps
  <1>5. CASE Stops("connect", {}) /\ making' = Closed(making)
    BY <1>1, <1>5, HeldKeeps
  <1> QED BY <1>3, <1>4, <1>5 DEF OpenPing

LEMMA GuardKeeps ==
    ASSUME BootIInv, Guard
    PROVE  BootIInv'
  <1>1. dbStage = "guard" /\ dbStage \in Holding /\ dbFile' = dbFile /\ connected' = connected
    BY DEF Guard, Holding
  <1>2. /\ Accepted(making)
        /\ making.dialed <=> making.c.driver # "sqlserver_gorm" /\ ~making.c.lazy_connect
    BY <1>1 DEF BootIInv, MakingAccepted, Begun
  <1> DEFINE t == Guarding(making, flagsOf(making.c))
             u == [t EXCEPT !.logs = making.c.log]
  <1>3. Accepted(t) /\ t.guards = t.reports /\ t.c = making.c /\ t.dialed = making.dialed
    BY <1>2, GuardingAccepted
  <1>4. CASE making' = Closed(making) /\ Stops("guard", {})
    BY <1>1, <1>4, HeldKeeps
  <1>5. CASE /\ making.c.driver # "sqlserver_gorm" \/ making.c.lazy_connect
             /\ dbStage' = "policy" /\ making' = u /\ dbFault' = dbFault
    <2> HIDE DEF t
    <2>1. DOMAIN t = SourceFields
      BY <1>3, AcceptedShape
    <2>2. OnlyLater(t, u)
      BY DEF OnlyLater
    <2>3. u.logs = making.c.log /\ u.guards = t.guards /\ u.reports = t.reports /\ u.dialed = t.dialed
      BY <2>1 DEF SourceFields
    <2>4. making' = u
      BY <1>5
    <2> HIDE DEF u
    <2>5. Accepted(u) /\ u.c = making.c
      BY <1>3, <2>2, LaterAccepted
    <2>6. Accepted(making)' /\ (making.guards = making.reports)'
      BY <1>3, <2>3, <2>4, <2>5 DEF Accepted
    <2>7. Begun(making, dbStage)'
      BY <1>2, <1>3, <1>5, <2>3, <2>4, <2>5 DEF Begun, Finished
    <2> QED BY <1>1, <1>5, <2>6, <2>7, HeldKeeps DEF Holding
  <1>6. CASE ~making.c.lazy_connect /\ dbStage' = "warmup" /\ making' = t /\ dbFault' = dbFault
    <2> HIDE DEF t
    <2>1. Accepted(making)' /\ (making.guards = making.reports)'
      BY <1>3, <1>6 DEF Accepted
    <2>2. Begun(making, dbStage)'
      BY <1>3, <1>6 DEF Begun
    <2> QED BY <1>1, <1>6, <2>1, <2>2, HeldKeeps DEF Holding
  <1> QED BY <1>4, <1>5, <1>6 DEF Guard

LEMMA WarmUpKeeps ==
    ASSUME BootIInv, WarmUp
    PROVE  BootIInv'
  <1>1. dbStage = "warmup" /\ dbStage \in Holding /\ dbFile' = dbFile /\ connected' = connected
    BY DEF WarmUp, Holding
  <1>2. Accepted(making) /\ making.guards = making.reports /\ ~making.c.lazy_connect
    BY <1>1 DEF BootIInv, MakingAccepted, Begun
  <1>3. CASE dbStage' = "ping" /\ making' = making /\ dbFault' = dbFault
    <2>1. Accepted(making)' /\ (making.guards = making.reports)' /\ Begun(making, dbStage)'
      BY <1>2, <1>3 DEF Accepted, Begun
    <2> QED BY <1>1, <1>3, <2>1, HeldKeeps DEF Holding
  <1>4. CASE making' = Closed(making) /\ Stops("sign-in", {})
    BY <1>1, <1>4, HeldKeeps
  <1> QED BY <1>3, <1>4 DEF WarmUp

LEMMA PingKeeps ==
    ASSUME BootIInv, Ping
    PROVE  BootIInv'
  <1>1. dbStage = "ping" /\ dbStage \in Holding /\ dbFile' = dbFile /\ connected' = connected
    BY DEF Ping, Holding
  <1>2. /\ Accepted(making) /\ making.guards = making.reports /\ ~making.c.lazy_connect
        /\ DOMAIN making = SourceFields
    BY <1>1, AcceptedShape DEF BootIInv, MakingAccepted, Begun
  <1>3. CASE /\ dbStage' = "policy" /\ dbFault' = dbFault
             /\ making' = [making EXCEPT !.dialed = TRUE, !.logs = making.c.log]
    <2> DEFINE t == [making EXCEPT !.dialed = TRUE, !.logs = making.c.log]
    <2>1. OnlyLater(making, t)
      BY DEF OnlyLater
    <2>2. t.dialed = TRUE /\ t.logs = making.c.log /\ t.guards = making.guards /\ t.reports = making.reports
      BY <1>2 DEF SourceFields
    <2>3. making' = t
      BY <1>3
    <2> HIDE DEF t
    <2>4. Accepted(t) /\ t.c = making.c
      BY <1>2, <2>1, LaterAccepted
    <2>5. Accepted(making)' /\ (making.guards = making.reports)'
      BY <1>2, <2>2, <2>3, <2>4 DEF Accepted
    <2>6. Begun(making, dbStage)'
      BY <1>2, <1>3, <2>2, <2>3, <2>4 DEF Begun, Finished
    <2> QED BY <1>1, <1>3, <2>5, <2>6, HeldKeeps DEF Holding
  <1>4. CASE dbStage' = "ping" /\ making' = making /\ dbFault' = dbFault
    <2>1. Accepted(making)' /\ (making.guards = making.reports)' /\ Begun(making, dbStage)'
      BY <1>2, <1>4 DEF Accepted, Begun
    <2> QED BY <1>1, <1>4, <2>1, HeldKeeps DEF Holding
  <1>5. CASE making' = Closed(making) /\ Stops("connect", {})
    BY <1>1, <1>5, HeldKeeps
  <1> QED BY <1>1, <1>3, <1>4, <1>5 DEF Ping

\* What goes on to be registered reports, and so guards, every flag.
LEMMA RequirePolicyKeeps ==
    ASSUME BootIInv, RequirePolicy
    PROVE  BootIInv'
  <1>1. dbStage = "policy" /\ dbStage \in Holding /\ dbFile' = dbFile /\ connected' = connected
    BY DEF RequirePolicy, Holding
  <1>2. Accepted(making) /\ making.guards = making.reports /\ Finished(making)
    BY <1>1 DEF BootIInv, MakingAccepted, Begun
  <1>3. CASE Enforced(making)
    <2>1. dbStage' = "register" /\ making' = making /\ dbFault' = dbFault
      BY <1>3 DEF RequirePolicy
    <2>2. Guarded(making)'
      BY <1>2, <1>3, <2>1 DEF Enforced, Guarded
    <2>3. MakingAccepted'
      BY <1>2, <2>1 DEF MakingAccepted, Accepted, Begun, Finished
    <2>4. EntriesRead' /\ RefusedClosed' /\ SecretsUnshown'
      BY <1>1, <2>1 DEF BootIInv, EntriesRead, RefusedClosed, SecretsUnshown
    <2>5. RegisteredGuarded' /\ ConnectedAccepted'
      BY <1>1, <2>1, <2>2 DEF BootIInv, RegisteredGuarded, ConnectedAccepted
    <2> QED BY <2>3, <2>4, <2>5 DEF BootIInv
  <1>4. CASE ~Enforced(making)
    <2>1. Stops("policy", {}) /\ making' = Closed(making)
      BY <1>4 DEF RequirePolicy
    <2> QED BY <1>1, <2>1, HeldKeeps
  <1> QED BY <1>3, <1>4

LEMMA RegisterKeeps ==
    ASSUME BootIInv, Register
    PROVE  BootIInv'
  <1>1. dbStage = "register" /\ Accepted(making) /\ Guarded(making) /\ Finished(making)
    BY DEF Register, BootIInv, MakingAccepted, RegisteredGuarded, Holding, Begun
  <1>2. CASE making.name \in DOMAIN connected
    <2>1. Stops("twice", {}) /\ connected' = connected /\ making' = making /\ dbFile' = dbFile
      BY <1>2 DEF Register
    <2>2. dbFault'.at = "twice" /\ dbFault'.shows = {} /\ dbStage' = "panicked"
      BY <2>1 DEF Stops
    <2>3. EntriesRead' /\ MakingAccepted' /\ RefusedClosed' /\ SecretsUnshown'
      BY <2>1, <2>2 DEF BootIInv, EntriesRead, MakingAccepted, Holding, RefusedClosed, LeftBehind, SecretsUnshown
    <2>4. RegisteredGuarded' /\ ConnectedAccepted'
      BY <1>1, <2>1, <2>2 DEF BootIInv, RegisteredGuarded, ConnectedAccepted
    <2> QED BY <2>3, <2>4 DEF BootIInv
  <1>3. CASE making.name \notin DOMAIN connected
    <2>1. /\ connected' = Overlay([n \in {making.name} |-> making], connected)
          /\ dbFile' = Tail(dbFile) /\ dbStage' = "next" /\ dbFault' = dbFault /\ making' = NoSource
      BY <1>3 DEF Register
    <2>2. EntriesRead'
      <3>1. CASE dbFile = <<>>
        BY <2>1, <3>1 DEF EntriesRead
      <3>2. CASE dbFile # <<>>
        BY <2>1, <3>2 DEF BootIInv, EntriesRead
      <3> QED BY <3>1, <3>2
    <2>3. MakingAccepted' /\ RefusedClosed' /\ SecretsUnshown'
      BY <2>1 DEF BootIInv, MakingAccepted, Holding, RefusedClosed, SecretsUnshown
    <2>4. \A n \in DOMAIN connected' : connected'[n] = making \/ (n \in DOMAIN connected /\ connected'[n] = connected[n])
      BY <2>1 DEF Overlay
    <2>5. RegisteredGuarded' /\ ConnectedAccepted'
      <3>1. \A n \in DOMAIN connected : Guarded(connected[n]) /\ Accepted(connected[n]) /\ Finished(connected[n])
        BY <1>1 DEF BootIInv, RegisteredGuarded, ConnectedAccepted
      <3>2. \A n \in DOMAIN connected' : Guarded(connected'[n]) /\ Accepted(connected'[n]) /\ Finished(connected'[n])
        BY <1>1, <2>4, <3>1
      <3> QED BY <2>1, <3>2 DEF RegisteredGuarded, ConnectedAccepted, Guarded, Accepted, Finished
    <2> QED BY <2>2, <2>3, <2>5 DEF BootIInv
  <1> QED BY <1>2, <1>3

LEMMA BootedKeeps ==
    ASSUME BootIInv, Booted
    PROVE  BootIInv'
  <1>1. dbStage = "next" /\ dbFile' = dbFile /\ making' = making /\ connected' = connected
    BY DEF Booted
  <1>2. making'.state = "none" /\ making'.tokens = "none"
    BY <1>1 DEF BootIInv, MakingAccepted, NoSource
  <1>3. \/ Stops("auth.session.storage", {})
        \/ dbStage' = "up" /\ dbFault' = dbFault
    BY DEF Booted
  <1>4. dbStage' \in {"panicked", "up"}
    BY <1>3 DEF Stops
  <1>5. EntriesRead' /\ MakingAccepted' /\ SecretsUnshown'
    BY <1>1, <1>3, <1>4 DEF Stops, BootIInv, EntriesRead, MakingAccepted, Holding, SecretsUnshown
  <1>6. RefusedClosed'
    BY <1>2 DEF RefusedClosed, LeftBehind
  <1>7. RegisteredGuarded' /\ ConnectedAccepted'
    BY <1>1, <1>4 DEF BootIInv, RegisteredGuarded, ConnectedAccepted
  <1> QED BY <1>5, <1>6, <1>7 DEF BootIInv

LEMMA CloseAllKeeps ==
    ASSUME BootIInv, CloseAll
    PROVE  BootIInv'
  <1>1. /\ dbStage = "up" /\ dbStage' = "closed" /\ dbFile' = dbFile /\ making' = making /\ dbFault' = dbFault
        /\ connected' = [n \in DOMAIN connected |-> Closed(connected[n])]
    BY DEF CloseAll
  <1>2. \A n \in DOMAIN connected : Accepted(connected[n]) /\ Guarded(connected[n])
    BY <1>1 DEF BootIInv, ConnectedAccepted, RegisteredGuarded
  <1>3. EntriesRead' /\ MakingAccepted' /\ RefusedClosed' /\ SecretsUnshown'
    BY <1>1 DEF BootIInv, EntriesRead, MakingAccepted, Holding, RefusedClosed, SecretsUnshown
  <1>4. \A n \in DOMAIN connected' : /\ connected'[n].state = "closed" /\ connected'[n].tokens # "live"
                                     /\ Guarded(connected'[n])
    BY <1>1, <1>2, ClosedIs
  <1>5. RegisteredGuarded' /\ ConnectedAccepted'
    BY <1>1, <1>4 DEF RegisteredGuarded, ConnectedAccepted, Guarded
  <1> QED BY <1>3, <1>5 DEF BootIInv

\* No step of a boot, in whatever order the entries, faults and closes come, breaks BootIInv: what
\* is being made or is registered carries a configuration its engine accepts.
THEOREM BootStepsKeep == BootIInv /\ [BootNext]_bootVars => BootIInv'
  <1> SUFFICES ASSUME BootIInv, [BootNext]_bootVars PROVE BootIInv'
    OBVIOUS
  <1>1. CASE UNCHANGED bootVars
    <2>1. EntriesRead' /\ MakingAccepted' /\ RefusedClosed' /\ SecretsUnshown'
      BY <1>1 DEF bootVars, BootIInv, EntriesRead, MakingAccepted, Accepted, Begun, Finished, RefusedClosed, LeftBehind,
                  SecretsUnshown
    <2>2. RegisteredGuarded' /\ ConnectedAccepted'
      BY <1>1 DEF bootVars, BootIInv, RegisteredGuarded, ConnectedAccepted, Guarded, Accepted, Finished
    <2> QED BY <2>1, <2>2 DEF BootIInv
  <1> QED BY <1>1, ConfigureKeeps, AddConnectionKeeps, OpenPingKeeps, GuardKeeps, WarmUpKeeps, PingKeeps,
             RequirePolicyKeeps, RegisterKeeps, BootedKeeps, CloseAllKeeps DEF BootNext

LEMMA BootIInvSuffices ==
    ASSUME BootIInv
    PROVE  ConfiguredAsWritten
  <1>1. \A n \in DOMAIN connected : Guarded(connected[n])
    BY DEF BootIInv, RegisteredGuarded
  <1>2. TakenOrRefused
    <2> SUFFICES ASSUME dbStage = "up", NEW n \in DOMAIN connected, NEW k \in DOMAIN Entries(connected[n]),
                        connected[n].c.driver \in Engines3, Wrote(Entries(connected[n]), k), ~Overlooked(connected[n], k)
                 PROVE  InForce(connected[n], k)
      BY DEF TakenOrRefused
    <2> DEFINE s == connected[n]
    <2>1. Accepted(s) /\ Guarded(s) /\ Finished(s)
      BY <1>1 DEF BootIInv, ConnectedAccepted
    <2> HIDE DEF s
    <2> QED BY <2>1, KeyInForce DEF s
  <1>3. TokenNeverInClear
    <2> SUFFICES ASSUME NEW n \in DOMAIN connected, connected[n].tokens = "live"
                 PROVE  LET s == connected[n] IN
                        /\ s.sent.encrypt \notin Weak /\ s.sent.trust_server_certificate # "true"
                        /\ IsAzureSQLHost(s.c.host) => scopeCloud(s.c) = AzureCloudOf(s.c.host)
      BY DEF TokenNeverInClear
    <2> DEFINE s == connected[n]
    <2>1. Accepted(s) /\ s.tokens = "live"
      BY DEF BootIInv, ConnectedAccepted
    <2> HIDE DEF s
    <2>2. /\ s.sent.encrypt \notin Weak /\ s.sent.trust_server_certificate # "true"
          /\ IsAzureSQLHost(s.c.host) => scopeCloud(s.c) = AzureCloudOf(s.c.host)
      BY <2>1, TokenSafe
    <2> QED BY <2>2 DEF s
  <1>4. PolicyEnforced
    BY <1>1 DEF PolicyEnforced, Guarded
  <1>5. ClosedWhenRefused
    BY DEF BootIInv, RefusedClosed, LeftBehind, ConnectedAccepted, ClosedWhenRefused
  <1>6. ViperAlike
    BY ParsedAlike DEF ViperAlike
  <1> QED BY <1>2, <1>3, <1>4, <1>5, <1>6 DEF BootIInv, ConfiguredAsWritten

\* For any configuration files, drivers and sign-in methods: every key that an engine of the
\* framework accepted is in force on the connection it was written for, unless it is one of those
\* Overlooked names; the policy flags are guarded; a token is never in the clear; a refusal quotes
\* no secret and closes the datasource it refuses, unless gorm's own ping failed or its name was
\* taken; and the case of a key does not matter.
THEOREM BootedAsWritten == BootSpec => []ConfiguredAsWritten
  <1>1. BootIInv => ConfiguredAsWritten
    BY BootIInvSuffices
  <1> QED BY <1>1, BootedFromTheStart, BootStepsKeep, PTL DEF BootSpec
=============================================================================
