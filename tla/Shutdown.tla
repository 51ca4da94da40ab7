------------------------------ MODULE Shutdown ------------------------------
(***************************************************************************)
(* How the server application ends (app/app.go) while HTTP requests,       *)
(* scheduled jobs (job/scheduler.go) and asynchronous subscribers          *)
(* (event/event_bus.go) are still at work.                                 *)
(*                                                                         *)
(* Main is the goroutine in ServerApp.serve.  Application code may call    *)
(* Shutdown too, from other goroutines.  The first caller runs the drain,  *)
(* the others wait for it.  Whatever is at work may publish events, may    *)
(* end normally or by a panic (which is recovered), or may never end.      *)
(*                                                                         *)
(* The providers have booted: the scheduler has started its loops, and     *)
(* nothing calls Add or Start any more.                                    *)
(***************************************************************************)
EXTENDS Integers, FiniteSets

CONSTANTS
    Requests,    \* bound: requests in flight at once
    Jobs,        \* registered jobs
    Overlapping, \* those with AllowOverlap
    Runs,        \* bound: goroutines of the scheduler's dispatch alive at once
    Handlers,    \* bound: goroutines of the bus alive at once
    Main,        \* the caller in serve
    Callers,     \* application code that calls Shutdown
    Timed,       \* those of Callers whose context has a deadline
    None

ASSUME BoundsAssumption == IsFiniteSet(Jobs) /\ IsFiniteSet(Runs) /\ IsFiniteSet(Handlers)
ASSUME SubsetsAssumption == Overlapping \subseteq Jobs /\ Timed \subseteq Callers
ASSUME NamesAssumption == Main \notin Callers /\ None \notin Callers \cup {Main} \cup Jobs

Everyone == Callers \cup {Main}

VARIABLES
    listening,  \* the listener is open
    requests,   \* requests in flight
    loops,      \* jobs whose ticker loop runs
    run,        \* run[n]: the dispatch goroutine n, or None
    running,    \* jobs whose entry.running flag is set
    wg,         \* the scheduler's WaitGroup
    stop,       \* the goroutine in Scheduler.Stop
    handlers,   \* asynchronous subscribers at work
    waitGroup,  \* the event bus's WaitGroup
    wait,       \* the goroutine in EventBus.WaitAsync
    step,       \* how far the drain is
    drainer,    \* the caller that runs it
    errs,       \* the drain has collected an error
    caller,     \* caller[c]: where the call of Shutdown is
    timed,      \* callers whose context has a deadline
    expired,    \* callers whose deadline has passed
    datasources,
    signalled,  \* SIGTERM or SIGINT has arrived
    exit        \* how the process ended, or None

scheduler == <<loops, run, running, wg>>
bus == <<handlers, waitGroup>>
waiters == <<stop, wait>>
drain == <<step, drainer, errs, datasources>>
calls == <<caller, timed, expired>>
process == <<signalled, exit>>
vars == <<listening, requests, scheduler, bus, waiters, drain, calls, process>>

Run == [job : Jobs, pc : {"dispatched", "running", "ended"}]

ASSUME NoneAssumption == None \notin Run /\ None \notin {"clean", "failed", "killed"}

TypeOK ==
    /\ listening \in BOOLEAN /\ requests \subseteq Requests
    /\ loops \subseteq Jobs /\ running \subseteq Jobs
    /\ run \in [Runs -> Run \cup {None}]
    /\ wg \in Nat /\ waitGroup \in Nat
    /\ stop \in {"none", "started", "cancelled", "returned"}
    /\ handlers \subseteq Handlers
    /\ wait \in {"none", "started", "returned"}
    /\ step \in {"none", "http", "scheduler", "stopping", "bus", "waiting", "close", "done"}
    /\ drainer \in Everyone \cup {None}
    /\ errs \in BOOLEAN
    /\ caller \in [Everyone -> {"idle", "draining", "waiting", "ok", "failed", "late"}]
    /\ timed \subseteq Everyone /\ expired \subseteq timed
    /\ datasources \in {"open", "closed"}
    /\ signalled \in BOOLEAN
    /\ exit \in {None, "clean", "failed", "killed"}

Init ==
    /\ listening = TRUE /\ requests = {}
    /\ loops = Jobs /\ running = {} /\ run = [n \in Runs |-> None]
    /\ wg = Cardinality(Jobs)
    /\ handlers = {} /\ waitGroup = 0
    /\ stop = "none" /\ wait = "none"
    /\ step = "none" /\ drainer = None /\ errs = FALSE /\ datasources = "open"
    /\ caller = [c \in Everyone |-> "idle"]
    /\ timed = Timed /\ expired = {}
    /\ signalled = FALSE /\ exit = None

-----------------------------------------------------------------------------
(* Work. *)

AtWork == requests # {} \/ handlers # {} \/ \E n \in Runs : run[n] # None

Accept(r) ==
    /\ listening /\ r \notin requests
    /\ requests' = requests \cup {r}
    /\ UNCHANGED <<listening, scheduler, bus, waiters, drain, calls, process>>

Respond(r) ==
    /\ r \in requests
    /\ requests' = requests \ {r}
    /\ UNCHANGED <<listening, scheduler, bus, waiters, drain, calls, process>>

\* doPublishAsync, from a request, a job or another subscriber.
Publish(h) ==
    /\ requests # {} \/ handlers # {} \/ \E n \in Runs : run[n] # None /\ run[n].pc = "running"
    /\ h \notin handlers
    /\ handlers' = handlers \cup {h}
    /\ waitGroup' = waitGroup + 1
    /\ UNCHANGED <<listening, requests, scheduler, waiters, drain, calls, process>>

Handled(h) ==
    /\ h \in handlers
    /\ handlers' = handlers \ {h}
    /\ waitGroup' = waitGroup - 1
    /\ UNCHANGED <<listening, requests, scheduler, waiters, drain, calls, process>>

\* Fault: the goroutine counts itself.
DispatchUncounted(j, n) ==
    /\ j \in loops /\ run[n] = None
    /\ run' = [run EXCEPT ![n] = [job |-> j, pc |-> "dispatched"]]
    /\ UNCHANGED <<listening, requests, loops, running, wg, bus, waiters, drain, calls, process>>

\* A tick of job j's loop; select may still choose it when the context is done.
Dispatch(j, n) ==
    /\ j \in loops /\ run[n] = None
    /\ run' = [run EXCEPT ![n] = [job |-> j, pc |-> "dispatched"]]
    /\ wg' = wg + 1
    /\ UNCHANGED <<listening, requests, loops, running, bus, waiters, drain, calls, process>>

\* loop returns once the context is cancelled.
LoopEnds(j) ==
    /\ j \in loops /\ stop \in {"cancelled", "returned"}
    /\ loops' = loops \ {j}
    /\ wg' = wg - 1
    /\ UNCHANGED <<listening, requests, run, running, bus, waiters, drain, calls, process>>

Invoke(n) ==
    /\ run[n] # None /\ run[n].pc = "dispatched"
    /\ run[n].job \in Overlapping \/ run[n].job \notin running
    /\ run' = [run EXCEPT ![n].pc = "running"]
    /\ running' = IF run[n].job \in Overlapping THEN running ELSE running \cup {run[n].job}
    /\ UNCHANGED <<listening, requests, loops, wg, bus, waiters, drain, calls, process>>

Skip(n) ==
    /\ run[n] # None /\ run[n].pc = "dispatched"
    /\ run[n].job \in running \ Overlapping
    /\ run' = [run EXCEPT ![n].pc = "ended"]
    /\ UNCHANGED <<listening, requests, loops, running, wg, bus, waiters, drain, calls, process>>

\* The job returns, fails or panics: the deferred calls clear its flag ...
RunEnds(n) ==
    /\ run[n] # None /\ run[n].pc = "running"
    /\ run' = [run EXCEPT ![n].pc = "ended"]
    /\ running' = running \ {run[n].job}
    /\ UNCHANGED <<listening, requests, loops, wg, bus, waiters, drain, calls, process>>

\* ... and then count the goroutine out.
Done(n) ==
    /\ run[n] # None /\ run[n].pc = "ended"
    /\ run' = [run EXCEPT ![n] = None]
    /\ wg' = wg - 1
    /\ UNCHANGED <<listening, requests, loops, running, bus, waiters, drain, calls, process>>

-----------------------------------------------------------------------------
(* The drain. *)

\* The first caller closes the listener and drains; a later one waits.
CallShutdown(c) ==
    /\ caller[c] = "idle"
    /\ IF step = "none"
       THEN /\ step' = "http" /\ drainer' = c /\ listening' = FALSE
            /\ caller' = [caller EXCEPT ![c] = "draining"]
            /\ UNCHANGED <<errs, datasources>>
       ELSE /\ caller' = [caller EXCEPT ![c] = "waiting"]
            /\ UNCHANGED <<listening, drain>>
    /\ UNCHANGED <<requests, scheduler, bus, waiters, expired, process>>

ApplicationShutdown(c) == c \in Callers /\ CallShutdown(c) /\ UNCHANGED timed

Expire(c) ==
    /\ c \in timed \ expired /\ caller[c] \in {"draining", "waiting"}
    /\ expired' = expired \cup {c}
    /\ UNCHANGED <<listening, requests, scheduler, bus, waiters, drain, caller, timed, process>>

\* Fault: the event bus is waited for without stopping the scheduler first.
HttpDrainedThenBus ==
    /\ step = "http" /\ requests = {}
    /\ step' = "bus"
    /\ UNCHANGED <<listening, requests, scheduler, bus, waiters, drainer, errs, datasources, calls, process>>

\* http.Server.Shutdown returns: no request is left, or the deadline passed.
HttpDrained ==
    /\ step = "http" /\ requests = {}
    /\ step' = "scheduler"
    /\ UNCHANGED <<listening, requests, scheduler, bus, waiters, drainer, errs, datasources, calls, process>>

HttpGivesUp ==
    /\ step = "http" /\ drainer \in expired
    /\ step' = "scheduler" /\ errs' = TRUE
    /\ UNCHANGED <<listening, requests, scheduler, bus, waiters, drainer, datasources, calls, process>>

\* Scheduler.Stop is started, and waited for unless the deadline has passed.
StartStop ==
    /\ step = "scheduler"
    /\ stop' = "started"
    /\ step' = IF drainer \in expired THEN "bus" ELSE "stopping"
    /\ errs' = (errs \/ drainer \in expired)
    /\ UNCHANGED <<listening, requests, scheduler, bus, wait, drainer, datasources, calls, process>>

StopCancels ==
    /\ stop = "started"
    /\ stop' = "cancelled"
    /\ UNCHANGED <<listening, requests, scheduler, bus, wait, drain, calls, process>>

StopReturns ==
    /\ stop = "cancelled" /\ wg = 0
    /\ stop' = "returned"
    /\ UNCHANGED <<listening, requests, scheduler, bus, wait, drain, calls, process>>

\* Fault: the wait does not end at the deadline.
StoppedOnly ==
    /\ step = "stopping" /\ stop = "returned"
    /\ step' = "bus"
    /\ UNCHANGED <<listening, requests, scheduler, bus, waiters, drainer, errs, datasources, calls, process>>

\* waitUntil: when both are ready either is taken.
Stopped ==
    /\ step = "stopping"
    /\ \/ stop = "returned" /\ UNCHANGED errs
       \/ drainer \in expired /\ errs' = TRUE
    /\ step' = "bus"
    /\ UNCHANGED <<listening, requests, scheduler, bus, waiters, drainer, datasources, calls, process>>

StartWait ==
    /\ step = "bus"
    /\ wait' = "started"
    /\ step' = IF drainer \in expired THEN "close" ELSE "waiting"
    /\ errs' = (errs \/ drainer \in expired)
    /\ UNCHANGED <<listening, requests, scheduler, bus, stop, drainer, datasources, calls, process>>

WaitReturns ==
    /\ wait = "started" /\ waitGroup = 0
    /\ wait' = "returned"
    /\ UNCHANGED <<listening, requests, scheduler, bus, stop, drain, calls, process>>

Waited ==
    /\ step = "waiting"
    /\ \/ wait = "returned" /\ UNCHANGED errs
       \/ drainer \in expired /\ errs' = TRUE
    /\ step' = "close"
    /\ UNCHANGED <<listening, requests, scheduler, bus, waiters, drainer, datasources, calls, process>>

\* The datasources close (which may fail) only if everything was waited for.
Close ==
    /\ step = "close"
    /\ IF errs THEN UNCHANGED <<errs, datasources>>
       ELSE datasources' = "closed" /\ errs' \in BOOLEAN
    /\ step' = "done"
    /\ caller' = [caller EXCEPT ![drainer] = IF errs' THEN "failed" ELSE "ok"]
    /\ UNCHANGED <<listening, requests, scheduler, bus, waiters, drainer, timed, expired, process>>

\* A later caller returns the drain's result, or gives up at its own deadline.
Return(c) ==
    /\ caller[c] = "waiting"
    /\ \/ step = "done" /\ caller' = [caller EXCEPT ![c] = IF errs THEN "failed" ELSE "ok"]
       \/ c \in expired /\ caller' = [caller EXCEPT ![c] = "late"]
    /\ UNCHANGED <<listening, requests, scheduler, bus, waiters, drain, timed, expired, process>>

-----------------------------------------------------------------------------
(* The process: ServerApp.serve and the end of Run. *)

Signal ==
    /\ ~signalled
    /\ signalled' = TRUE
    /\ UNCHANGED <<listening, requests, scheduler, bus, waiters, drain, calls, exit>>

\* serve sees the signal and calls Shutdown with the configured timeout.
StopSeen ==
    /\ signalled
    /\ CallShutdown(Main)
    /\ timed' = timed \cup {Main}

\* Fault: the end of serving is taken for the end of the shutdown.
ServeReturns ==
    /\ ~listening /\ caller[Main] = "idle"
    /\ exit' = "clean"
    /\ UNCHANGED <<listening, requests, scheduler, bus, waiters, drain, calls, signalled>>

\* serve sees the listener closed by another caller of Shutdown and waits for it.
ServeEnds ==
    /\ ~listening
    /\ CallShutdown(Main)
    /\ UNCHANGED timed

\* The listener breaks: the process ends without a drain.
ServeFails ==
    /\ listening /\ caller[Main] = "idle"
    /\ exit' = "failed"
    /\ UNCHANGED <<listening, requests, scheduler, bus, waiters, drain, calls, signalled>>

Exit ==
    /\ caller[Main] \in {"ok", "failed", "late"}
    /\ exit' = IF caller[Main] = "ok" THEN "clean" ELSE "failed"
    /\ UNCHANGED <<listening, requests, scheduler, bus, waiters, drain, calls, signalled>>

\* The first signal restored the default behaviour of the next one.
SecondSignal ==
    /\ signalled
    /\ exit' = "killed"
    /\ UNCHANGED <<listening, requests, scheduler, bus, waiters, drain, calls, signalled>>

Work ==
    \/ \E r \in Requests : Accept(r) \/ Respond(r)
    \/ \E h \in Handlers : Publish(h) \/ Handled(h)
    \/ \E j \in Jobs, n \in Runs : Dispatch(j, n)
    \/ \E j \in Jobs : LoopEnds(j)
    \/ \E n \in Runs : Invoke(n) \/ Skip(n) \/ RunEnds(n) \/ Done(n)

Drain ==
    \/ HttpDrained \/ HttpGivesUp
    \/ StartStop \/ StopCancels \/ StopReturns \/ Stopped
    \/ StartWait \/ WaitReturns \/ Waited
    \/ Close
    \/ \E c \in Callers : ApplicationShutdown(c)
    \/ \E c \in Everyone : Expire(c) \/ Return(c)

Process == Signal \/ StopSeen \/ ServeEnds \/ ServeFails \/ Exit \/ SecondSignal

Next == exit = None /\ (Work \/ Drain \/ Process)

Spec == Init /\ [][Next]_vars

\* The goroutines of the framework are scheduled and time passes.  Nothing is
\* assumed of requests, jobs and subscribers: they may never end.
LiveSpec ==
    /\ Spec
    /\ WF_vars(exit = None /\ (HttpDrained \/ HttpGivesUp))
    /\ WF_vars(exit = None /\ (StartStop \/ Stopped))
    /\ WF_vars(exit = None /\ (StartWait \/ Waited))
    /\ WF_vars(exit = None /\ Close)
    /\ WF_vars(exit = None /\ (StopSeen \/ ServeEnds))
    /\ WF_vars(exit = None /\ Exit)
    /\ \A c \in Everyone :
        WF_vars(exit = None /\ Expire(c)) /\ WF_vars(exit = None /\ Return(c))

-----------------------------------------------------------------------------
(* Properties. *)

\* The datasources are closed only once no request, job run or asynchronous
\* subscriber is left to use them, and nothing starts one afterwards.
ClosedMeansQuiet == datasources = "closed" => ~AtWork

\* The process exits with status 0 only after a complete drain, whoever began it
\* (serve must not return as soon as the listener is closed).
CleanExitDrained == exit = "clean" => datasources = "closed" /\ ~AtWork

\* Two runs of a job without AllowOverlap are never in the job at once.
NoOverlap ==
    \A m, n \in Runs :
        /\ run[m] # None /\ run[n] # None /\ m # n
        /\ run[m].pc = "running" /\ run[n].pc = "running"
        /\ run[m].job = run[n].job
        => run[m].job \in Overlapping

\* No WaitGroup is raised from zero once somebody may be waiting on it: the
\* scheduler's never ("the counter is never zero at this point"), the bus's only
\* after the drain has given up on what raises it.
CountedBeforeWaited ==
    [][/\ wg = 0 => wg' = 0
       /\ waitGroup = 0 /\ wait = "started" /\ ~errs => waitGroup' = 0]_vars

\* If every caller of Shutdown sets a deadline, a signal ends the process even
\* when requests, jobs and subscribers never end.
ExitsWithinDeadline == signalled ~> exit # None
=============================================================================
