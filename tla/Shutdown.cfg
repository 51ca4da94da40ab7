SPECIFICATION LiveSpec
CONSTANTS
    Requests = {r1}
    Jobs = {gc, report}
    Overlapping = {report}
    Runs = {n1, n2}
    Handlers = {h1, h2}
    Main = main
    Callers = {app}
    Timed = {app}
    None = None
INVARIANTS
    ClosedMeansQuiet
    CleanExitDrained
PROPERTIES
    CountedBeforeWaited
    ExitsWithinDeadline
CHECK_DEADLOCK FALSE
