SPECIFICATION Spec
CONSTANTS
    Runs = {p1, p2, p3}
    Last = 3
    Parts = 2
    MaxSteps = 2
    MaxFaults = 1
SYMMETRY SymmetricRuns
INVARIANTS
    BooksMatchSchema
    TornOnlyByFailure
PROPERTIES
    InListOrder
    OkMeansDone
    NewestFirst
CHECK_DEADLOCK FALSE
