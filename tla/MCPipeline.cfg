CONSTANTS
    EventId = {e1, e2}
    NoEvent = NoEvent
    MaxRetries = 2
    MaxDeadLetter = 1
    MaxTraces = 2
SYMMETRY Symmetry
SPECIFICATION PSpec
INVARIANTS
    CompletedCyclesTrue
    TracesFollowAttempts
    ExecutionsAccounted
