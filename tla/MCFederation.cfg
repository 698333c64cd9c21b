CONSTANTS
    FedNodes = {1, 2, 3}
    Versions <- MCVersions
    Current <- MCCurrent
    Scores <- MCScores
    Metrics <- MCMetrics
    Starts <- MCStarts
    TiesUp <- MCTiesUp
    OverLimit <- MCOverLimit
    Events = {1, 2}
    Numbers = {0, 1}
    Statuses = {completed, failed}
    MaxVersions = 5
    MaxHistory = 3
    MaxTicks = 5
SPECIFICATION FSpec
CHECK_DEADLOCK FALSE
INVARIANT PathsAreLegal
INVARIANT OrderMattersOnlyInConflict
INVARIANT OneVerdictOnAVersion
INVARIANT RewindIsPrefix
INVARIANT EvolutionApproved
