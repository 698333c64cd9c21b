CONSTANTS
    Trace <- MCTrace
    MaxActive = 3
    Recent = 3
    MaxReports = 5
    EarlyGraphs = 1
    GraphEvery = 2
    FeedbackEvery = 4
    CompressEvery = 2
    StabilityEvery = 2
    ConfidenceEvery = 1
    GovernEvery = 2
    History = 4
    MinDecay = 2
    MaxPatterns = 2
    MaxFailures = 2
    MaxFingerprints = 2
    MaxSeen = 4
    Timing = {10000}
    Failing = {0}
    Queue <- MCQueue
    MaxTraces = 4
SPECIFICATION OSpec
INVARIANTS
    GraphIsCurrentWhenUsed
    GraphIsSound
    FailureLowersScores
    ExplainedAlike
    DriftSeen
PROPERTIES
    EvictsOldestFirst
    NoFlapping
CHECK_DEADLOCK FALSE
