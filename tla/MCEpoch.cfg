CONSTANTS
    HOT_MAX = 2
    WARM_INTERVAL = 2
    WARM_MAX = 2
    HysteresisMax = 3
    Limit <- MCLimit
    BootMax = 2
    ReplayMax = 2
    Intervals = {3, 4}
    ReplayInterval = 1
    AssessInterval = 3
    Window = 2
    MAX_EVENTS = 1
    EntropyRunaway = 1
    OscillationExplosion = 10
    Scores = {1, 2}
    Entropies = {10, 20}
SPECIFICATION ESpec
CHECK_DEADLOCK FALSE
INVARIANTS
    WarmCoversCaptures
    ProbeFollowsScores
    PassedIsEarned
