CONSTANTS
    MaxCheckpoints = 2
    Interval = 1
    MaxActive = 1
    DegradedAfter = 1
    CriticalAfter = 2
    Event = {1, 2}
    MaxCycles = 3
    MaxProcesses = 2
SPECIFICATION Spec
INVARIANTS
    HealthAgrees
PROPERTIES
    RestoresExactly
    SuccessIsEarned
