CONSTANTS
    EventId = {e1, e2}
    NoEvent = NoEvent
    MaxRetries = 2
    MaxDeadLetter = 1
SPECIFICATION DSpec
INVARIANTS
    QueueFollowsTask
PROPERTIES
    ExecutedOnce
    NoStarvation
    ShutdownCompletes
