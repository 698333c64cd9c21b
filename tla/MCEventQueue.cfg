CONSTANTS
    EventId = {e1, e2, e3}
    NoEvent = NoEvent
    MaxRetries = 2
    MaxDeadLetter = 1
SPECIFICATION Spec
INVARIANTS
    SequenceUnique
    RetryBudget
    DeadLetterSettled
    StatsAgree
PROPERTIES
    DeadLetterNeverLost
    KeepsContract
