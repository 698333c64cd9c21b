CONSTANTS
    EventId = {e1, e2}
    NoEvent = NoEvent
    MaxRetries = 2
    MaxDeadLetter = 1
    SessionId = {"s1", "s2"}
    Session <- MCSession
    MaxPending = 1
    MaxActive = 2
SPECIFICATION GSpec
INVARIANTS
    AnswersTrue
    ResultUntilEvicted
PROPERTY ReceiptsKept
