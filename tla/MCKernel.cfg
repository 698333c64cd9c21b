CONSTANTS
    MaxNodes = 3
    MaxEdges = 3
    Submitted <- MCSubmitted
    Priorities = {"MEDIUM", "LOW"}
    Capability <- MCCapability
    MaxPending = 1
SPECIFICATION KSpec
INVARIANTS
    GraphAlgorithmsAgree
    TaskHoldsAgent
PROPERTIES
    PlanEndsCompleted
CHECK_DEADLOCK FALSE
