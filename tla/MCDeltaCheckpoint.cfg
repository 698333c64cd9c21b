CONSTANTS
    BaseInterval = 3
    MaxBases = 2
    HistorySize = 4
    MaxBlocks = 7
SPECIFICATION Spec
INVARIANTS
    LatestLoadable
    TracesReconstructed
