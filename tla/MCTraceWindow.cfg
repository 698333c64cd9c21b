CONSTANTS
    Trace = {t1, t2}
    MaxActive = 2
    MaxArchivedSegments = 1
    SegmentSize = 2
    MaxTotal = 8
SPECIFICATION Spec
INVARIANTS
    ReadsAsList
