CONSTANTS
    s1 = s1
    s2 = s2
    f1 = f1
    Scans <- MCScans
    Flushes <- MCFlushes
    MaxEvents = 1
    MaxItems = 3
    Batch = 2
    MaxAttempts = 1
SPECIFICATION Spec
SYMMETRY MCSymmetry
INVARIANTS
    AnomalyTypeOK
    ClosureIsAnnounced
    HoldsSettle
PROPERTIES
    NoticesEnd
CHECK_DEADLOCK FALSE
