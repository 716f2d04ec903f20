CONSTANTS
    s1 = s1
    s2 = s2
    f1 = f1
    Scans <- MCOneScan
    Flushes <- MCFlushes
    MaxEvents = 1
    MaxItems = 2
    Batch = 2
    MaxAttempts = 2
SPECIFICATION Spec
INVARIANT HoldsMatchAnomalies
CHECK_DEADLOCK FALSE
