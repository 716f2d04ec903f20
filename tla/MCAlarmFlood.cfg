SPECIFICATION KpiSpec
CONSTANTS
    AlarmTags = {t1, t2, t3, t4}
    AlarmKinds = {hi}
    Observers = {o1}
    Slot = 2
    Hours = 4
    FloodPer10Min = 3
    ChatterChanges = 3
    MaxAlarms = 4
    MaxTime = 5
SYMMETRY MCSymmetry
INVARIANT FloodIsFlagged
CHECK_DEADLOCK FALSE
