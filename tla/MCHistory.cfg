CONSTANTS
    w1 = w1
    w2 = w2
    ta = ta
    tb = tb
    e1 = e1
    NoCall = NoCall
    Writers <- MCWriters
    Tenants <- MCTenants
    Entries <- MCEntries
    MaxRows = 5
    AlarmTags = {t1, t2}
    AlarmKinds = {hi, hh}
    Observers = {o1, o2}
    Slot = 2
    Hours = 2
    FloodPer10Min = 2
    ChatterChanges = 3
    MaxAlarms = 3
    MaxTime = 3
SPECIFICATION HistorySpec
SYMMETRY MCSymmetry
INVARIANTS
    RowsAreRooted
    ForkNeedsOverlap
    ForkWidthBounded
    KpisAgree
CHECK_DEADLOCK FALSE
