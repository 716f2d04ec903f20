SPECIFICATION Spec
CONSTANTS
    r1 = r1
    r2 = r2
    t1 = t1
    t2 = t2
    Requests <- MCRequests
    Technicians <- MCTechnicians
    Jobs <- MCJobs
    Options <- MCOptions
    Seeds <- MCSeeds
    MaxPlans = 3
    MaxCalls = 3
SYMMETRY MCSymmetry
INVARIANTS
    TypeOK
    NeverDoubleBooks
    CapacityKept
    EarliestPossible
    SettledBookings
    ChangesAreRecorded
CHECK_DEADLOCK FALSE
