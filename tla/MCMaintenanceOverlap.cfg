SPECIFICATION Spec
CONSTANTS
    r1 = r1
    r2 = r2
    t1 = t1
    t2 = t2
    Requests <- MCOneRequest
    Technicians <- MCTechnicians
    Jobs <- MCJobs
    Options <- MCOptions
    Seeds <- MCSeeds
    MaxPlans = 3
    MaxCalls = 4
INVARIANTS
    NeverOverlap
CHECK_DEADLOCK FALSE
