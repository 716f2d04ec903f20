CONSTANTS
    p1 = p1
    p2 = p2
    Users <- MCUsers
    RolesOf <- MCRolesOf
    TenantOf <- MCTenantOf
    Tenants <- MCTenants
    Orders <- MCOrders
    Requests <- MCRequests
    NoCall = NoCall
    MaxRows = 2
SPECIFICATION Spec
SYMMETRY MCSymmetry
INVARIANTS
    TypeOK
    AssignedBeforeWork
    SnapshotFollowsStatus
    NoStageSkipped
    TrailIsPassed
PROPERTIES
    OnlyAllowedChanges
CHECK_DEADLOCK FALSE
