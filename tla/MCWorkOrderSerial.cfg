CONSTANTS
    p1 = p1
    p2 = p2
    Users <- MCStaff
    RolesOf <- MCStaffRoles
    TenantOf <- MCStaffTenants
    Tenants <- MCTwoTenants
    Orders <- MCOrders
    Requests <- MCOneRequest
    NoCall = NoCall
    MaxRows = 5
SPECIFICATION Spec
INVARIANTS
    TrailReplays
PROPERTIES
    ImplementsMachine
CHECK_DEADLOCK FALSE
